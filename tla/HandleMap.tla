----------------------------- MODULE HandleMap -----------------------------
(***************************************************************************)
(* What a handle table promises its process, without slots, generations or *)
(* a free list: `live` maps each handle that is open to its object.        *)
(***************************************************************************)
EXTENDS Integers, FiniteSets

CONSTANTS HANDLES, OBJECTS, CAPACITY

VARIABLES live, ret

Full == Cardinality(DOMAIN live) = CAPACITY

Init == live = << >> /\ ret.code = "Init"

Open(code, obj) ==
    /\ ~Full
    /\ \E h \in HANDLES \ DOMAIN live :
         /\ live' = [g \in DOMAIN live \cup {h} |->
                        IF g = h THEN obj ELSE live[g]]
         /\ ret'.code = code /\ ret'.handle = h /\ ret'.obj = obj

OpenFails == Full /\ ret'.code = "OutOfHandles" /\ UNCHANGED live

\* The object duplicated is one some open handle denotes, or one the kernel
\* itself knows (the current thread or process).
Create == \E obj \in OBJECTS : Open("Created", obj)
Duplicate == \E obj \in OBJECTS : Open("Duplicated", obj)

Close(h) ==
    /\ live' = [g \in DOMAIN live \ {h} |-> live[g]]
    /\ ret'.code = "Closed" /\ ret'.obj = live[h]

CloseAll == live' = << >> /\ ret'.code = "Cleared"

Reject == ret'.code = "InvalidHandle" /\ UNCHANGED live

Next ==
    \/ Create \/ Duplicate \/ OpenFails
    \/ \E h \in DOMAIN live : Close(h)
    \/ CloseAll
    \/ Reject

Spec == Init /\ [][Next]_<<live, ret>>
=============================================================================
