--------------------------- MODULE ThreadQueueList ---------------------------
(***************************************************************************)
(* Common::ThreadQueueList, the ready queue of a core: one deque of        *)
(* threads per priority level, the levels that were ever used linked in    *)
(* ascending order through next_nonempty.  rotate and clear have no caller *)
(* in the kernel and are left out.                                         *)
(***************************************************************************)
EXTENDS Integers, Sequences

CONSTANTS
    Threads,
    NUM_LEVELS \* NUM_QUEUES; level 0 is the best

ASSUME LevelsAssumption == NUM_LEVELS \in Nat \ {0}

Levels == 0 .. NUM_LEVELS - 1

\* The pointers that are no level, numbered as ToIndex does.  A null pointer
\* compares less than every level, as it does in the code.
Null     == -2
Unlinked == -1

VARIABLES
    first,         \* the first level ever used, or Null
    next_nonempty, \* level -> the next used level, Null, or Unlinked
    data           \* level -> its deque of threads

queueVars == <<first, next_nonempty, data>>

QueueInit ==
    /\ first = Null
    /\ next_nonempty = [p \in Levels |-> Unlinked]
    /\ data = [p \in Levels |-> << >>]

Linked(p) == next_nonempty[p] # Unlinked

\* Mutant: a level is linked in front of the chain, wherever it belongs.
linkFirst(p) ==
    /\ next_nonempty' = [next_nonempty EXCEPT ![p] = first]
    /\ first' = p

link(p) ==
    \/ \E i \in Levels :
         /\ i < p /\ Linked(i)
         /\ \A j \in Levels : i < j /\ j < p => ~Linked(j)
         /\ next_nonempty' = [next_nonempty EXCEPT ![p] = next_nonempty[i], ![i] = p]
         /\ UNCHANGED first
    \/ /\ \A i \in Levels : i < p => ~Linked(i)
       /\ next_nonempty' = [next_nonempty EXCEPT ![p] = first]
       /\ first' = p

prepare(p) == IF Linked(p) THEN UNCHANGED <<first, next_nonempty>> ELSE link(p)

\* std::remove over a deque that holds t at most once (QueuesExact).
Without(s, t) ==
    IF \E i \in 1 .. Len(s) : s[i] = t
    THEN LET i == CHOOSE i \in 1 .. Len(s) : s[i] = t
         IN  SubSeq(s, 1, i - 1) \o SubSeq(s, i + 1, Len(s))
    ELSE s

\* The deques after push_front, push_back, remove and move.
push_front(p, t) == [data EXCEPT ![p] = <<t>> \o @]
push_back(p, t)  == [data EXCEPT ![p] = Append(@, t)]
remove(p, t)     == [data EXCEPT ![p] = Without(@, t)]

move(t, old, new) ==
    /\ prepare(new)
    /\ data' = [remove(old, t) EXCEPT ![new] = Append(@, t)]

=============================================================================
