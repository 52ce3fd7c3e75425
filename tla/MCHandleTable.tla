--------------------------- MODULE MCHandleTable ---------------------------
(***************************************************************************)
(* HandleTable with a history of the handles it issued, for TLC.           *)
(***************************************************************************)
EXTENDS HandleTable

\* The last GEN_LIMIT - 1 handles issued, newest first, and whether each is
\* still open, that is neither closed nor cleared since.
VARIABLE issued

histVars == <<vars, issued>>

HistInit == Init /\ issued = << >>

Closes(h) ==
    \/ ret'.code = "Cleared"
    \/ ret'.code = "Closed" /\ GetSlot(ret'.handle) = h.slot /\ ret'.handle.gen = h.gen

HistNext ==
    /\ Next
    /\ issued' =
         IF ret'.code \in {"Created", "Duplicated"}
         THEN SubSeq(<<[h |-> ret'.handle, open |-> TRUE]>> \o issued, 1,
                     IF Len(issued) < GEN_LIMIT - 1 THEN Len(issued) + 1 ELSE GEN_LIMIT - 1)
         ELSE [i \in DOMAIN issued |->
                 [issued[i] EXCEPT !.open = @ /\ ~Closes(issued[i].h)]]

HistSpec == HistInit /\ [][HistNext]_histVars

(***************************************************************************)
(* A handle that was closed, or dropped by Clear, is rejected by IsValid   *)
(* until 2^15 - 1 handles have been created since it was issued, however   *)
(* often its slot is reused, and even though Clear resets the slots.       *)
(***************************************************************************)
StaleHandlesRejected ==
    \A i \in DOMAIN issued : IsValid(issued[i].h) => issued[i].open

=============================================================================
