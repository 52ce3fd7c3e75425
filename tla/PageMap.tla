------------------------------ MODULE PageMap ------------------------------
(***************************************************************************)
(* What an address space promises, page by page and without areas: each    *)
(* page is free or has permissions, a state and a page of memory behind    *)
(* it, and a call changes what it names and nothing else.                  *)
(***************************************************************************)
EXTENDS Integers, FiniteSets, FiniteSetsExt

CONSTANTS MaxAddress, Null

VARIABLE pages   \* page -> [perm, state, backing]

Pages == 0 .. MaxAddress - 1

FreePage == [perm |-> {}, state |-> "Free", backing |-> Null]

\* What a step does to the pages: the ones it maps, unmaps, moves to another
\* state, and gives other permissions only.
Change(old, new) ==
    LET Backed(m) == {p \in Pages : m[p].backing # Null}
        kept == Backed(old) \cap Backed(new)
        retagged == {p \in kept : new[p].state # old[p].state}
    IN  [gained |-> Backed(new) \ Backed(old),
         lost |-> Backed(old) \ Backed(new),
         retagged |-> retagged,
         reprotected |-> {p \in kept \ retagged : new[p].perm # old[p].perm}]

OneRange(S) == S # {} => S = Min(S) .. Max(S)

\* All pages of S have the same permissions and the same state.
Alike(S, m) == \A p, q \in S : m[p].perm = m[q].perm /\ m[p].state = m[q].state

\* The permissions of a new mapping may reach a neighbour of the same state,
\* with which it was merged before it had them.
Mapped(c, new) ==
    /\ c.gained # {} /\ OneRange(c.gained)
    /\ c.lost = {}
    /\ Alike(c.gained \cup c.reprotected, new)

\* Memory is mapped into one range.
Allocate(c, new) == Mapped(c, new) /\ c.retagged = {}

\* A buffer is mapped between two pages that nobody may touch.
Guard(c, new) ==
    LET guards == {Min(c.gained), Max(c.gained)} IN
    /\ Cardinality(c.gained) > 2 /\ OneRange(c.gained)
    /\ Alike(c.gained \ guards, new) /\ Alike(guards, new)
    /\ \A p \in guards : new[p].perm = {} /\ new[p].state = "Reserved"
    /\ c.lost \cup c.retagged \cup c.reprotected = {}

\* One range is unmapped, and the memory behind it may be released.
Release(c) == c.lost # {} /\ OneRange(c.lost) /\ c.gained \cup c.retagged \cup c.reprotected = {}

\* A range is marked, and mapped a second time elsewhere in the same order.
Alias(c, new) ==
    /\ Mapped(c, new)
    /\ OneRange(c.retagged) /\ Alike(c.retagged, new)
    /\ Cardinality(c.retagged) = Cardinality(c.gained)
    /\ \A i \in 0 .. Cardinality(c.gained) - 1 :
          new[Min(c.gained) + i].backing = new[Min(c.retagged) + i].backing

\* A second mapping is removed, and the mark of as many pages with it.
Unalias(c, new) ==
    /\ c.lost # {} /\ OneRange(c.lost)
    /\ OneRange(c.retagged) /\ Alike(c.retagged, new)
    /\ Cardinality(c.retagged) = Cardinality(c.lost)
    /\ c.gained \cup c.reprotected = {}

\* A range is marked, or unmarked.
Mark(c, new) ==
    /\ c.retagged # {} /\ OneRange(c.retagged) /\ Alike(c.retagged, new)
    /\ c.gained \cup c.lost \cup c.reprotected = {}

Protect(c, new) ==
    /\ c.reprotected # {} /\ \A p, q \in c.reprotected : new[p].perm = new[q].perm
    /\ c.gained \cup c.lost \cup c.retagged = {}

\* A page that stays mapped keeps the memory it had.
SameMemory(old, new) ==
    \A p \in Pages : old[p].backing # Null /\ new[p].backing # Null
                        => new[p].backing = old[p].backing

Init == pages = [p \in Pages |-> FreePage]

\* The process is gone and another begins.
Clear(new) == \A p \in Pages : new[p] = FreePage

Step(old, new, c) ==
    \/ Clear(new)
    \/ /\ SameMemory(old, new)
       /\ \/ Allocate(c, new) \/ Guard(c, new) \/ Release(c)
          \/ Alias(c, new) \/ Unalias(c, new) \/ Mark(c, new) \/ Protect(c, new)

\* What the step changes is worked out once, and then classified.
Next ==
    \E old \in {pages}, new \in {pages'} : \E c \in {Change(old, new)} : Step(old, new, c)

Spec == Init /\ [][Next]_pages
=============================================================================
