---------------------------- MODULE MCKernelSync ----------------------------
(***************************************************************************)
(* Instances of KernelSync for TLC.                                        *)
(***************************************************************************)
EXTENDS KernelSync

CONSTANTS t1, t2, t3, m1, m2, e1, e2, s1, tm1, p1, p2, a1

\* Every thread belongs to p1, or t1 to p2 and the others to p1.
OneProcess == [t \in Threads |-> p1]
TwoProcesses == [t \in Threads |-> IF t = t1 THEN p2 ELSE p1]

OneCore == [t \in Threads |-> 0]
TwoCores == [t \in Threads |-> IF t = t1 THEN 0 ELSE 1]

OneShotEvents == [e \in Signals |-> "OneShot"]
MixedTypes == [e \in Signals |-> IF e = e1 THEN "Pulse" ELSE "OneShot"]

\* Every thread waits for any object but itself.
NotItself == [t \in Threads |-> WaitObjects \ {t}]

OneUnit == [s \in Semaphores |-> 1]

\* t1 is the least urgent thread, t3 the most urgent.
DistinctPriorities == [t \in Threads |-> CASE t = t1 -> 2 [] t = t2 -> 1 [] OTHER -> 0]
EqualPriorities == [t \in Threads |-> 1]

\* Release counts and arbitration values on both sides of the limits.
UnitCounts == {-1, 1}
WordValues == {-1, 1}

NoLists == [t \in Threads |-> {}]
SignalLists == [t \in Threads |-> {<<e1, s1>>, <<tm1, s1, s1>>}]
JoinLists == [t \in Threads |-> IF t = t2 THEN {} ELSE {<<m1, t2, m1>>}]
MutexAndEvent == [t \in Threads |-> {<<m1, e1>>}]
=============================================================================
