---------------------------- MODULE MCScheduler ----------------------------
(* Model values for Scheduler: the threads of one core and their levels.   *)
EXTENDS Scheduler

CONSTANTS t1, t2, t3

ThreeThreads == {t1, t2, t3}

=============================================================================
