------------------------------ MODULE ReadyPool ------------------------------
(***************************************************************************)
(* What a core's scheduler promises, without its queue: threads become     *)
(* Ready, wait, change priority and stop, and a reschedule gives the core  *)
(* to a best Ready thread that may be scheduled, preempting a Running      *)
(* thread only for a strictly better one.  KernelSync's Reschedule is this *)
(* one; module Scheduler is shown to implement it.                         *)
(***************************************************************************)
EXTENDS Integers

CONSTANTS
    Threads,   \* the threads of one core
    None,      \* no thread
    NUM_LEVELS \* ThreadPrioLowest + 1; level 0 is the best

Levels == 0 .. NUM_LEVELS - 1

VARIABLES status, current_priority, can_schedule, current_thread

poolVars == <<status, current_priority, can_schedule, current_thread>>

PoolInit ==
    /\ status = [t \in Threads |-> "Unborn"]
    /\ current_priority = [t \in Threads |-> 0]
    /\ can_schedule = [t \in Threads |-> TRUE]
    /\ current_thread = None

Running == current_thread # None /\ status[current_thread] = "Running"

\* The threads the core may be given to.
Candidates ==
    {r \in Threads : /\ status[r] = "Ready" /\ can_schedule[r]
                     /\ Running => current_priority[r] < current_priority[current_thread]}

\* SwitchContext, on the threads' states.
GiveCoreTo(new) ==
    /\ current_thread' = new
    /\ status' = [t \in Threads |->
                    IF t = new THEN "Running"
                    ELSE IF t = current_thread /\ status[t] = "Running" THEN "Ready"
                    ELSE status[t]]
    /\ UNCHANGED <<current_priority, can_schedule>>

PoolReschedule ==
    \/ \E r \in Candidates :
         /\ \A q \in Candidates : current_priority[r] <= current_priority[q]
         /\ GiveCoreTo(r)
    \/ Candidates = {} /\ GiveCoreTo(IF Running THEN current_thread ELSE None)

\* A new thread, a wait, a wakeup, the end of a thread.
PoolStatus(t, from, to) ==
    /\ status[t] \in from
    /\ status' = [status EXCEPT ![t] = to]
    /\ UNCHANGED <<can_schedule, current_thread>>

PoolNext ==
    \/ PoolReschedule
    \/ \E t \in Threads, p \in Levels, to \in {"Ready", "Wait"} :
         /\ PoolStatus(t, {"Unborn"}, to)
         /\ current_priority' = [current_priority EXCEPT ![t] = p]
    \/ \E t \in Threads :
         /\ \/ t = current_thread /\ PoolStatus(t, {"Running"}, "Wait")
            \/ PoolStatus(t, {"Wait"}, "Ready")
            \/ PoolStatus(t, {"Ready", "Running", "Wait"}, "Dead")
         /\ UNCHANGED current_priority
    \/ \E t \in Threads, p \in Levels :
         /\ status[t] # "Unborn"
         /\ current_priority' = [current_priority EXCEPT ![t] = p]
         /\ UNCHANGED <<status, can_schedule, current_thread>>
    \/ /\ can_schedule' \in [Threads -> BOOLEAN]
       /\ UNCHANGED <<status, current_priority, current_thread>>

PoolSpec == PoolInit /\ [][PoolNext]_poolVars

=============================================================================
