----------------------------- MODULE CoreTiming -----------------------------
(***************************************************************************)
(* Core::Timing: per emulated core a clock, the slice it may run and the   *)
(* events to come; other cores and host threads leave their events in      *)
(* ts_queue.  The heap and the queue are sets: which of the events that    *)
(* are due at the same time fires first (fifo_order) is left open.         *)
(***************************************************************************)
EXTENDS Integers

CONSTANTS
    NumCores,
    EventIds,         \* pairs of event type and user_data
    MAX_SLICE_LENGTH

ASSUME TimingConstants ==
    /\ NumCores \in Nat \ {0}
    /\ MAX_SLICE_LENGTH \in Nat \ {0}

Cores == 0 .. NumCores - 1

VARIABLES
    executed_ticks,  \* core -> ticks up to the current slice
    slice_length,    \* core -> ticks of the current slice
    downcount,       \* core -> ticks left of it, below 0 after an overshoot
    is_timer_sane,   \* core -> between its Advance's settling and return
    event_queue,     \* core -> its heap
    ts_queue,        \* core -> events pushed from elsewhere
    current_timer    \* the core whose timer is current

clockVars  == <<executed_ticks, slice_length, downcount, is_timer_sane>>
timingVars == <<clockVars, event_queue, ts_queue, current_timer>>

\* `from` says who scheduled the event: "own" core, "other" core or "host".
Event == [id : EventIds, time : Int, from : {"own", "other", "host"}]

TimingInit ==
    /\ executed_ticks = [c \in Cores |-> 0]
    /\ slice_length = [c \in Cores |-> MAX_SLICE_LENGTH]
    /\ downcount = [c \in Cores |-> MAX_SLICE_LENGTH]
    /\ is_timer_sane = [c \in Cores |-> TRUE]
    /\ event_queue = [c \in Cores |-> {}]
    /\ ts_queue = [c \in Cores |-> {}]
    /\ current_timer = 0

GetTicks(c) ==
    executed_ticks[c] + IF is_timer_sane[c] THEN 0 ELSE slice_length[c] - downcount[c]

\* Mutant: scheduling does not shorten the slice that is running.
ForceExceptionCheckNot(c, cycles) == UNCHANGED <<slice_length, downcount>>

ForceExceptionCheck(c, cycles) ==
    IF downcount[c] > cycles
    THEN /\ slice_length' = [slice_length EXCEPT ![c] = @ - (downcount[c] - cycles)]
         /\ downcount' = [downcount EXCEPT ![c] = cycles]
    ELSE UNCHANGED <<slice_length, downcount>>

\* ScheduleEvent on the current core's timer.
ScheduleOwn(e, cycles) ==
    LET c == current_timer
    IN  /\ IF is_timer_sane[c] THEN UNCHANGED <<slice_length, downcount>>
                               ELSE ForceExceptionCheck(c, cycles)
        /\ event_queue' = [event_queue EXCEPT ![c] =
             @ \cup {[id |-> e, time |-> GetTicks(c) + cycles, from |-> "own"]}]
        /\ UNCHANGED <<executed_ticks, is_timer_sane, ts_queue, current_timer>>

\* ScheduleEvent on another core's timer, from the emulation thread.
ScheduleOther(c, e, cycles) ==
    /\ c # current_timer
    /\ ts_queue' = [ts_queue EXCEPT ![c] =
         @ \cup {[id |-> e, time |-> GetTicks(c) + cycles, from |-> "other"]}]
    /\ UNCHANGED <<clockVars, event_queue, current_timer>>

AtLeast(m, n) == IF n < m THEN m ELSE n

HostDelay(cycles) == AtLeast(2 * MAX_SLICE_LENGTH, cycles)

\* ScheduleEvent in thread_safe_mode, with the ticks the host thread has read.
ScheduleHost(c, e, cycles, ticks) ==
    /\ ts_queue' = [ts_queue EXCEPT ![c] =
         @ \cup {[id |-> e, time |-> ticks + HostDelay(cycles), from |-> "host"]}]
    /\ UNCHANGED <<clockVars, event_queue, current_timer>>

\* UnscheduleEvent looks at the heaps only.
UnscheduleEvent(e) ==
    /\ event_queue' = [c \in Cores |-> {v \in event_queue[c] : v.id # e}]
    /\ UNCHANGED <<clockVars, ts_queue, current_timer>>

MoveEvents(c) ==
    /\ event_queue' = [event_queue EXCEPT ![c] = @ \cup ts_queue[c]]
    /\ ts_queue' = [ts_queue EXCEPT ![c] = {}]

\* Mutant: a new slice starts with what the old one has left.
SettleKeepsDowncount(c) ==
    /\ executed_ticks' = [executed_ticks EXCEPT ![c] = @ + slice_length[c] - downcount[c]]
    /\ slice_length' = [slice_length EXCEPT ![c] = 0]
    /\ is_timer_sane' = [is_timer_sane EXCEPT ![c] = TRUE]
    /\ UNCHANGED downcount

\* Advance, up to its loop: the ticks of the slice that ended are accounted.
Settle(c) ==
    /\ executed_ticks' = [executed_ticks EXCEPT ![c] = @ + slice_length[c] - downcount[c]]
    /\ slice_length' = [slice_length EXCEPT ![c] = 0]
    /\ downcount' = [downcount EXCEPT ![c] = 0]
    /\ is_timer_sane' = [is_timer_sane EXCEPT ![c] = TRUE]

\* The events Advance's loop may take next: the earliest ones, if due.
Due(c) ==
    {e \in event_queue[c] : /\ e.time <= executed_ticks[c]
                            /\ \A f \in event_queue[c] : e.time <= f.time}

\* n is the longest slice up to max_slice_length that ends before an event:
\* what GetMaxSliceLength and SetNextSlice compute.
IsSlice(c, max_slice_length, n) ==
    /\ n <= max_slice_length /\ \A e \in event_queue[c] : n <= e.time - executed_ticks[c]
    /\ n = max_slice_length \/ \E e \in event_queue[c] : n = e.time - executed_ticks[c]

\* The numbers a slice may have.
SliceLengths(c, max_slice_length) ==
    {max_slice_length} \cup {e.time - executed_ticks[c] : e \in event_queue[c]}

SetNextSlice(c, max_slice_length) ==
    \E n \in SliceLengths(c, max_slice_length) :
      /\ IsSlice(c, max_slice_length, n)
      /\ slice_length' = [slice_length EXCEPT ![c] = n]
      /\ downcount' = [downcount EXCEPT ![c] = n]

=============================================================================
