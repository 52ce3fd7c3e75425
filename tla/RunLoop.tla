------------------------------ MODULE RunLoop ------------------------------
(***************************************************************************)
(* System::RunLoop, as far as the clocks of the emulated cores are         *)
(* concerned: it catches up the core that is furthest behind or, when none *)
(* is far behind, gives all cores a slice that ends before the next event. *)
(* While a core runs and in the callbacks of Advance events are scheduled  *)
(* and unscheduled; host threads schedule at any time.                     *)
(***************************************************************************)
EXTENDS CoreTiming

CONSTANTS
    Delays,       \* cycles_into_future arguments
    min_delay,    \* the lag that is not worth a synchronisation
    MaxOvershoot, \* ticks the JIT may run past the end of a slice
    Horizon       \* bound on the ticks a core executes, and then is shut down

ASSUME LoopConstants ==
    /\ Delays \subseteq Nat
    /\ min_delay \in Nat /\ MaxOvershoot \in Nat /\ Horizon \in Nat

VARIABLES
    pc,           \* "loop", "sync", "move", "settle", "fire", "callback", "slice", "run"
    phase,        \* the loop that called Advance or ran the core: "sync" or "align"
    core,         \* the core the loop is at, NumCores at its end
    global_ticks, \* at the head of RunLoop
    max_delay, current_core_to_execute, \* the furthest lag so far, and whose it is
    delay,        \* of the core that catches up
    max_slice,
    start_ticks

loopVars == <<phase, core, global_ticks, max_delay, current_core_to_execute, delay,
              max_slice, start_ticks>>
vars == <<timingVars, pc, loopVars>>

Init ==
    /\ TimingInit
    /\ pc = "loop" /\ phase = "align" /\ core = 0 /\ global_ticks = 0
    /\ max_delay = 0 /\ current_core_to_execute = 0 /\ delay = 0
    /\ max_slice = MAX_SLICE_LENGTH /\ start_ticks = 0

\* GetGlobalTicks
IsGlobalTicks(g) ==
    /\ \A c \in Cores : GetTicks(c) <= g
    /\ \E c \in Cores : GetTicks(c) = g

Begin ==
    /\ pc = "loop" /\ \A c \in Cores : GetTicks(c) < Horizon
    /\ \E c \in Cores : IsGlobalTicks(GetTicks(c)) /\ global_ticks' = GetTicks(c)
    /\ pc' = "sync" /\ core' = 0 /\ max_delay' = 0
    /\ UNCHANGED <<timingVars, phase, current_core_to_execute, delay, max_slice, start_ticks>>

SyncSkip ==
    /\ pc = "sync" /\ core \in Cores /\ GetTicks(core) >= global_ticks
    /\ core' = core + 1
    /\ UNCHANGED <<timingVars, pc, phase, global_ticks, max_delay, current_core_to_execute,
                   delay, max_slice, start_ticks>>

SyncAdvance ==
    /\ pc = "sync" /\ core \in Cores /\ GetTicks(core) < global_ticks
    /\ delay' = global_ticks - GetTicks(core)
    /\ pc' = "move" /\ phase' = "sync" /\ current_timer' = core
    /\ UNCHANGED <<clockVars, event_queue, ts_queue, core, global_ticks, max_delay,
                   current_core_to_execute, max_slice, start_ticks>>

\* Mutant: a lag is never made good.
FarBehindNever(d) == FALSE

FarBehind(d) == d > min_delay

\* The core that is furthest behind runs alone, or all cores are aligned.
SyncEnd ==
    /\ pc = "sync" /\ core = NumCores
    /\ \/ /\ FarBehind(max_delay)
          /\ pc' = "run" /\ phase' = "sync"
          /\ core' = current_core_to_execute /\ current_timer' = current_core_to_execute
          /\ UNCHANGED max_slice
       \/ /\ ~FarBehind(max_delay)
          /\ pc' = "move" /\ phase' = "align"
          /\ core' = 0 /\ current_timer' = 0
          /\ max_slice' = MAX_SLICE_LENGTH
    /\ UNCHANGED <<clockVars, event_queue, ts_queue, global_ticks, max_delay,
                   current_core_to_execute, delay, start_ticks>>

\* Timer::Advance of the core, in four kinds of steps.
AdvanceMoves ==
    /\ pc = "move" /\ pc' = "settle"
    /\ MoveEvents(core)
    /\ UNCHANGED <<clockVars, current_timer, loopVars>>

AdvanceSettles ==
    /\ pc = "settle" /\ pc' = "fire"
    /\ Settle(core)
    /\ UNCHANGED <<event_queue, ts_queue, current_timer, loopVars>>

AdvanceFires ==
    /\ pc = "fire" /\ pc' = "callback"
    /\ \E e \in Due(core) : event_queue' = [event_queue EXCEPT ![core] = @ \ {e}]
    /\ UNCHANGED <<clockVars, ts_queue, current_timer, loopVars>>

CallbackReturns ==
    /\ pc = "callback" /\ pc' = "fire"
    /\ UNCHANGED <<timingVars, loopVars>>

\* Advance returns; the caller sets the slice, or takes its bound.
AdvanceReturns ==
    /\ pc = "fire" /\ Due(core) = {}
    /\ is_timer_sane' = [is_timer_sane EXCEPT ![core] = FALSE]
    /\ \/ /\ phase = "sync"
          /\ SetNextSlice(core, delay)
          /\ max_delay' = AtLeast(max_delay, delay)
          /\ current_core_to_execute' = IF max_delay < delay THEN core
                                        ELSE current_core_to_execute
          /\ pc' = "sync" /\ core' = core + 1
          /\ UNCHANGED <<current_timer, max_slice>>
       \/ /\ phase = "align"
          /\ \E n \in SliceLengths(core, max_slice) : IsSlice(core, max_slice, n) /\ max_slice' = n
          /\ IF core + 1 < NumCores
             THEN pc' = "move" /\ core' = core + 1 /\ current_timer' = core + 1
             ELSE pc' = "slice" /\ core' = 0 /\ UNCHANGED current_timer
          /\ UNCHANGED <<slice_length, downcount, max_delay, current_core_to_execute>>
    /\ UNCHANGED <<executed_ticks, event_queue, ts_queue, phase, global_ticks, delay, start_ticks>>

StartSlice ==
    /\ pc = "slice" /\ core \in Cores
    /\ SetNextSlice(core, max_slice)
    /\ start_ticks' = GetTicks(core)
    /\ pc' = "run" /\ current_timer' = core
    /\ UNCHANGED <<executed_ticks, is_timer_sane, event_queue, ts_queue, phase, core,
                   global_ticks, max_delay, current_core_to_execute, delay, max_slice>>

SlicesEnd ==
    /\ pc = "slice" /\ core = NumCores
    /\ pc' = "loop"
    /\ UNCHANGED <<timingVars, loopVars>>

\* The core executes n ticks (AddTicks), perhaps past the end of its slice.
Execute(n) ==
    /\ pc = "run"
    /\ downcount[core] > 0 \/ downcount[core] = slice_length[core]
    /\ n <= downcount[core] + MaxOvershoot
    /\ downcount' = [downcount EXCEPT ![core] = @ - n]
    /\ UNCHANGED <<executed_ticks, slice_length, is_timer_sane, event_queue, ts_queue,
                   current_timer, pc, loopVars>>

\* Timer::Idle instead: the core has no thread to run.
Idle ==
    /\ pc = "run" /\ downcount[core] = slice_length[core]
    /\ downcount' = [downcount EXCEPT ![core] = 0]
    /\ UNCHANGED <<executed_ticks, slice_length, is_timer_sane, event_queue, ts_queue,
                   current_timer, pc, loopVars>>

\* Run returns, at the end of the slice or because PrepareReschedule stopped
\* the core; the next core may run as long as this one did.
RunEnds ==
    /\ pc = "run"
    /\ \/ phase = "sync" /\ pc' = "loop" /\ UNCHANGED <<core, max_slice>>
       \/ /\ phase = "align"
          /\ max_slice' = GetTicks(core) - start_ticks
          /\ pc' = "slice" /\ core' = core + 1
    /\ UNCHANGED <<timingVars, phase, global_ticks, max_delay, current_core_to_execute, delay,
                   start_ticks>>

-----------------------------------------------------------------------------
\* Every event is scheduled once at a time.
Pending(e) == \E c \in Cores : \E v \in event_queue[c] \cup ts_queue[c] : v.id = e

\* Calls of the emulated program and of callbacks.
Schedule(e, cycles) ==
    /\ pc \in {"run", "callback"} /\ ~Pending(e)
    /\ ScheduleOwn(e, cycles) \/ \E c \in Cores : ScheduleOther(c, e, cycles)
    /\ UNCHANGED <<pc, loopVars>>

\* Rescheduling, at the end of RunLoop and after Advance, unschedules too.
Unschedule(e) ==
    /\ pc \in {"run", "callback", "fire", "loop"}
    /\ UnscheduleEvent(e)
    /\ UNCHANGED <<pc, loopVars>>

\* What a host thread may read while Advance writes executed_ticks,
\* slice_length and downcount without a lock.
TicksRead(c) ==
    {GetTicks(c)} \cup
    IF pc = "settle" /\ c = core /\ ~is_timer_sane[c]
    THEN {GetTicks(c) + slice_length[c] - downcount[c], GetTicks(c) - downcount[c]}
    ELSE {}

HostSchedule(c, e, cycles) ==
    /\ ~Pending(e)
    /\ \E ticks \in TicksRead(c) : ScheduleHost(c, e, cycles, ticks)
    /\ UNCHANGED <<pc, loopVars>>

LoopStep ==
    \/ Begin \/ SyncSkip \/ SyncAdvance \/ SyncEnd
    \/ AdvanceMoves \/ AdvanceSettles \/ AdvanceFires \/ CallbackReturns \/ AdvanceReturns
    \/ StartSlice \/ SlicesEnd \/ Idle \/ RunEnds

Next ==
    \/ LoopStep
    \/ \E n \in 1 .. MAX_SLICE_LENGTH + MaxOvershoot : Execute(n)
    \/ \E e \in EventIds, d \in Delays : Schedule(e, d)
    \/ \E e \in EventIds : Unschedule(e)
    \/ \E c \in Cores, e \in EventIds, d \in Delays : HostSchedule(c, e, d)

Spec == Init /\ [][Next]_vars

-----------------------------------------------------------------------------
\* The clock of a core never goes back, whatever Advance, SetNextSlice and
\* ForceExceptionCheck do to the three numbers it is computed from: the
\* emulated programs read it, and lateness and lags are differences of clocks.
ClocksMonotonic == [][\A c \in Cores : GetTicks(c)' >= GetTicks(c)]_vars

\* The longest a core runs without Advance: a slice, or the lag it makes good.
MaxLag == MAX_SLICE_LENGTH + min_delay + (NumCores - 1) * MaxOvershoot
MaxRun == MaxLag + MaxOvershoot

\* How late an event may be.  A core stops for the events of its own heap.
\* Another core's event waits for what is under way.  A host thread's event
\* is 2 * MAX_SLICE_LENGTH in the future, to be moved to the heap in time; the
\* clock it was added to may have been read too low by a whole downcount.
Tolerance(from) ==
    CASE from = "own"   -> MaxOvershoot
      [] from = "other" -> MaxRun
      [] from = "host"  -> AtLeast(MaxOvershoot, MaxLag + MaxRun - 2 * MAX_SLICE_LENGTH)

\* An event whose time has come fires before the core has run on for more
\* than that.
Punctual ==
    pc = "fire" => \A e \in Due(core) : executed_ticks[core] - e.time <= Tolerance(e.from)

\* RunLoop keeps the cores together: "All cores should have executed the same
\* amount of ticks", but for a slice, the lag it tolerates and overshoots.
LagBounded ==
    pc = "loop" => \A c, d \in Cores :
      GetTicks(c) - GetTicks(d) <= MaxLag

=============================================================================
