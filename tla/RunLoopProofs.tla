--------------------------- MODULE RunLoopProofs ---------------------------
(***************************************************************************)
(* For any number of cores, events, delays and overshoot:                  *)
(*   - the clock of a core never goes back.  It is read from three numbers *)
(*     that Advance, SetNextSlice, ForceExceptionCheck and the core change *)
(*     one by one; that it does not jump depends on where RunLoop is (Inv);*)
(*   - the cores stay together (LagInv), and                               *)
(*   - events fire in time (TimeInv, on top of the other two).             *)
(***************************************************************************)
EXTENDS RunLoop, FiniteSetTheorems, TLAPS

Advancing == {"move", "settle", "fire", "callback"}

ClockTypes ==
    /\ executed_ticks \in [Cores -> Int]
    /\ slice_length \in [Cores -> Int]
    /\ downcount \in [Cores -> Int]
    /\ is_timer_sane \in [Cores -> BOOLEAN]

QueueTypes ==
    /\ event_queue \in [Cores -> SUBSET Event]
    /\ ts_queue \in [Cores -> SUBSET Event]

LoopTypes ==
    /\ current_timer \in Cores /\ current_core_to_execute \in Cores
    /\ pc \in Advancing \cup {"loop", "sync", "slice", "run"}
    /\ phase \in {"sync", "align"}
    /\ core \in 0 .. NumCores
    /\ global_ticks \in Int /\ max_delay \in Int /\ delay \in Int
    /\ max_slice \in Int /\ start_ticks \in Int

\* No slice is negative, and no core has run less than nothing of its slice.
SlicesSound == \A c \in Cores : 0 <= slice_length[c] /\ downcount[c] <= slice_length[c]

\* The timer that is current is the one of the core that RunLoop is at.
AtCore == pc \in Advancing \cup {"run"} => core \in Cores /\ current_timer = core

\* Between Advance's settling and return the clock is executed_ticks alone.
Settled ==
    pc \in {"fire", "callback"} => is_timer_sane[core] /\ slice_length[core] = downcount[core]

\* Core d has been advanced and not run since: nothing is due, nothing has run.
Fresh(d) ==
    /\ slice_length[d] = downcount[d]
    /\ \A e \in event_queue[d] : e.time > executed_ticks[d]

\* A core is given a slice because it lags behind, or when all are fresh.
SlicesDue ==
    /\ pc \in Advancing /\ phase = "sync" => delay > 0
    /\ pc \in Advancing /\ phase = "align" =>
         max_slice > 0 /\ \A d \in Cores : d < core => Fresh(d)
    /\ pc = "slice" => phase = "align" /\ max_slice >= 0 /\ \A d \in Cores : d >= core => Fresh(d)
    /\ pc = "run" /\ phase = "align" =>
         start_ticks <= GetTicks(core) /\ \A d \in Cores : d > core => Fresh(d)

Inv == /\ ClockTypes /\ QueueTypes /\ LoopTypes
       /\ SlicesSound /\ AtCore /\ Settled /\ SlicesDue

Monotonic == \A c \in Cores : GetTicks(c)' >= GetTicks(c)

-----------------------------------------------------------------------------
\* Timing's constructor establishes the invariant.
LEMMA InitInv == Init => Inv
  <1> SUFFICES ASSUME Init PROVE Inv
    OBVIOUS
  <1>1. ClockTypes /\ QueueTypes /\ LoopTypes
    BY TimingConstants
    DEF Init, TimingInit, ClockTypes, QueueTypes, LoopTypes, Cores, Advancing
  <1>2. SlicesSound /\ AtCore /\ Settled /\ SlicesDue
    BY TimingConstants
    DEF Init, TimingInit, SlicesSound, AtCore, Settled, SlicesDue, Advancing
  <1> QED
    BY <1>1, <1>2 DEF Inv

\* The clock depends on its three numbers and on is_timer_sane alone.
LEMMA SameClock ==
    ASSUME NEW c \in Cores, ClockTypes, ClockTypes', executed_ticks'[c] = executed_ticks[c],
           slice_length'[c] - downcount'[c] >= slice_length[c] - downcount[c],
           is_timer_sane'[c] = is_timer_sane[c]
    PROVE  GetTicks(c)' >= GetTicks(c)
  BY DEF GetTicks, ClockTypes

\* A clock is a number.
LEMMA TicksInt ==
    ASSUME ClockTypes, NEW c \in Cores
    PROVE  GetTicks(c) \in Int
  BY DEF GetTicks, ClockTypes

\* A slice that SetNextSlice finds is positive if its bound is and no event
\* of the core is due, which is how Advance leaves the heap.
LEMMA SliceAfterAdvance ==
    ASSUME ClockTypes, QueueTypes, NEW c \in Cores, Due(c) = {}, NEW m \in Int, m > 0,
           NEW n \in SliceLengths(c, m), IsSlice(c, m, n)
    PROVE  n \in Int /\ n > 0 /\ \A e \in event_queue[c] : e.time > executed_ticks[c]
  <1>1. executed_ticks[c] \in Int /\ \A e \in event_queue[c] : e.time \in Int
    BY DEF ClockTypes, QueueTypes, Event
  <1>2. n \in Int
    BY <1>1 DEF SliceLengths
  <1>3. n > 0
    <2>1. CASE n = m
      BY <2>1
    <2>2. CASE n # m
      <3>1. PICK e \in event_queue[c] : n = e.time - executed_ticks[c]
        BY <2>2 DEF IsSlice
      <3>2. \A f \in event_queue[c] : e.time <= f.time
        BY <1>1, <3>1 DEF IsSlice
      <3>3. ~(e.time <= executed_ticks[c])
        BY <3>1, <3>2 DEF Due
      <3> QED
        BY <1>1, <3>1, <3>3
    <2> QED
      BY <2>1, <2>2
  <1> QED
    BY <1>1, <1>2, <1>3 DEF IsSlice

\* ScheduleEvent on the own timer cuts the slice without moving the clock.
LEMMA ScheduleOwnKeeps ==
    ASSUME Inv, NEW e \in EventIds, NEW d \in Delays, pc \in {"run", "callback"},
           ScheduleOwn(e, d), UNCHANGED <<pc, loopVars>>
    PROVE  Inv' /\ Monotonic
  <1> USE DEF Inv
  <1>1. core \in Cores /\ current_timer = core /\ d \in Int /\ d >= 0
    BY LoopConstants DEF AtCore, Advancing
  <1>2. UNCHANGED <<executed_ticks, is_timer_sane, ts_queue, current_timer, pc, loopVars>>
    BY DEF ScheduleOwn
  <1>3. /\ slice_length' \in [Cores -> Int] /\ downcount' \in [Cores -> Int]
        /\ \A c \in Cores :
             /\ slice_length'[c] - downcount'[c] = slice_length[c] - downcount[c]
             /\ 0 <= slice_length'[c]
             /\ c # core => slice_length'[c] = slice_length[c] /\ downcount'[c] = downcount[c]
             /\ is_timer_sane[core] => slice_length'[c] = slice_length[c] /\ downcount'[c] = downcount[c]
    <2>1. CASE UNCHANGED <<slice_length, downcount>>
      BY <2>1 DEF ClockTypes, SlicesSound
    <2>2. CASE ~is_timer_sane[core] /\ downcount[core] > d /\ ForceExceptionCheck(core, d)
      BY <1>1, <2>2 DEF ForceExceptionCheck, ClockTypes, SlicesSound
    <2> QED
      BY <1>1, <2>1, <2>2 DEF ScheduleOwn, ForceExceptionCheck
  <1>4. ClockTypes'
    BY <1>2, <1>3 DEF ClockTypes
  <1>5. /\ QueueTypes'
        /\ \A c \in Cores : c # core => event_queue'[c] = event_queue[c]
    <2>1. [id |-> e, time |-> GetTicks(core) + d, from |-> "own"] \in Event
      BY <1>1, TicksInt DEF Event
    <2> QED
      BY <1>1, <1>2, <2>1 DEF ScheduleOwn, QueueTypes
  <1>6. LoopTypes' /\ AtCore'
    BY <1>2 DEF LoopTypes, AtCore, loopVars
  <1>7. SlicesSound'
    BY <1>3 DEF SlicesSound, ClockTypes
  <1>8. Settled'
    BY <1>1, <1>2, <1>3 DEF Settled, loopVars, ClockTypes
  <1>9. Monotonic
    BY <1>2, <1>3, <1>4, SameClock DEF Monotonic, ClockTypes
  <1>10. \A c \in Cores : c # core /\ Fresh(c) => Fresh(c)'
    BY <1>2, <1>3, <1>5 DEF Fresh, loopVars
  <1>11. SlicesDue'
    <2>1. GetTicks(core)' >= GetTicks(core) /\ GetTicks(core) \in Int /\ GetTicks(core)' \in Int
      BY <1>1, <1>2, <1>4, <1>9, TicksInt DEF Monotonic, GetTicks, ClockTypes, loopVars
    <2> QED
      BY <1>1, <1>2, <1>10, <2>1 DEF SlicesDue, loopVars, Cores, LoopTypes, Advancing
  <1> QED
    BY <1>4, <1>5, <1>6, <1>7, <1>8, <1>9, <1>11

\* A clock whose variables do not change does not go back.
LEMMA ClockStands ==
    ASSUME ClockTypes, UNCHANGED clockVars
    PROVE  ClockTypes' /\ Monotonic
  <1>1. ClockTypes'
    BY DEF ClockTypes, clockVars
  <1>2. \A c \in Cores : GetTicks(c)' = GetTicks(c) /\ GetTicks(c) \in Int
    BY TicksInt DEF GetTicks, clockVars
  <1> QED
    BY <1>1, <1>2 DEF Monotonic

\* A change of ts_queue, or fewer events on the heaps, disturbs no clock.
LEMMA QueueChangeKeeps ==
    ASSUME Inv, QueueTypes', \A c \in Cores : event_queue'[c] \subseteq event_queue[c],
           UNCHANGED <<clockVars, current_timer, pc, loopVars>>
    PROVE  Inv' /\ Monotonic
  <1> USE DEF Inv
  <1>1. ClockTypes' /\ Monotonic
    BY ClockStands
  <1>2. LoopTypes' /\ AtCore'
    BY DEF LoopTypes, AtCore, loopVars
  <1>3. SlicesSound' /\ Settled'
    BY DEF SlicesSound, Settled, clockVars, loopVars
  <1>4. \A c \in Cores : Fresh(c) => Fresh(c)'
    BY DEF Fresh, clockVars
  <1>5. GetTicks(core)' = GetTicks(core)
    BY DEF GetTicks, clockVars, loopVars
  <1>6. SlicesDue'
    BY <1>4, <1>5 DEF SlicesDue, loopVars
  <1> QED
    BY <1>1, <1>2, <1>3, <1>6

\* ScheduleEvent on another core's timer.
LEMMA ScheduleOtherKeeps ==
    ASSUME Inv, NEW e \in EventIds, NEW d \in Delays, NEW c \in Cores, ScheduleOther(c, e, d),
           UNCHANGED <<pc, loopVars>>
    PROVE  Inv' /\ Monotonic
  <1>1. [id |-> e, time |-> GetTicks(c) + d, from |-> "other"] \in Event
    BY TicksInt, LoopConstants DEF Event, Inv
  <1>2. QueueTypes' /\ event_queue' = event_queue
    BY <1>1 DEF ScheduleOther, QueueTypes, Inv
  <1> QED
    BY <1>2, QueueChangeKeeps DEF ScheduleOther

\* ScheduleEvent from a host thread, whatever it has read of the clock.
LEMMA HostScheduleKeeps ==
    ASSUME Inv, NEW e \in EventIds, NEW d \in Delays, NEW c \in Cores, HostSchedule(c, e, d)
    PROVE  Inv' /\ Monotonic
  <1>1. PICK ticks \in TicksRead(c) : ScheduleHost(c, e, d, ticks)
    BY DEF HostSchedule
  <1>2. ticks \in Int
    <2>1. GetTicks(c) \in Int
      BY TicksInt DEF Inv
    <2> QED
      BY <2>1 DEF TicksRead, Inv, ClockTypes
  <1>3. HostDelay(d) \in Int
    BY TimingConstants, LoopConstants DEF HostDelay, AtLeast
  <1>4. [id |-> e, time |-> ticks + HostDelay(d), from |-> "host"] \in Event
    BY <1>2, <1>3 DEF Event
  <1>5. QueueTypes' /\ event_queue' = event_queue
    BY <1>1, <1>4 DEF ScheduleHost, QueueTypes, Inv
  <1> QED
    BY <1>1, <1>5, QueueChangeKeeps DEF ScheduleHost, HostSchedule

\* UnscheduleEvent, at any time.
LEMMA UnscheduleKeeps ==
    ASSUME Inv, NEW e \in EventIds, Unschedule(e)
    PROVE  Inv' /\ Monotonic
  <1>1. QueueTypes' /\ \A c \in Cores : event_queue'[c] \subseteq event_queue[c]
    BY DEF Unschedule, UnscheduleEvent, QueueTypes, Inv
  <1> QED
    BY <1>1, QueueChangeKeeps DEF Unschedule, UnscheduleEvent

\* The steps of RunLoop that touch no clock.
LEMMA ControlKeeps ==
    ASSUME Inv, Begin \/ SyncSkip \/ SyncAdvance \/ SyncEnd \/ CallbackReturns \/ SlicesEnd
                \/ RunEnds
    PROVE  Inv' /\ Monotonic
  <1> USE DEF Inv
  <1>1. UNCHANGED <<clockVars, event_queue, ts_queue>>
    BY DEF Begin, SyncSkip, SyncAdvance, SyncEnd, CallbackReturns, SlicesEnd, RunEnds, timingVars
  <1>2. ClockTypes' /\ Monotonic /\ QueueTypes' /\ SlicesSound'
    BY <1>1, ClockStands DEF QueueTypes, SlicesSound, clockVars
  <1>3. \A c \in Cores : GetTicks(c) \in Int
    BY TicksInt
  <1>4. \A c \in Cores : Fresh(c) => Fresh(c)'
    BY <1>1 DEF Fresh, clockVars
  <1>5. CASE Begin
    BY <1>2, <1>3, <1>5, TimingConstants
    DEF Begin, LoopTypes, AtCore, Settled, SlicesDue, Advancing, timingVars
  <1>6. CASE SyncSkip
    BY <1>2, <1>6, TimingConstants
    DEF SyncSkip, LoopTypes, AtCore, Settled, SlicesDue, Advancing, timingVars, Cores
  <1>7. CASE SyncAdvance
    BY <1>2, <1>3, <1>7
    DEF SyncAdvance, LoopTypes, AtCore, Settled, SlicesDue, Advancing
  <1>8. CASE SyncEnd
    BY <1>2, <1>8, TimingConstants
    DEF SyncEnd, LoopTypes, AtCore, Settled, SlicesDue, Advancing, Cores
  <1>9. CASE CallbackReturns
    BY <1>2, <1>4, <1>9
    DEF CallbackReturns, LoopTypes, AtCore, Settled, SlicesDue, Advancing, timingVars, loopVars,
        clockVars
  <1>10. CASE SlicesEnd
    BY <1>2, <1>10
    DEF SlicesEnd, LoopTypes, AtCore, Settled, SlicesDue, Advancing, timingVars, loopVars
  <1>11. CASE RunEnds
    <2>1. core \in Cores /\ GetTicks(core) \in Int
      BY <1>3, <1>11 DEF RunEnds, AtCore
    <2>2. LoopTypes' /\ AtCore' /\ Settled'
      BY <1>11, <2>1, TimingConstants DEF RunEnds, LoopTypes, AtCore, Settled, Advancing, timingVars, Cores
    <2>3. SlicesDue'
      BY <1>4, <1>11, <2>1 DEF RunEnds, LoopTypes, SlicesDue, Advancing, timingVars, Cores
    <2> QED
      BY <1>2, <2>2, <2>3
  <1> QED
    BY <1>2, <1>5, <1>6, <1>7, <1>8, <1>9, <1>10, <1>11

\* Advance moves events to the heap of its core, or takes one that is due:
\* the core is not fresh yet, and the other heaps stay as they are.
LEMMA AdvanceHeapKeeps ==
    ASSUME Inv, AdvanceMoves \/ AdvanceFires
    PROVE  Inv' /\ Monotonic
  <1> USE DEF Inv
  <1>1. /\ pc \in Advancing /\ pc' \in Advancing /\ core \in Cores
        /\ pc' \in {"fire", "callback"} => pc \in {"fire", "callback"}
        /\ UNCHANGED <<clockVars, current_timer, loopVars>>
    BY DEF AdvanceMoves, AdvanceFires, Advancing, AtCore
  <1>2. QueueTypes' /\ \A c \in Cores : c # core => event_queue'[c] = event_queue[c]
    BY <1>1 DEF AdvanceMoves, AdvanceFires, MoveEvents, QueueTypes
  <1>3. ClockTypes' /\ Monotonic
    BY <1>1, ClockStands
  <1>4. LoopTypes' /\ AtCore' /\ SlicesSound' /\ Settled'
    BY <1>1 DEF LoopTypes, AtCore, SlicesSound, Settled, clockVars, loopVars
  <1>5. \A c \in Cores : c # core /\ Fresh(c) => Fresh(c)'
    BY <1>1, <1>2 DEF Fresh, clockVars
  <1>6. SlicesDue'
    BY <1>1, <1>5 DEF SlicesDue, loopVars, Advancing, Cores, LoopTypes
  <1> QED
    BY <1>2, <1>3, <1>4, <1>6

\* Advance settles: what the core has run of its slice becomes executed_ticks.
LEMMA AdvanceSettlesKeeps ==
    ASSUME Inv, AdvanceSettles
    PROVE  Inv' /\ Monotonic
  <1> USE DEF Inv
  <1>1. /\ pc = "settle" /\ pc' = "fire" /\ core \in Cores /\ Settle(core)
        /\ UNCHANGED <<event_queue, ts_queue, current_timer, loopVars>>
    BY DEF AdvanceSettles, AtCore, Advancing
  <1>2. ClockTypes'
    BY <1>1 DEF Settle, ClockTypes
  <1>3. QueueTypes' /\ LoopTypes' /\ AtCore'
    BY <1>1 DEF QueueTypes, LoopTypes, AtCore, Advancing, loopVars
  <1>4. /\ is_timer_sane'[core] /\ slice_length'[core] = 0 /\ downcount'[core] = 0
        /\ executed_ticks'[core] = executed_ticks[core] + slice_length[core] - downcount[core]
        /\ \A c \in Cores : c # core =>
             /\ executed_ticks'[c] = executed_ticks[c] /\ slice_length'[c] = slice_length[c]
             /\ downcount'[c] = downcount[c] /\ is_timer_sane'[c] = is_timer_sane[c]
    BY <1>1 DEF Settle, ClockTypes
  <1>5. SlicesSound' /\ Settled'
    BY <1>1, <1>4 DEF SlicesSound, Settled, loopVars
  <1>6. Monotonic
    <2>1. SUFFICES ASSUME NEW c \in Cores PROVE GetTicks(c)' >= GetTicks(c)
      BY DEF Monotonic
    <2>2. CASE c = core
      BY <1>1, <1>4, <2>2 DEF GetTicks, ClockTypes, SlicesSound
    <2>3. CASE c # core
      BY <1>2, <1>4, <2>3, SameClock DEF ClockTypes
    <2> QED
      BY <2>2, <2>3
  <1>7. \A c \in Cores : c # core /\ Fresh(c) => Fresh(c)'
    BY <1>1, <1>4 DEF Fresh
  <1>8. SlicesDue'
    BY <1>1, <1>7 DEF SlicesDue, loopVars, Advancing, Cores, LoopTypes
  <1> QED
    BY <1>2, <1>3, <1>5, <1>6, <1>8

\* Advance returns: the clock counts the slice again, of which nothing has run.
LEMMA AdvanceReturnsKeeps ==
    ASSUME Inv, AdvanceReturns
    PROVE  Inv' /\ Monotonic
  <1> USE DEF Inv
  <1>1. /\ pc = "fire" /\ core \in Cores /\ Due(core) = {} /\ current_timer = core
        /\ is_timer_sane[core] /\ slice_length[core] = downcount[core]
        /\ is_timer_sane' = [is_timer_sane EXCEPT ![core] = FALSE]
        /\ UNCHANGED <<executed_ticks, event_queue, ts_queue, phase, global_ticks, delay,
                       start_ticks>>
    BY DEF AdvanceReturns, AtCore, Settled, Advancing
  <1>2. \A c \in Cores :
          slice_length'[c] = downcount'[c] /\ is_timer_sane[c] /\ ~is_timer_sane'[c]
          /\ ClockTypes' => GetTicks(c)' >= GetTicks(c)
    BY <1>1 DEF GetTicks, ClockTypes
  <1>3. CASE phase = "sync"
    <2>1. /\ SetNextSlice(core, delay) /\ delay > 0
          /\ max_delay' = AtLeast(max_delay, delay)
          /\ current_core_to_execute' = IF max_delay < delay THEN core
                                        ELSE current_core_to_execute
          /\ pc' = "sync" /\ core' = core + 1
          /\ UNCHANGED <<current_timer, max_slice>>
      BY <1>1, <1>3 DEF AdvanceReturns, SlicesDue, Advancing
    <2>2. PICK n \in SliceLengths(core, delay) :
            /\ IsSlice(core, delay, n)
            /\ slice_length' = [slice_length EXCEPT ![core] = n]
            /\ downcount' = [downcount EXCEPT ![core] = n]
      BY <2>1 DEF SetNextSlice
    <2>3. n \in Int /\ n > 0
      BY <1>1, <2>1, <2>2, SliceAfterAdvance DEF LoopTypes
    <2>4. ClockTypes' /\ SlicesSound'
      BY <1>1, <2>2, <2>3 DEF ClockTypes, SlicesSound
    <2>5. Monotonic
      <3>1. SUFFICES ASSUME NEW c \in Cores PROVE GetTicks(c)' >= GetTicks(c)
        BY DEF Monotonic
      <3>2. CASE c = core
        BY <1>1, <1>2, <2>2, <2>4, <3>2 DEF ClockTypes
      <3>3. CASE c # core
        <4>1. /\ executed_ticks'[c] = executed_ticks[c] /\ is_timer_sane'[c] = is_timer_sane[c]
              /\ slice_length'[c] - downcount'[c] >= slice_length[c] - downcount[c]
          BY <1>1, <2>2, <3>3 DEF ClockTypes
        <4> QED
          BY <2>4, <4>1, SameClock
      <3> QED
        BY <3>2, <3>3
    <2>6. LoopTypes'
      BY <1>1, <2>1, TimingConstants DEF LoopTypes, Cores, AtLeast
    <2>7. QueueTypes' /\ AtCore' /\ Settled' /\ SlicesDue'
      BY <1>1, <2>1 DEF QueueTypes, AtCore, Settled, SlicesDue, Advancing
    <2> QED
      BY <2>4, <2>5, <2>6, <2>7
  <1>4. CASE phase = "align"
    <2>1. /\ \E n \in SliceLengths(core, max_slice) : IsSlice(core, max_slice, n) /\ max_slice' = n
          /\ \/ core + 1 < NumCores /\ pc' = "move" /\ core' = core + 1 /\ current_timer' = core + 1
             \/ ~(core + 1 < NumCores) /\ pc' = "slice" /\ core' = 0 /\ UNCHANGED current_timer
          /\ UNCHANGED <<slice_length, downcount, max_delay, current_core_to_execute>>
      BY <1>1, <1>4 DEF AdvanceReturns
    <2>2. max_slice > 0 /\ \A d \in Cores : d < core => Fresh(d)
      BY <1>1, <1>4 DEF SlicesDue, Advancing
    <2>3. /\ max_slice' \in Int /\ max_slice' > 0
          /\ \A e \in event_queue[core] : e.time > executed_ticks[core]
      BY <1>1, <2>1, <2>2, SliceAfterAdvance DEF LoopTypes
    <2>4. ClockTypes' /\ SlicesSound'
      BY <1>1, <2>1 DEF ClockTypes, SlicesSound
    <2>5. Monotonic
      <3>1. SUFFICES ASSUME NEW c \in Cores PROVE GetTicks(c)' >= GetTicks(c)
        BY DEF Monotonic
      <3>2. CASE c = core
        BY <1>1, <1>2, <2>1, <2>4, <3>2 DEF ClockTypes
      <3>3. CASE c # core
        <4>1. /\ executed_ticks'[c] = executed_ticks[c] /\ is_timer_sane'[c] = is_timer_sane[c]
              /\ slice_length'[c] - downcount'[c] >= slice_length[c] - downcount[c]
          BY <1>1, <2>1, <3>3 DEF ClockTypes
        <4> QED
          BY <2>4, <4>1, SameClock
      <3> QED
        BY <3>2, <3>3
    <2>6. LoopTypes' /\ AtCore' /\ Settled' /\ QueueTypes'
      BY <1>1, <2>1, <2>3, TimingConstants
      DEF LoopTypes, AtCore, Settled, QueueTypes, Cores, Advancing
    <2>7. \A d \in Cores : d <= core => Fresh(d)'
      BY <1>1, <2>1, <2>2, <2>3 DEF Fresh, Cores
    <2>8. SlicesDue'
      BY <1>1, <1>4, <2>1, <2>3, <2>7, TimingConstants DEF SlicesDue, Cores, Advancing
    <2> QED
      BY <2>4, <2>5, <2>6, <2>8
  <1> QED
    BY <1>3, <1>4 DEF LoopTypes

\* A fresh core is given its slice; its clock stands where it was.
LEMMA StartSliceKeeps ==
    ASSUME Inv, StartSlice
    PROVE  Inv' /\ Monotonic
  <1> USE DEF Inv
  <1>1. /\ pc = "slice" /\ pc' = "run" /\ core \in Cores /\ current_timer' = core
        /\ phase = "align" /\ max_slice >= 0 /\ \A d \in Cores : d >= core => Fresh(d)
        /\ start_ticks' = GetTicks(core)
        /\ UNCHANGED <<executed_ticks, is_timer_sane, event_queue, ts_queue, phase, core,
                       global_ticks, max_delay, current_core_to_execute, delay, max_slice>>
    BY DEF StartSlice, SlicesDue
  <1>2. PICK n \in SliceLengths(core, max_slice) :
          /\ IsSlice(core, max_slice, n)
          /\ slice_length' = [slice_length EXCEPT ![core] = n]
          /\ downcount' = [downcount EXCEPT ![core] = n]
    BY DEF StartSlice, SetNextSlice
  <1>3. Fresh(core)
    BY <1>1 DEF Cores
  <1>4. n \in Int /\ n >= 0
    <2>1. executed_ticks[core] \in Int /\ \A e \in event_queue[core] : e.time \in Int
      BY <1>1 DEF ClockTypes, QueueTypes, Event
    <2> QED
      BY <1>1, <1>2, <1>3, <2>1 DEF SliceLengths, IsSlice, Fresh, LoopTypes
  <1>5. ClockTypes' /\ SlicesSound'
    BY <1>1, <1>2, <1>4 DEF ClockTypes, SlicesSound
  <1>6. Monotonic
    BY <1>1, <1>2, <1>3, <1>5, SameClock DEF Monotonic, ClockTypes, Fresh
  <1>7. LoopTypes' /\ AtCore' /\ Settled' /\ QueueTypes'
    BY <1>1, TicksInt DEF LoopTypes, AtCore, Settled, QueueTypes, Advancing
  <1>8. \A d \in Cores : d > core => Fresh(d)'
    BY <1>1, <1>2 DEF Fresh, Cores, ClockTypes
  <1>9. start_ticks' <= GetTicks(core)'
    BY <1>1, <1>2, <1>3, <1>4 DEF GetTicks, Fresh, ClockTypes
  <1>10. SlicesDue'
    BY <1>1, <1>8, <1>9 DEF SlicesDue, Advancing
  <1> QED
    BY <1>5, <1>6, <1>7, <1>10

\* The core runs, or is idle to the end of its slice: downcount goes down.
LEMMA RunKeeps ==
    ASSUME Inv, Idle \/ \E n \in 1 .. MAX_SLICE_LENGTH + MaxOvershoot : Execute(n)
    PROVE  Inv' /\ Monotonic
  <1> USE DEF Inv
  <1>1. /\ pc = "run" /\ core \in Cores
        /\ UNCHANGED <<executed_ticks, slice_length, is_timer_sane, event_queue, ts_queue,
                       current_timer, pc, loopVars>>
    BY DEF Idle, Execute, AtCore
  <1>2. /\ downcount' \in [Cores -> Int] /\ downcount'[core] <= downcount[core]
        /\ \A c \in Cores : c # core => downcount'[c] = downcount[c]
    <2>1. CASE Idle
      BY <1>1, <2>1 DEF Idle, ClockTypes, SlicesSound
    <2>2. CASE \E n \in 1 .. MAX_SLICE_LENGTH + MaxOvershoot : Execute(n)
      BY <1>1, <2>2, TimingConstants, LoopConstants DEF Execute, ClockTypes
    <2> QED
      BY <2>1, <2>2
  <1>3. ClockTypes' /\ SlicesSound'
    <2>1. \A c \in Cores : downcount'[c] <= downcount[c]
      BY <1>2 DEF ClockTypes
    <2> QED
      BY <1>1, <1>2, <2>1 DEF ClockTypes, SlicesSound
  <1>4. Monotonic
    <2>1. \A c \in Cores : slice_length'[c] - downcount'[c] >= slice_length[c] - downcount[c]
      BY <1>1, <1>2 DEF ClockTypes
    <2> QED
      BY <1>1, <1>3, <2>1, SameClock DEF Monotonic
  <1>5. QueueTypes' /\ LoopTypes' /\ AtCore' /\ Settled'
    BY <1>1 DEF QueueTypes, LoopTypes, AtCore, Settled, loopVars
  <1>6. \A d \in Cores : d > core /\ Fresh(d) => Fresh(d)'
    BY <1>1, <1>2 DEF Fresh, Cores, LoopTypes
  <1>7. GetTicks(core)' >= GetTicks(core) /\ GetTicks(core) \in Int /\ GetTicks(core)' \in Int
    BY <1>1, <1>3, <1>4 DEF Monotonic, GetTicks, ClockTypes, loopVars
  <1>8. SlicesDue'
    BY <1>1, <1>6, <1>7 DEF SlicesDue, loopVars, LoopTypes, Advancing
  <1> QED
    BY <1>3, <1>4, <1>5, <1>8

-----------------------------------------------------------------------------
\* Every step keeps the invariant and sets no clock back.
LEMMA NextKeeps == Inv /\ [Next]_vars => Inv' /\ (Monotonic \/ UNCHANGED vars)
  <1> SUFFICES ASSUME Inv, [Next]_vars PROVE Inv' /\ (Monotonic \/ UNCHANGED vars)
    OBVIOUS
  <1>1. CASE LoopStep
    BY <1>1, ControlKeeps, AdvanceHeapKeeps, AdvanceSettlesKeeps, AdvanceReturnsKeeps,
       StartSliceKeeps, RunKeeps
    DEF LoopStep
  <1>2. CASE \E n \in 1 .. MAX_SLICE_LENGTH + MaxOvershoot : Execute(n)
    BY <1>2, RunKeeps
  <1>3. CASE \E e \in EventIds, d \in Delays : Schedule(e, d)
    BY <1>3, ScheduleOwnKeeps, ScheduleOtherKeeps DEF Schedule
  <1>4. CASE \E e \in EventIds : Unschedule(e)
    BY <1>4, UnscheduleKeeps
  <1>5. CASE \E c \in Cores, e \in EventIds, d \in Delays : HostSchedule(c, e, d)
    BY <1>5, HostScheduleKeeps
  <1>6. CASE UNCHANGED vars
    <2>1. UNCHANGED <<clockVars, event_queue, ts_queue, current_timer, pc, loopVars>>
      BY <1>6 DEF vars, timingVars
    <2>2. QueueTypes' /\ \A c \in Cores : event_queue'[c] \subseteq event_queue[c]
      BY <2>1 DEF Inv, QueueTypes
    <2> QED
      BY <2>1, <2>2, QueueChangeKeeps
  <1> QED
    BY <1>1, <1>2, <1>3, <1>4, <1>5, <1>6 DEF Next

(***************************************************************************)
(* The clock of every core is monotonic, for any number of cores and       *)
(* events, any delays, slices and overshoot: whatever GetTicks returns to  *)
(* an emulated program, it never returns less later on.                    *)
(***************************************************************************)
THEOREM ClockCorrect == Spec => ClocksMonotonic
  <1>1. Inv /\ [Next]_vars => Inv'
    BY NextKeeps
  <1>2. Inv /\ [Next]_vars => [\A c \in Cores : GetTicks(c)' >= GetTicks(c)]_vars
    BY NextKeeps DEF Monotonic
  <1> QED
    BY <1>1, <1>2, InitInv, PTL DEF Spec, ClocksMonotonic

-----------------------------------------------------------------------------
(***************************************************************************)
(* How far the cores are apart.  A core that runs alone to catch up may    *)
(* overshoot and so become the first, and in an aligned round every core   *)
(* may run as long as the one before it and overshoot again: what is       *)
(* behind falls back by one overshoot for each core that is ahead of it.   *)
(* That is the invariant, Together, stated of every point in time x that   *)
(* some core has not passed.                                               *)
(***************************************************************************)
Ticks == [c \in Cores |-> GetTicks(c)]

AheadOf(t, x) == {j \in Cores : t[j] > x}

Reached(t, x) == \E d \in Cores : t[d] <= x

\* A slice, the lag that is not made good, and n overshoots.
Span(n) == MAX_SLICE_LENGTH + min_delay + n * MaxOvershoot

\* The time y is not too far from where any core is, counting the cores of S.
Near(t, y, S) ==
    \A x \in Int : Reached(t, x) => y <= x + Span(Cardinality(AheadOf(t, x) \cap S))

AllNear(t) == \A c \in Cores : Near(t, t[c], Cores)

\* An overshoot for each of n cores.
LEMMA SpanGrows ==
    /\ \A n \in Nat : Span(n) \in Nat /\ Span(n + 1) = Span(n) + MaxOvershoot
    /\ \A m, n \in Nat : m <= n => Span(m) <= Span(n)
  <1>1. MaxOvershoot \in Nat /\ MAX_SLICE_LENGTH \in Nat /\ min_delay \in Nat
    BY LoopConstants, TimingConstants
  <1>2. \A n \in Nat : n * MaxOvershoot \in Nat /\ (n + 1) * MaxOvershoot = n * MaxOvershoot + MaxOvershoot
    BY <1>1
  <1>3. ASSUME NEW m \in Nat, NEW n \in Nat, m <= n
        PROVE  m * MaxOvershoot <= n * MaxOvershoot
    <2>1. PICK k \in Nat : n = m + k
      <3>1. n - m \in Nat /\ n = m + (n - m)
        BY <1>3
      <3> QED
        BY <3>1
    <2>2. n * MaxOvershoot = m * MaxOvershoot + k * MaxOvershoot
      BY <1>1, <2>1
    <2>3. m * MaxOvershoot \in Nat /\ k * MaxOvershoot \in Nat
      BY <1>2
    <2> QED
      BY <2>2, <2>3
  <1> QED
    BY <1>1, <1>2, <1>3 DEF Span

\* The cores ahead of a time are finitely many.
LEMMA AheadFinite ==
    ASSUME NEW t, NEW x, NEW S
    PROVE  /\ IsFiniteSet(AheadOf(t, x) \cap S) /\ Cardinality(AheadOf(t, x) \cap S) \in Nat
           /\ IsFiniteSet(AheadOf(t, x)) /\ AheadOf(t, x) \subseteq Cores
  <1>1. IsFiniteSet(Cores)
    BY TimingConstants, FS_Interval DEF Cores
  <1>2. AheadOf(t, x) \subseteq Cores /\ AheadOf(t, x) \cap S \subseteq Cores
    BY DEF AheadOf
  <1>3. IsFiniteSet(AheadOf(t, x) \cap S) /\ IsFiniteSet(AheadOf(t, x))
    BY <1>1, <1>2, FS_Subset
  <1> QED
    BY <1>2, <1>3, FS_CardinalityType

\* More cores allow for a longer span.
LEMMA NearGrows ==
    ASSUME NEW t, NEW y \in Int, NEW S, NEW U, S \subseteq U, Near(t, y, S)
    PROVE  Near(t, y, U)
  <1> SUFFICES ASSUME NEW x \in Int, Reached(t, x)
               PROVE  y <= x + Span(Cardinality(AheadOf(t, x) \cap U))
    BY DEF Near
  <1>1. AheadOf(t, x) \cap S \subseteq AheadOf(t, x) \cap U
    OBVIOUS
  <1>2. /\ Cardinality(AheadOf(t, x) \cap S) \in Nat /\ Cardinality(AheadOf(t, x) \cap U) \in Nat
        /\ Cardinality(AheadOf(t, x) \cap S) <= Cardinality(AheadOf(t, x) \cap U)
    BY <1>1, AheadFinite, FS_Subset
  <1>3. y <= x + Span(Cardinality(AheadOf(t, x) \cap S))
    BY DEF Near
  <1> QED
    BY <1>2, <1>3, SpanGrows

\* Core i runs on, from t to u.
Runs(t, u, i) ==
    /\ t \in [Cores -> Int] /\ u \in [Cores -> Int] /\ i \in Cores
    /\ t[i] <= u[i]
    /\ \A c \in Cores : c # i => u[c] = t[c]

\* What is near without counting i stays near when i runs on.
LEMMA RunKeepsNear ==
    ASSUME NEW t, NEW u, NEW i, Runs(t, u, i), NEW y \in Int, NEW S, i \notin S, Near(t, y, S)
    PROVE  Near(u, y, S)
  <1> SUFFICES ASSUME NEW x \in Int, Reached(u, x)
               PROVE  y <= x + Span(Cardinality(AheadOf(u, x) \cap S))
    BY DEF Near
  <1>1. AheadOf(u, x) \cap S = AheadOf(t, x) \cap S
    BY DEF AheadOf, Runs
  <1>2. Reached(t, x)
    BY DEF Reached, Runs
  <1> QED
    BY <1>1, <1>2 DEF Near

\* A core that ran past x counts for x.
LEMMA OneMoreAhead ==
    ASSUME NEW t, NEW u, NEW i, Runs(t, u, i), NEW S, S \subseteq Cores, i \notin S,
           NEW x \in Int, u[i] > x
    PROVE  /\ Cardinality(AheadOf(t, x) \cap S) \in Nat
           /\ Cardinality(AheadOf(u, x) \cap (S \cup {i})) = Cardinality(AheadOf(t, x) \cap S) + 1
  <1>1. AheadOf(u, x) \cap (S \cup {i}) = (AheadOf(t, x) \cap S) \cup {i}
    BY DEF AheadOf, Runs
  <1>2. i \notin AheadOf(t, x) \cap S
    OBVIOUS
  <1>3. IsFiniteSet(AheadOf(t, x) \cap S) /\ Cardinality(AheadOf(t, x) \cap S) \in Nat
    BY AheadFinite
  <1> QED
    BY <1>1, <1>2, <1>3, FS_AddElement

\* Core i runs on, at most one overshoot past a time that is near.
LEMMA RunKeepsTogether ==
    ASSUME NEW t, NEW u, NEW i, Runs(t, u, i), AllNear(t),
           NEW y \in Int, NEW S, S \subseteq Cores, i \notin S, Near(t, y, S),
           u[i] <= y + MaxOvershoot
    PROVE  AllNear(u)
  <1> SUFFICES ASSUME NEW c \in Cores, NEW x \in Int, Reached(u, x)
               PROVE  u[c] <= x + Span(Cardinality(AheadOf(u, x) \cap Cores))
    BY DEF AllNear, Near
  <1>1. Reached(t, x) /\ u[c] \in Int /\ t[c] \in Int /\ u[i] \in Int /\ MaxOvershoot \in Nat
    BY LoopConstants DEF Reached, Runs
  <1>2. /\ Cardinality(AheadOf(u, x) \cap Cores) \in Nat
        /\ Cardinality(AheadOf(t, x) \cap Cores) \in Nat
        /\ IsFiniteSet(AheadOf(u, x) \cap Cores)
    BY AheadFinite
  <1>3. CASE c # i
    <2>1. u[c] = t[c]
      BY <1>3 DEF Runs
    <2>2. AheadOf(t, x) \cap Cores \subseteq AheadOf(u, x) \cap Cores
      BY DEF AheadOf, Runs
    <2>3. Cardinality(AheadOf(t, x) \cap Cores) <= Cardinality(AheadOf(u, x) \cap Cores)
      BY <1>2, <2>2, FS_Subset
    <2>4. t[c] <= x + Span(Cardinality(AheadOf(t, x) \cap Cores))
      BY <1>1 DEF AllNear, Near
    <2>5. PICK m \in Nat, n \in Nat : /\ m = Cardinality(AheadOf(t, x) \cap Cores)
                                     /\ n = Cardinality(AheadOf(u, x) \cap Cores)
      BY <1>2
    <2>6. Span(m) <= Span(n) /\ Span(m) \in Nat /\ Span(n) \in Nat
      BY <2>3, <2>5, SpanGrows
    <2> QED
      BY <1>1, <2>1, <2>4, <2>5, <2>6
  <1>4. CASE c = i /\ u[i] <= x
    <2>1. Span(Cardinality(AheadOf(u, x) \cap Cores)) \in Nat
      BY <1>2, SpanGrows
    <2> QED
      BY <1>1, <1>4, <2>1
  <1>5. CASE c = i /\ u[i] > x
    <2>1. /\ Cardinality(AheadOf(t, x) \cap S) \in Nat
          /\ Cardinality(AheadOf(u, x) \cap (S \cup {i})) = Cardinality(AheadOf(t, x) \cap S) + 1
      BY <1>5, OneMoreAhead
    <2>2. AheadOf(u, x) \cap (S \cup {i}) \subseteq AheadOf(u, x) \cap Cores
      BY DEF Runs
    <2>3. Cardinality(AheadOf(u, x) \cap (S \cup {i})) <= Cardinality(AheadOf(u, x) \cap Cores)
      BY <1>2, <2>2, FS_Subset
    <2>4. y <= x + Span(Cardinality(AheadOf(t, x) \cap S))
      BY <1>1 DEF Near
    <2>5. /\ Span(Cardinality(AheadOf(t, x) \cap S) + 1) =
               Span(Cardinality(AheadOf(t, x) \cap S)) + MaxOvershoot
          /\ Span(Cardinality(AheadOf(t, x) \cap S)) \in Nat
      BY <2>1, SpanGrows
    <2>6. Span(Cardinality(AheadOf(t, x) \cap S) + 1) <= Span(Cardinality(AheadOf(u, x) \cap Cores))
      BY <1>2, <2>1, <2>3, SpanGrows
    <2>7. Span(Cardinality(AheadOf(u, x) \cap Cores)) \in Nat
      BY <1>2, SpanGrows
    <2> QED
      BY <1>1, <1>5, <2>4, <2>5, <2>6, <2>7
  <1> QED
    BY <1>1, <1>3, <1>4, <1>5

\* No two cores are further apart than MaxLag.
LEMMA NearIsWithinMaxLag ==
    ASSUME NEW t \in [Cores -> Int], AllNear(t), NEW c \in Cores, NEW d \in Cores
    PROVE  t[c] - t[d] <= MaxLag
  <1>1. t[c] \in Int /\ t[d] \in Int /\ Reached(t, t[d])
    BY DEF Reached
  <1>2. AheadOf(t, t[d]) \cap Cores \subseteq Cores \ {d}
    BY <1>1 DEF AheadOf
  <1>3. IsFiniteSet(Cores) /\ Cardinality(Cores) = NumCores
    BY TimingConstants, FS_Interval DEF Cores
  <1>4. IsFiniteSet(Cores \ {d}) /\ Cardinality(Cores \ {d}) = NumCores - 1
    BY <1>3, FS_RemoveElement
  <1>5. /\ Cardinality(AheadOf(t, t[d]) \cap Cores) \in Nat
        /\ Cardinality(AheadOf(t, t[d]) \cap Cores) <= NumCores - 1
    <2>1. Cardinality(AheadOf(t, t[d]) \cap Cores) <= Cardinality(Cores \ {d})
      BY <1>2, <1>4, FS_Subset
    <2> QED
      BY <1>4, <2>1, AheadFinite
  <1>6. NumCores - 1 \in Nat
    BY TimingConstants
  <1>7. t[c] <= t[d] + Span(Cardinality(AheadOf(t, t[d]) \cap Cores))
    BY <1>1 DEF AllNear, Near
  <1>8. Span(NumCores - 1) = MaxLag
    BY DEF Span, MaxLag
  <1> QED
    BY <1>1, <1>5, <1>6, <1>7, <1>8, SpanGrows

-----------------------------------------------------------------------------
\* g is where the core is that is furthest ahead.
IsFirst(t, g) == (\A c \in Cores : t[c] <= g) /\ \E c \in Cores : t[c] = g

\* How far core c is behind.
Lag(c) == global_ticks - Ticks[c]

\* Between settling and return, and before the first Advance, nothing of the slice has run.
SaneOK == \A c \in Cores : is_timer_sane[c] => slice_length[c] = downcount[c]

\* No slice is longer than the lag it makes good, and none is overrun further.
SlicesShort ==
    \A c \in Cores : slice_length[c] <= MaxLag /\ downcount[c] >= -MaxOvershoot

Together == AllNear(Ticks)

FirstOK == pc \in Advancing \cup {"sync"} => IsFirst(Ticks, global_ticks)

\* Core k lags the most so far, and its slice is at most that lag.
Chosen(k) ==
    /\ k < core /\ ~is_timer_sane[k]
    /\ Lag(k) = max_delay
    /\ slice_length[k] = downcount[k] /\ slice_length[k] <= max_delay

Syncing == pc = "sync" \/ (pc \in Advancing /\ phase = "sync")

SyncOK ==
    Syncing =>
      /\ max_delay >= 0
      /\ \A d \in Cores : d < core => Lag(d) <= max_delay
      /\ max_delay > 0 => Chosen(current_core_to_execute)
      /\ pc \in Advancing => delay = Lag(core)

\* All cores are aligned only when none lags far behind.
AlignOK ==
    pc \in Advancing /\ phase = "align" =>
      /\ max_slice <= MAX_SLICE_LENGTH
      /\ \A d \in Cores : Lag(d) <= min_delay
      /\ \A d \in Cores : d < core => ~is_timer_sane[d]

\* The core that catches up runs to where the first core was.
CatchUpOK ==
    pc = "run" /\ phase = "sync" =>
      /\ ~is_timer_sane[core]
      /\ Ticks[core] + downcount[core] <= global_ticks
      /\ Near(Ticks, global_ticks, Cores \ {core})

\* The cores before `core` have run their slices of this round, the last one
\* for max_slice ticks.
RoundOK ==
    pc = "slice" \/ (pc = "run" /\ phase = "align") =>
      /\ max_slice <= Span(core)
      /\ \A d \in Cores : ~is_timer_sane[d]
      /\ \A d \in Cores : d > core \/ (d = core /\ pc = "slice") =>
           Ticks[d] <= global_ticks /\ Lag(d) <= min_delay
      /\ Near(Ticks, global_ticks + max_slice, 0 .. core - 1)

SliceOK ==
    pc = "run" /\ phase = "align" =>
      /\ start_ticks <= global_ticks /\ global_ticks - start_ticks <= min_delay
      /\ Ticks[core] + downcount[core] <= start_ticks + max_slice

LagInv == /\ SaneOK /\ SlicesShort /\ Together /\ FirstOK
          /\ SyncOK /\ AlignOK /\ CatchUpOK /\ RoundOK /\ SliceOK

\* Ticks is a function to numbers.
LEMMA TicksType ==
    ASSUME Inv
    PROVE  Ticks \in [Cores -> Int] /\ \A c \in Cores : Ticks[c] = GetTicks(c)
  BY TicksInt DEF Inv, Ticks

\* The bounds are numbers.
LEMMA Bounds ==
    /\ MAX_SLICE_LENGTH \in Nat /\ MAX_SLICE_LENGTH > 0 /\ min_delay \in Nat /\ MaxOvershoot \in Nat
    /\ NumCores \in Nat /\ NumCores > 0
    /\ MaxLag \in Nat /\ MaxRun \in Nat /\ MaxRun = MaxLag + MaxOvershoot
    /\ MaxLag >= MAX_SLICE_LENGTH + min_delay
    /\ \A n \in 0 .. NumCores - 1 : Span(n) \in Nat /\ Span(n) <= MaxLag
    /\ Span(0) = MAX_SLICE_LENGTH + min_delay
  <1>1. /\ MAX_SLICE_LENGTH \in Nat /\ MAX_SLICE_LENGTH > 0 /\ min_delay \in Nat
        /\ MaxOvershoot \in Nat /\ NumCores \in Nat /\ NumCores > 0
    BY LoopConstants, TimingConstants
  <1>2. Span(NumCores - 1) = MaxLag
    BY DEF Span, MaxLag
  <1>3. NumCores - 1 \in Nat /\ 0 \in Nat /\ 0 <= NumCores - 1
    BY <1>1
  <1>4. Span(NumCores - 1) \in Nat /\ Span(0) \in Nat /\ Span(0) <= Span(NumCores - 1)
    BY <1>3, SpanGrows
  <1>5. Span(0) = MAX_SLICE_LENGTH + min_delay
    BY <1>1 DEF Span
  <1>6. ASSUME NEW n \in 0 .. NumCores - 1 PROVE Span(n) \in Nat /\ Span(n) <= MaxLag
    <2>1. n \in Nat /\ n <= NumCores - 1
      BY <1>1
    <2> QED
      BY <1>2, <1>3, <2>1, SpanGrows
  <1>7. MaxRun = MaxLag + MaxOvershoot
    BY DEF MaxRun
  <1> QED
    BY <1>1, <1>2, <1>4, <1>5, <1>6, <1>7

\* The timers begin together.
LEMMA InitLag == Init => LagInv
  <1> SUFFICES ASSUME Init PROVE LagInv
    OBVIOUS
  <1>1. \A c \in Cores : Ticks[c] = 0
    BY DEF Init, TimingInit, Ticks, GetTicks
  <1>2. Together
    <2> SUFFICES ASSUME NEW c \in Cores, NEW x \in Int, Reached(Ticks, x)
                 PROVE  Ticks[c] <= x + Span(Cardinality(AheadOf(Ticks, x) \cap Cores))
      BY DEF Together, AllNear, Near
    <2>1. 0 <= x /\ Ticks[c] = 0
      BY <1>1 DEF Reached
    <2>2. Span(Cardinality(AheadOf(Ticks, x) \cap Cores)) \in Nat
      BY AheadFinite, SpanGrows
    <2> QED
      BY <2>1, <2>2
  <1>3. SaneOK /\ SlicesShort
    BY Bounds DEF Init, TimingInit, SaneOK, SlicesShort
  <1>4. FirstOK /\ SyncOK /\ AlignOK /\ CatchUpOK /\ RoundOK /\ SliceOK
    BY DEF Init, FirstOK, SyncOK, Syncing, AlignOK, CatchUpOK, RoundOK, SliceOK, Advancing
  <1> QED
    BY <1>2, <1>3, <1>4 DEF LagInv

\* Steps of Advance and of other threads that neither touch a clock nor leave
\* their place in RunLoop.
LEMMA QuietLag ==
    ASSUME Inv, LagInv, UNCHANGED <<clockVars, loopVars>>,
           pc' = pc \/ (pc \in Advancing /\ pc' \in Advancing)
    PROVE  LagInv'
  <1>1. Ticks' = Ticks
    BY DEF Ticks, GetTicks, clockVars
  <1>2. \A d \in Cores : Lag(d)' = Lag(d)
    BY <1>1 DEF Lag, loopVars
  <1>3. SaneOK' /\ SlicesShort'
    BY DEF LagInv, SaneOK, SlicesShort, clockVars
  <1>4. Together' /\ FirstOK'
    BY <1>1 DEF LagInv, Together, FirstOK, loopVars, Advancing
  <1>5. SyncOK'
    <2>1. Syncing' <=> Syncing
      BY DEF Syncing, Advancing, loopVars
    <2>2. current_core_to_execute \in Cores /\ (pc \in Advancing => core \in Cores)
      BY DEF Inv, LoopTypes, AtCore
    <2>3. Chosen(current_core_to_execute)' <=> Chosen(current_core_to_execute)
      BY <1>2, <2>2 DEF Chosen, clockVars, loopVars
    <2> QED
      BY <1>2, <2>1, <2>2, <2>3 DEF LagInv, SyncOK, loopVars, Advancing, Syncing
  <1>6. AlignOK'
    BY <1>2 DEF LagInv, AlignOK, loopVars, clockVars
  <1>7. CatchUpOK' /\ RoundOK' /\ SliceOK'
    BY <1>1, <1>2 DEF LagInv, CatchUpOK, RoundOK, SliceOK, clockVars, loopVars, Advancing
  <1> QED
    BY <1>3, <1>4, <1>5, <1>6, <1>7 DEF LagInv

\* Advance settles: the clock stands.
LEMMA SettleLag ==
    ASSUME Inv, LagInv, AdvanceSettles
    PROVE  LagInv'
  <1>1. /\ pc = "settle" /\ pc' = "fire" /\ core \in Cores /\ UNCHANGED loopVars
        /\ ClockTypes
    BY DEF AdvanceSettles, Inv, AtCore, Advancing
  <1>2. /\ is_timer_sane'[core] /\ slice_length'[core] = 0 /\ downcount'[core] = 0
        /\ executed_ticks'[core] = executed_ticks[core] + slice_length[core] - downcount[core]
        /\ \A c \in Cores : c # core =>
             /\ executed_ticks'[c] = executed_ticks[c] /\ slice_length'[c] = slice_length[c]
             /\ downcount'[c] = downcount[c] /\ is_timer_sane'[c] = is_timer_sane[c]
    BY <1>1 DEF AdvanceSettles, Settle, ClockTypes
  <1>3. \A c \in Cores : GetTicks(c)' = GetTicks(c)
    <2> SUFFICES ASSUME NEW c \in Cores PROVE GetTicks(c)' = GetTicks(c)
      OBVIOUS
    <2>1. CASE c = core
      BY <1>1, <1>2, <2>1 DEF GetTicks, LagInv, SaneOK, ClockTypes
    <2>2. CASE c # core
      BY <1>2, <2>2 DEF GetTicks
    <2> QED
      BY <2>1, <2>2
  <1>4. Ticks' = Ticks
    BY <1>3 DEF Ticks
  <1>5. \A d \in Cores : Lag(d)' = Lag(d)
    BY <1>1, <1>4 DEF Lag, loopVars
  <1>6. SaneOK'
    BY <1>2 DEF LagInv, SaneOK
  <1>7. SlicesShort'
    BY <1>2, Bounds DEF LagInv, SlicesShort
  <1>8. Together' /\ FirstOK'
    BY <1>1, <1>4 DEF LagInv, Together, FirstOK, loopVars, Advancing
  <1>9. SyncOK'
    <2>1. Syncing' <=> Syncing
      BY <1>1 DEF Syncing, Advancing, loopVars
    <2>2. current_core_to_execute \in Cores
      BY DEF Inv, LoopTypes
    <2>3. Chosen(current_core_to_execute) => Chosen(current_core_to_execute)'
      BY <1>1, <1>2, <1>5, <2>2 DEF Chosen, loopVars, Cores
    <2> QED
      BY <1>1, <1>5, <2>1, <2>3 DEF LagInv, SyncOK, loopVars, Advancing
  <1>10. AlignOK'
    BY <1>1, <1>2, <1>5 DEF LagInv, AlignOK, loopVars, Advancing, Cores
  <1>11. CatchUpOK' /\ RoundOK' /\ SliceOK'
    BY <1>1 DEF CatchUpOK, RoundOK, SliceOK
  <1> QED
    BY <1>6, <1>7, <1>8, <1>9, <1>10, <1>11 DEF LagInv

\* Where no clock moves, the cores stay where they are.
LEMMA ClocksStandLag ==
    ASSUME LagInv, UNCHANGED clockVars
    PROVE  Ticks' = Ticks /\ SaneOK' /\ SlicesShort' /\ Together'
  <1>1. Ticks' = Ticks
    BY DEF Ticks, GetTicks, clockVars
  <1>2. SaneOK' /\ SlicesShort'
    BY DEF LagInv, SaneOK, SlicesShort, clockVars
  <1>3. Together'
    BY <1>1 DEF LagInv, Together
  <1> QED
    BY <1>1, <1>2, <1>3

\* RunLoop begins a round: where the first core is.
LEMMA BeginLag ==
    ASSUME Inv, LagInv, Begin
    PROVE  LagInv'
  <1>1. /\ pc' = "sync" /\ core' = 0 /\ max_delay' = 0 /\ UNCHANGED clockVars
    BY DEF Begin, timingVars
  <1>2. Ticks' = Ticks /\ SaneOK' /\ SlicesShort' /\ Together'
    BY <1>1, ClocksStandLag
  <1>3. IsFirst(Ticks, global_ticks')
    BY TicksType DEF Begin, IsGlobalTicks, IsFirst
  <1>4. FirstOK'
    BY <1>2, <1>3 DEF FirstOK
  <1>5. SyncOK'
    BY <1>1 DEF SyncOK, Cores, Advancing
  <1>6. AlignOK' /\ CatchUpOK' /\ RoundOK' /\ SliceOK'
    BY <1>1 DEF AlignOK, CatchUpOK, RoundOK, SliceOK, Advancing
  <1> QED
    BY <1>2, <1>4, <1>5, <1>6 DEF LagInv

\* A core that does not lag is passed over.
LEMMA SyncSkipLag ==
    ASSUME Inv, LagInv, SyncSkip
    PROVE  LagInv'
  <1>1. /\ pc = "sync" /\ pc' = "sync" /\ core \in Cores /\ core' = core + 1 /\ UNCHANGED clockVars
        /\ UNCHANGED <<global_ticks, max_delay, current_core_to_execute>>
        /\ Ticks[core] >= global_ticks
    BY TicksType DEF SyncSkip, timingVars
  <1>2. Ticks' = Ticks /\ SaneOK' /\ SlicesShort' /\ Together'
    BY <1>1, ClocksStandLag
  <1>3. \A d \in Cores : Lag(d)' = Lag(d)
    BY <1>1, <1>2 DEF Lag
  <1>4. FirstOK'
    BY <1>1, <1>2 DEF LagInv, FirstOK
  <1>5. /\ max_delay >= 0 /\ \A d \in Cores : d < core => Lag(d) <= max_delay
        /\ max_delay > 0 => Chosen(current_core_to_execute)
    BY <1>1 DEF LagInv, SyncOK, Syncing
  <1>6. /\ global_ticks \in Int /\ max_delay \in Int /\ Ticks \in [Cores -> Int]
        /\ current_core_to_execute \in Cores
    BY TicksType DEF Inv, LoopTypes
  <1>7. ASSUME NEW d \in Cores, d < core + 1 PROVE Lag(d) <= max_delay
    <2>1. CASE d = core
      BY <1>1, <1>5, <1>6, <2>1 DEF Lag
    <2>2. CASE d # core
      BY <1>1, <1>5, <1>7, <2>2 DEF Cores
    <2> QED
      BY <2>1, <2>2
  <1>8. Chosen(current_core_to_execute) => Chosen(current_core_to_execute)'
    BY <1>1, <1>3, <1>6 DEF Chosen, clockVars, Cores
  <1>9. SyncOK'
    BY <1>1, <1>3, <1>5, <1>7, <1>8 DEF SyncOK, Advancing
  <1>10. AlignOK' /\ CatchUpOK' /\ RoundOK' /\ SliceOK'
    BY <1>1 DEF AlignOK, CatchUpOK, RoundOK, SliceOK, Advancing
  <1> QED
    BY <1>2, <1>4, <1>9, <1>10 DEF LagInv

\* A core that lags is advanced.
LEMMA SyncAdvanceLag ==
    ASSUME Inv, LagInv, SyncAdvance
    PROVE  LagInv'
  <1>1. /\ pc = "sync" /\ pc' = "move" /\ phase' = "sync" /\ core \in Cores /\ UNCHANGED clockVars
        /\ UNCHANGED <<core, global_ticks, max_delay, current_core_to_execute>>
        /\ delay' = Lag(core)
    BY TicksType DEF SyncAdvance, Lag
  <1>2. Ticks' = Ticks /\ SaneOK' /\ SlicesShort' /\ Together'
    BY <1>1, ClocksStandLag
  <1>3. \A d \in Cores : Lag(d)' = Lag(d)
    BY <1>1, <1>2 DEF Lag
  <1>4. FirstOK'
    BY <1>1, <1>2 DEF LagInv, FirstOK
  <1>5. /\ max_delay >= 0 /\ \A d \in Cores : d < core => Lag(d) <= max_delay
        /\ max_delay > 0 => Chosen(current_core_to_execute)
    BY <1>1 DEF LagInv, SyncOK, Syncing
  <1>6. Chosen(current_core_to_execute) => Chosen(current_core_to_execute)'
    BY <1>1, <1>3 DEF Chosen, clockVars, Inv, LoopTypes
  <1>7. Lag(core)' = Lag(core)
    BY <1>1, <1>2 DEF Lag
  <1>8. SyncOK'
    BY <1>1, <1>3, <1>5, <1>6, <1>7 DEF SyncOK
  <1>9. AlignOK' /\ CatchUpOK' /\ RoundOK' /\ SliceOK'
    BY <1>1 DEF AlignOK, CatchUpOK, RoundOK, SliceOK, Advancing
  <1> QED
    BY <1>2, <1>4, <1>8, <1>9 DEF LagInv

\* The last core need not be counted.
LEMMA LastCoreNear ==
    ASSUME NEW t \in [Cores -> Int], AllNear(t), NEW g, IsFirst(t, g), NEW k \in Cores,
           \A d \in Cores : t[k] <= t[d]
    PROVE  Near(t, g, Cores \ {k})
  <1> SUFFICES ASSUME NEW x \in Int, Reached(t, x)
               PROVE  g <= x + Span(Cardinality(AheadOf(t, x) \cap (Cores \ {k})))
    BY DEF Near
  <1>1. t[k] <= x
    BY DEF Reached
  <1>2. AheadOf(t, x) \cap (Cores \ {k}) = AheadOf(t, x) \cap Cores
    BY <1>1 DEF AheadOf
  <1>3. PICK c \in Cores : t[c] = g
    BY DEF IsFirst
  <1> QED
    BY <1>2, <1>3 DEF AllNear, Near

\* The core that is furthest behind runs to where the first one is, or none is far behind.
LEMMA SyncEndLag ==
    ASSUME Inv, LagInv, SyncEnd
    PROVE  LagInv'
  <1>1. /\ pc = "sync" /\ core = NumCores /\ UNCHANGED clockVars
        /\ UNCHANGED <<global_ticks, max_delay, current_core_to_execute>>
    BY DEF SyncEnd
  <1>2. Ticks' = Ticks /\ SaneOK' /\ SlicesShort' /\ Together'
    BY <1>1, ClocksStandLag
  <1>3. \A d \in Cores : Lag(d)' = Lag(d)
    BY <1>1, <1>2 DEF Lag
  <1>4. /\ max_delay >= 0 /\ \A d \in Cores : Lag(d) <= max_delay
        /\ max_delay > 0 => Chosen(current_core_to_execute)
    BY <1>1, Bounds DEF LagInv, SyncOK, Syncing, Cores
  <1>5. /\ global_ticks \in Int /\ max_delay \in Int /\ Ticks \in [Cores -> Int]
        /\ current_core_to_execute \in Cores /\ ClockTypes /\ min_delay \in Nat
        /\ IsFirst(Ticks, global_ticks) /\ AllNear(Ticks)
    BY <1>1, TicksType, Bounds DEF Inv, LoopTypes, LagInv, FirstOK, Together
  <1>6. CASE FarBehind(max_delay)
    <2>1. PICK k \in Cores : k = current_core_to_execute
      BY <1>5
    <2>2. pc' = "run" /\ phase' = "sync" /\ core' = k
      BY <1>6, <2>1 DEF SyncEnd
    <2>3. /\ ~is_timer_sane[k] /\ Lag(k) = max_delay
          /\ slice_length[k] = downcount[k] /\ slice_length[k] <= max_delay
      BY <1>4, <1>5, <1>6, <2>1 DEF FarBehind, Chosen
    <2>4. Ticks[k] + downcount[k] <= global_ticks
      BY <1>5, <2>3 DEF Lag, ClockTypes
    <2>5. \A d \in Cores : Ticks[k] <= Ticks[d]
      BY <1>4, <1>5, <2>3 DEF Lag
    <2>6. Near(Ticks, global_ticks, Cores \ {k})
      BY <1>5, <2>5, LastCoreNear
    <2>7. CatchUpOK'
      BY <1>1, <1>2, <2>2, <2>3, <2>4, <2>6 DEF CatchUpOK, clockVars
    <2>8. FirstOK' /\ SyncOK' /\ AlignOK' /\ RoundOK' /\ SliceOK'
      BY <2>2 DEF FirstOK, SyncOK, Syncing, AlignOK, RoundOK, SliceOK, Advancing
    <2> QED
      BY <1>2, <2>7, <2>8 DEF LagInv
  <1>7. CASE ~FarBehind(max_delay)
    <2>1. pc' = "move" /\ phase' = "align" /\ core' = 0 /\ max_slice' = MAX_SLICE_LENGTH
      BY <1>7 DEF SyncEnd
    <2>2. \A d \in Cores : Lag(d) \in Int /\ Lag(d) <= min_delay
      BY <1>4, <1>5, <1>7 DEF FarBehind, Lag
    <2>3. AlignOK'
      BY <1>3, <2>1, <2>2, Bounds DEF AlignOK, Cores
    <2>4. FirstOK'
      BY <1>1, <1>2, <1>5 DEF FirstOK
    <2>5. SyncOK' /\ CatchUpOK' /\ RoundOK' /\ SliceOK'
      BY <2>1 DEF SyncOK, Syncing, CatchUpOK, RoundOK, SliceOK, Advancing
    <2> QED
      BY <1>2, <2>3, <2>4, <2>5 DEF LagInv
  <1> QED
    BY <1>6, <1>7

\* The core that has run its slice counts from now on.
LEMMA SliceEnds ==
    ASSUME NEW t \in [Cores -> Int], NEW y \in Int, NEW z \in Int, NEW S, S \subseteq Cores,
           NEW i \in Cores, i \notin S, Near(t, y, S),
           z <= y + MaxOvershoot, z <= t[i] + min_delay
    PROVE  Near(t, z, S \cup {i})
  <1> SUFFICES ASSUME NEW x \in Int, Reached(t, x)
               PROVE  z <= x + Span(Cardinality(AheadOf(t, x) \cap (S \cup {i})))
    BY DEF Near
  <1>1. /\ t[i] \in Int /\ MaxOvershoot \in Nat /\ min_delay \in Nat /\ MAX_SLICE_LENGTH \in Nat
        /\ Span(0) = MAX_SLICE_LENGTH + min_delay
    BY Bounds
  <1>2. CASE t[i] <= x
    <2>1. PICK n \in Nat : n = Cardinality(AheadOf(t, x) \cap (S \cup {i}))
      BY AheadFinite
    <2>2. Span(n) \in Nat /\ Span(0) <= Span(n)
      BY SpanGrows
    <2> QED
      BY <1>1, <1>2, <2>1, <2>2
  <1>3. CASE t[i] > x
    <2>1. Runs(t, t, i)
      BY <1>1 DEF Runs
    <2>2. /\ Cardinality(AheadOf(t, x) \cap S) \in Nat
          /\ Cardinality(AheadOf(t, x) \cap (S \cup {i})) = Cardinality(AheadOf(t, x) \cap S) + 1
      BY <1>3, <2>1, OneMoreAhead
    <2>3. PICK n \in Nat : n = Cardinality(AheadOf(t, x) \cap S)
      BY <2>2
    <2>4. Span(n) \in Nat /\ Span(n + 1) = Span(n) + MaxOvershoot
      BY SpanGrows
    <2>5. y <= x + Span(n)
      BY <2>3 DEF Near
    <2> QED
      BY <1>1, <2>2, <2>3, <2>4, <2>5
  <1> QED
    BY <1>1, <1>2, <1>3

\* A core's slice ends, and the next one may run as long; or a round ends.
LEMMA RunEndsLag ==
    ASSUME Inv, LagInv, RunEnds \/ SlicesEnd
    PROVE  LagInv'
  <1>1. UNCHANGED clockVars
    BY DEF RunEnds, SlicesEnd, timingVars
  <1>2. Ticks' = Ticks /\ SaneOK' /\ SlicesShort' /\ Together'
    BY <1>1, ClocksStandLag
  <1>3. CASE pc' = "loop"
    BY <1>2, <1>3
    DEF LagInv, FirstOK, SyncOK, Syncing, AlignOK, CatchUpOK, RoundOK, SliceOK, Advancing
  <1>4. CASE pc' # "loop"
    <2>1. PICK i \in Cores : i = core
      BY <1>4 DEF RunEnds, SlicesEnd, Inv, AtCore
    <2>2. /\ pc = "run" /\ phase = "align" /\ pc' = "slice" /\ core' = i + 1
          /\ max_slice' = Ticks[i] - start_ticks /\ UNCHANGED global_ticks
      BY <1>4, <2>1, TicksType DEF RunEnds, SlicesEnd
    <2>3. /\ Ticks \in [Cores -> Int] /\ global_ticks \in Int /\ start_ticks \in Int /\ max_slice \in Int
          /\ downcount[i] \in Int /\ i \in Nat /\ i \in 0 .. NumCores - 1
      BY <2>1, TicksType DEF Inv, LoopTypes, ClockTypes, Cores
    <2>4. /\ max_slice <= Span(i) /\ \A d \in Cores : ~is_timer_sane[d]
          /\ \A d \in Cores : d > i => Ticks[d] <= global_ticks /\ Lag(d) <= min_delay
          /\ Near(Ticks, global_ticks + max_slice, 0 .. i - 1)
          /\ start_ticks <= global_ticks /\ global_ticks - start_ticks <= min_delay
          /\ Ticks[i] + downcount[i] <= start_ticks + max_slice
          /\ downcount[i] >= -MaxOvershoot
      BY <2>1, <2>2 DEF LagInv, RoundOK, SliceOK, SlicesShort
    <2>5. Span(i) \in Nat /\ Span(i + 1) = Span(i) + MaxOvershoot
      BY <2>3, SpanGrows
    <2>6. PICK z \in Int : z = Ticks[i] - start_ticks
      BY <2>3
    <2>7. /\ z <= max_slice + MaxOvershoot /\ z <= Span(i + 1)
          /\ global_ticks + z \in Int /\ global_ticks + max_slice \in Int
          /\ global_ticks + z <= global_ticks + max_slice + MaxOvershoot
          /\ global_ticks + z <= Ticks[i] + min_delay
      <3>1. /\ Ticks[i] \in Int /\ global_ticks \in Int /\ start_ticks \in Int /\ max_slice \in Int
            /\ downcount[i] \in Int /\ MaxOvershoot \in Nat /\ min_delay \in Nat
        BY <2>3, LoopConstants
      <3>2. /\ max_slice <= Span(i) /\ global_ticks - start_ticks <= min_delay
            /\ Ticks[i] + downcount[i] <= start_ticks + max_slice
            /\ downcount[i] >= -MaxOvershoot
        BY <2>4
      <3> QED
        BY <2>5, <2>6, <3>1, <3>2
    <2>8. Near(Ticks, global_ticks + z, (0 .. i - 1) \cup {i})
      <3>1. 0 .. i - 1 \subseteq Cores /\ i \notin 0 .. i - 1
        BY <2>3, Bounds DEF Cores
      <3> QED
        BY <2>3, <2>4, <2>7, <3>1, SliceEnds
    <2>9. (0 .. i - 1) \cup {i} = 0 .. (i + 1) - 1
      BY <2>3
    <2>10. \A d \in Cores : d >= i + 1 => d > i
      BY <2>3 DEF Cores
    <2>11. \A d \in Cores : Lag(d)' = Lag(d)
      BY <1>2, <2>2 DEF Lag
    <2>12. RoundOK'
      <3>1. Near(Ticks, global_ticks + z, 0 .. (i + 1) - 1)
        BY <2>8, <2>9
      <3>2. \A d \in Cores : d > i + 1 \/ d = i + 1 => Ticks[d] <= global_ticks /\ Lag(d) <= min_delay
        BY <2>3, <2>4, <2>10 DEF Cores
      <3> QED
        BY <1>1, <1>2, <2>2, <2>4, <2>6, <2>7, <2>11, <3>1, <3>2 DEF RoundOK, clockVars
    <2>13. FirstOK' /\ SyncOK' /\ AlignOK' /\ CatchUpOK' /\ SliceOK'
      BY <2>2 DEF FirstOK, SyncOK, Syncing, AlignOK, CatchUpOK, SliceOK, Advancing
    <2> QED
      BY <1>2, <2>12, <2>13 DEF LagInv
  <1> QED
    BY <1>3, <1>4

\* Advance returns in the first loop: the core's slice is at most its lag.
LEMMA SyncReturnsLag ==
    ASSUME Inv, LagInv, AdvanceReturns, phase = "sync"
    PROVE  LagInv'
  <1>1. PICK i \in Cores : i = core
    BY DEF Inv, AtCore, AdvanceReturns, Advancing
  <1>2. /\ pc = "fire" /\ pc' = "sync" /\ core' = i + 1 /\ Due(i) = {}
        /\ is_timer_sane' = [is_timer_sane EXCEPT ![i] = FALSE]
        /\ SetNextSlice(i, delay)
        /\ max_delay' = AtLeast(max_delay, delay)
        /\ current_core_to_execute' = IF max_delay < delay THEN i ELSE current_core_to_execute
        /\ UNCHANGED <<executed_ticks, global_ticks>>
    BY <1>1 DEF AdvanceReturns
  <1>3. /\ is_timer_sane[i] /\ slice_length[i] = downcount[i] /\ delay > 0 /\ delay = Lag(i)
        /\ max_delay >= 0 /\ IsFirst(Ticks, global_ticks) /\ AllNear(Ticks)
        /\ \A d \in Cores : d < i => Lag(d) <= max_delay
        /\ max_delay > 0 => Chosen(current_core_to_execute)
    BY <1>1, <1>2
    DEF Inv, Settled, SlicesDue, Advancing, LagInv, SyncOK, Syncing, FirstOK, Together
  <1>4. /\ Ticks \in [Cores -> Int] /\ delay \in Int /\ max_delay \in Int /\ global_ticks \in Int
        /\ current_core_to_execute \in Cores /\ ClockTypes /\ i \in Int
    BY TicksType DEF Inv, LoopTypes, Cores
  <1>5. PICK n \in SliceLengths(i, delay) :
          /\ IsSlice(i, delay, n)
          /\ slice_length' = [slice_length EXCEPT ![i] = n]
          /\ downcount' = [downcount EXCEPT ![i] = n]
    BY <1>2 DEF SetNextSlice
  <1>6. n \in Int /\ n > 0 /\ n <= delay
    <2>1. n \in Int /\ n > 0
      BY <1>2, <1>3, <1>4, <1>5, SliceAfterAdvance DEF Inv
    <2> QED
      BY <1>5, <2>1 DEF IsSlice
  <1>7. delay <= MaxLag
    <2>1. PICK c \in Cores : Ticks[c] = global_ticks
      BY <1>3 DEF IsFirst
    <2> QED
      BY <1>3, <1>4, <2>1, NearIsWithinMaxLag DEF Lag
  <1>8. /\ ~is_timer_sane'[i] /\ slice_length'[i] = n /\ downcount'[i] = n
        /\ \A c \in Cores : c # i =>
             /\ slice_length'[c] = slice_length[c] /\ downcount'[c] = downcount[c]
             /\ is_timer_sane'[c] = is_timer_sane[c]
    BY <1>2, <1>4, <1>5 DEF ClockTypes
  <1>9. Ticks' = Ticks
    <2>1. ASSUME NEW c \in Cores PROVE GetTicks(c)' = GetTicks(c)
      <3>1. CASE c = i
        BY <1>2, <1>3, <1>4, <1>6, <1>8, <3>1 DEF GetTicks, ClockTypes
      <3>2. CASE c # i
        BY <1>2, <1>8, <3>2 DEF GetTicks
      <3> QED
        BY <3>1, <3>2
    <2> QED
      BY <2>1 DEF Ticks
  <1>10. \A d \in Cores : Lag(d)' = Lag(d) /\ Lag(d) \in Int
    BY <1>2, <1>4, <1>9 DEF Lag
  <1>11. SaneOK'
    BY <1>8 DEF LagInv, SaneOK
  <1>12. SlicesShort'
    <2>1. n <= MaxLag /\ n >= -MaxOvershoot
      BY <1>4, <1>6, <1>7, Bounds
    <2> QED
      BY <1>8, <2>1 DEF LagInv, SlicesShort
  <1>13. Together' /\ FirstOK'
    BY <1>2, <1>3, <1>9 DEF Together, FirstOK
  <1>14. max_delay' >= 0 /\ \A d \in Cores : d < i + 1 => Lag(d) <= max_delay'
    <2>1. max_delay' \in Int /\ max_delay' >= max_delay /\ max_delay' >= delay
      BY <1>2, <1>4 DEF AtLeast
    <2>2. \A d \in Cores : d < i + 1 => d < i \/ d = i
      BY <1>4 DEF Cores
    <2> QED
      BY <1>3, <1>4, <1>10, <2>1, <2>2
  <1>15. Chosen(current_core_to_execute)'
    <2>1. CASE max_delay < delay
      <3>1. current_core_to_execute' = i /\ max_delay' = delay
        BY <1>2, <1>4, <2>1 DEF AtLeast
      <3>2. i < core'
        BY <1>2, <1>4
      <3> QED
        BY <1>3, <1>6, <1>8, <1>10, <3>1, <3>2 DEF Chosen
    <2>2. CASE ~(max_delay < delay)
      <3>1. PICK k \in Cores : k = current_core_to_execute
        BY <1>4
      <3>2. current_core_to_execute' = k /\ max_delay' = max_delay /\ max_delay > 0
        BY <1>2, <1>3, <1>4, <2>2, <3>1 DEF AtLeast
      <3>3. /\ k < i /\ ~is_timer_sane[k] /\ Lag(k) = max_delay
            /\ slice_length[k] = downcount[k] /\ slice_length[k] <= max_delay
        BY <1>1, <1>3, <3>1, <3>2 DEF Chosen
      <3>4. k # i /\ k < core'
        BY <1>2, <1>4, <3>3 DEF Cores
      <3> QED
        BY <1>8, <1>10, <3>2, <3>3, <3>4 DEF Chosen
    <2> QED
      BY <2>1, <2>2
  <1>16. SyncOK'
    BY <1>2, <1>10, <1>14, <1>15 DEF SyncOK, Advancing
  <1>17. AlignOK' /\ CatchUpOK' /\ RoundOK' /\ SliceOK'
    BY <1>2 DEF AlignOK, CatchUpOK, RoundOK, SliceOK, Advancing
  <1> QED
    BY <1>11, <1>12, <1>13, <1>16, <1>17 DEF LagInv

\* Cores that are aligned may run a slice.
LEMMA AlignedNear ==
    ASSUME NEW t \in [Cores -> Int], NEW g \in Int, NEW m \in Int, m <= MAX_SLICE_LENGTH,
           \A d \in Cores : g - t[d] <= min_delay, NEW S
    PROVE  Near(t, g + m, S)
  <1> SUFFICES ASSUME NEW x \in Int, Reached(t, x)
               PROVE  g + m <= x + Span(Cardinality(AheadOf(t, x) \cap S))
    BY DEF Near
  <1>1. PICK d \in Cores : t[d] <= x
    BY DEF Reached
  <1>2. PICK n \in Nat : n = Cardinality(AheadOf(t, x) \cap S)
    BY AheadFinite
  <1>3. Span(n) \in Nat /\ Span(0) <= Span(n)
    BY SpanGrows
  <1>4. /\ t[d] \in Int /\ g - t[d] <= min_delay /\ min_delay \in Nat /\ MAX_SLICE_LENGTH \in Nat
        /\ Span(0) = MAX_SLICE_LENGTH + min_delay
    BY Bounds
  <1> QED
    BY <1>1, <1>2, <1>3, <1>4

\* Advance returns in the second loop: the bound of all slices.
LEMMA AlignReturnsLag ==
    ASSUME Inv, LagInv, AdvanceReturns, phase = "align"
    PROVE  LagInv'
  <1>1. PICK i \in Cores : i = core
    BY DEF Inv, AtCore, AdvanceReturns, Advancing
  <1>2. /\ pc = "fire" /\ Due(i) = {} /\ phase' = "align"
        /\ is_timer_sane' = [is_timer_sane EXCEPT ![i] = FALSE]
        /\ \/ i + 1 < NumCores /\ pc' = "move" /\ core' = i + 1
           \/ ~(i + 1 < NumCores) /\ pc' = "slice" /\ core' = 0
        /\ UNCHANGED <<executed_ticks, slice_length, downcount, global_ticks>>
    BY <1>1 DEF AdvanceReturns
  <1>3. /\ is_timer_sane[i] /\ slice_length[i] = downcount[i] /\ max_slice > 0
        /\ IsFirst(Ticks, global_ticks) /\ max_slice <= MAX_SLICE_LENGTH
        /\ \A d \in Cores : Lag(d) <= min_delay
        /\ \A d \in Cores : d < i => ~is_timer_sane[d]
    BY <1>1, <1>2 DEF Inv, Settled, SlicesDue, Advancing, LagInv, AlignOK, FirstOK
  <1>4. /\ Ticks \in [Cores -> Int] /\ max_slice \in Int /\ global_ticks \in Int
        /\ ClockTypes /\ i \in Int /\ i \in 0 .. NumCores - 1 /\ NumCores \in Int
    BY TicksType, Bounds DEF Inv, LoopTypes, Cores
  <1>5. PICK n \in SliceLengths(i, max_slice) : IsSlice(i, max_slice, n) /\ max_slice' = n
    BY <1>1, <1>2 DEF AdvanceReturns
  <1>6. n \in Int /\ n <= MAX_SLICE_LENGTH
    <2>1. n \in Int /\ n > 0
      BY <1>2, <1>3, <1>4, <1>5, SliceAfterAdvance DEF Inv
    <2> QED
      BY <1>3, <1>4, <1>5, <2>1, Bounds DEF IsSlice
  <1>7. \A c \in Cores : is_timer_sane'[c] = (c # i /\ is_timer_sane[c])
    BY <1>2, <1>4 DEF ClockTypes
  <1>8. Ticks' = Ticks
    <2>1. ASSUME NEW c \in Cores PROVE GetTicks(c)' = GetTicks(c)
      <3>1. CASE c = i
        BY <1>2, <1>3, <1>4, <1>7, <3>1 DEF GetTicks, ClockTypes
      <3>2. CASE c # i
        BY <1>2, <1>4, <1>7, <3>2 DEF GetTicks, ClockTypes
      <3> QED
        BY <3>1, <3>2
    <2> QED
      BY <2>1 DEF Ticks
  <1>9. \A d \in Cores : Lag(d)' = Lag(d)
    BY <1>2, <1>8 DEF Lag
  <1>10. SaneOK' /\ SlicesShort' /\ Together'
    BY <1>2, <1>7, <1>8 DEF LagInv, SaneOK, SlicesShort, Together
  <1>11. FirstOK'
    BY <1>2, <1>3, <1>8 DEF FirstOK
  <1>12. \A d \in Cores : d < i + 1 => ~is_timer_sane'[d]
    <2>1. \A d \in Cores : d < i + 1 => d < i \/ d = i
      BY <1>4 DEF Cores
    <2> QED
      BY <1>3, <1>7, <2>1
  <1>13. AlignOK'
    BY <1>2, <1>3, <1>5, <1>6, <1>9, <1>12 DEF AlignOK, Advancing
  <1>14. SyncOK' /\ CatchUpOK' /\ SliceOK'
    BY <1>2 DEF SyncOK, Syncing, CatchUpOK, SliceOK, Advancing
  <1>15. RoundOK'
    <2>1. CASE pc' = "move"
      BY <2>1 DEF RoundOK
    <2>2. CASE pc' = "slice"
      <3>1. core' = 0 /\ \A d \in Cores : d < i + 1
        BY <1>2, <1>4, <2>2 DEF Cores
      <3>2. n <= Span(0)
        BY <1>6, Bounds
      <3>3. Near(Ticks, global_ticks + n, 0 .. 0 - 1)
        BY <1>3, <1>4, <1>6, AlignedNear DEF Lag
      <3>4. \A d \in Cores : Ticks[d] <= global_ticks
        BY <1>3 DEF IsFirst
      <3> QED
        BY <1>2, <1>3, <1>5, <1>8, <1>9, <1>12, <2>2, <3>1, <3>2, <3>3, <3>4 DEF RoundOK
    <2> QED
      BY <1>2, <2>1, <2>2
  <1> QED
    BY <1>10, <1>11, <1>13, <1>14, <1>15 DEF LagInv

\* A core that is fresh begins its slice.
LEMMA StartSliceLag ==
    ASSUME Inv, LagInv, StartSlice, Inv'
    PROVE  LagInv'
  <1>1. PICK i \in Cores : i = core
    BY DEF StartSlice
  <1>2. /\ pc = "slice" /\ pc' = "run" /\ core' = i /\ phase = "align" /\ phase' = "align"
        /\ start_ticks' = Ticks[i] /\ slice_length[i] = downcount[i]
        /\ UNCHANGED <<executed_ticks, is_timer_sane, global_ticks, max_slice>>
    BY <1>1, TicksType DEF StartSlice, Inv, SlicesDue, Fresh, Cores
  <1>3. /\ max_slice <= Span(i) /\ \A d \in Cores : ~is_timer_sane[d]
        /\ \A d \in Cores : d > i \/ d = i => Ticks[d] <= global_ticks /\ Lag(d) <= min_delay
        /\ Near(Ticks, global_ticks + max_slice, 0 .. i - 1)
    BY <1>1, <1>2 DEF LagInv, RoundOK
  <1>4. PICK n \in SliceLengths(i, max_slice) :
          /\ IsSlice(i, max_slice, n)
          /\ slice_length' = [slice_length EXCEPT ![i] = n]
          /\ downcount' = [downcount EXCEPT ![i] = n]
    BY <1>1 DEF StartSlice, SetNextSlice
  <1>5. /\ slice_length'[i] = n /\ downcount'[i] = n
        /\ \A c \in Cores : c # i =>
             slice_length'[c] = slice_length[c] /\ downcount'[c] = downcount[c]
    BY <1>4 DEF Inv, ClockTypes
  <1>6. n \in Int /\ n >= 0 /\ n <= max_slice
    BY <1>4, <1>5 DEF Inv, ClockTypes, SlicesSound, IsSlice
  <1>7. /\ Ticks \in [Cores -> Int] /\ max_slice \in Int /\ global_ticks \in Int
        /\ ClockTypes /\ i \in 0 .. NumCores - 1
    BY TicksType DEF Inv, LoopTypes, Cores
  <1>8. Ticks' = Ticks
    <2>1. ASSUME NEW c \in Cores PROVE GetTicks(c)' = GetTicks(c)
      <3>1. CASE c = i
        BY <1>2, <1>3, <1>5, <1>6, <1>7, <3>1 DEF GetTicks, ClockTypes
      <3>2. CASE c # i
        BY <1>2, <1>5, <3>2 DEF GetTicks
      <3> QED
        BY <3>1, <3>2
    <2> QED
      BY <2>1 DEF Ticks
  <1>9. \A d \in Cores : Lag(d)' = Lag(d)
    BY <1>2, <1>8 DEF Lag
  <1>10. SlicesShort'
    <2>1. n <= MaxLag /\ n >= -MaxOvershoot
      <3>1. Span(i) \in Nat /\ Span(i) <= MaxLag
        BY <1>7, Bounds
      <3>2. MaxLag \in Nat /\ MaxOvershoot \in Nat
        BY Bounds
      <3> QED
        BY <1>3, <1>6, <1>7, <3>1, <3>2
    <2> QED
      BY <1>5, <2>1 DEF LagInv, SlicesShort
  <1>11. SaneOK' /\ Together'
    BY <1>2, <1>3, <1>8 DEF LagInv, SaneOK, Together
  <1>12. FirstOK' /\ SyncOK' /\ AlignOK' /\ CatchUpOK'
    BY <1>2 DEF FirstOK, SyncOK, Syncing, AlignOK, CatchUpOK, Advancing
  <1>13. RoundOK'
    BY <1>2, <1>3, <1>8, <1>9 DEF RoundOK
  <1>14. SliceOK'
    <2>1. Ticks[i] <= global_ticks /\ global_ticks - Ticks[i] <= min_delay
      BY <1>3 DEF Lag
    <2>2. Ticks[i] + n <= Ticks[i] + max_slice
      BY <1>6, <1>7
    <2> QED
      BY <1>2, <1>5, <1>8, <2>1, <2>2 DEF SliceOK
  <1> QED
    BY <1>10, <1>11, <1>12, <1>13, <1>14 DEF LagInv

\* The program schedules an event on its own timer: the slice is cut short.
LEMMA ScheduleOwnLag ==
    ASSUME Inv, LagInv, NEW e \in EventIds, NEW d \in Delays, pc \in {"run", "callback"},
           ScheduleOwn(e, d), UNCHANGED <<pc, loopVars>>
    PROVE  LagInv'
  <1>1. PICK i \in Cores : i = core /\ i = current_timer
    BY DEF Inv, AtCore, Advancing
  <1>2. CASE UNCHANGED <<slice_length, downcount>>
    BY <1>2, QuietLag DEF ScheduleOwn, clockVars
  <1>3. CASE ~UNCHANGED <<slice_length, downcount>>
    <2>1. /\ ~is_timer_sane[i] /\ downcount[i] > d /\ d \in Nat
          /\ slice_length' = [slice_length EXCEPT ![i] = @ - (downcount[i] - d)]
          /\ downcount' = [downcount EXCEPT ![i] = d]
          /\ UNCHANGED <<executed_ticks, is_timer_sane>>
      BY <1>1, <1>3, LoopConstants DEF ScheduleOwn, ForceExceptionCheck
    <2>2. /\ pc = "run" /\ pc' = "run" /\ phase' = phase /\ core' = i
          /\ UNCHANGED <<global_ticks, max_slice, start_ticks>>
      BY <1>1, <2>1 DEF Inv, Settled, loopVars
    <2>3. /\ slice_length'[i] = slice_length[i] - (downcount[i] - d) /\ downcount'[i] = d
          /\ \A c \in Cores : c # i =>
               slice_length'[c] = slice_length[c] /\ downcount'[c] = downcount[c]
      BY <2>1 DEF Inv, ClockTypes
    <2>4. ClockTypes /\ slice_length[i] \in Int /\ downcount[i] \in Int /\ executed_ticks[i] \in Int
      BY DEF Inv, ClockTypes
    <2>5. Ticks' = Ticks
      <3>1. ASSUME NEW c \in Cores PROVE GetTicks(c)' = GetTicks(c)
        <4>1. CASE c = i
          BY <2>1, <2>3, <2>4, <4>1 DEF GetTicks
        <4>2. CASE c # i
          BY <2>1, <2>3, <4>2 DEF GetTicks
        <4> QED
          BY <4>1, <4>2
      <3> QED
        BY <3>1 DEF Ticks
    <2>6. \A c \in Cores : Lag(c)' = Lag(c)
      BY <2>2, <2>5 DEF Lag
    <2>7. SlicesShort'
      <3>1. slice_length[i] <= MaxLag
        BY DEF LagInv, SlicesShort
      <3>2. slice_length'[i] <= MaxLag /\ downcount'[i] >= -MaxOvershoot
        BY <2>1, <2>3, <2>4, <3>1, Bounds
      <3> QED
        BY <2>3, <3>2 DEF LagInv, SlicesShort
    <2>8. SaneOK' /\ Together'
      BY <2>1, <2>3, <2>5 DEF LagInv, SaneOK, Together
    <2>9. FirstOK' /\ SyncOK' /\ AlignOK'
      BY <2>2 DEF FirstOK, SyncOK, Syncing, AlignOK, Advancing
    <2>10. downcount'[i] <= downcount[i] /\ Ticks[i] \in Int
      BY <2>1, <2>3, <2>4, TicksType
    <2>11. CatchUpOK'
      <3>1. CASE phase = "sync"
        <4>1. /\ Ticks[i] + downcount[i] <= global_ticks /\ global_ticks \in Int
              /\ Near(Ticks, global_ticks, Cores \ {i})
          BY <1>1, <2>2, <3>1 DEF LagInv, CatchUpOK, Inv, LoopTypes
        <4>2. Ticks[i] + downcount'[i] <= global_ticks
          BY <2>1, <2>3, <2>4, <2>10, <4>1
        <4> QED
          BY <2>1, <2>2, <2>5, <4>1, <4>2 DEF CatchUpOK
      <3>2. CASE phase # "sync"
        BY <2>2, <3>2 DEF CatchUpOK
      <3> QED
        BY <3>1, <3>2
    <2>12. RoundOK'
      BY <1>1, <2>1, <2>2, <2>5, <2>6 DEF LagInv, RoundOK
    <2>13. SliceOK'
      <3>1. CASE phase = "align"
        <4>1. /\ start_ticks <= global_ticks /\ global_ticks - start_ticks <= min_delay
              /\ Ticks[i] + downcount[i] <= start_ticks + max_slice
              /\ start_ticks \in Int /\ max_slice \in Int
          BY <1>1, <2>2, <3>1 DEF LagInv, SliceOK, Inv, LoopTypes
        <4>2. Ticks[i] + downcount'[i] <= start_ticks + max_slice
          BY <2>1, <2>3, <2>4, <2>10, <4>1
        <4> QED
          BY <2>2, <2>5, <4>1, <4>2 DEF SliceOK
      <3>2. CASE phase # "align"
        BY <2>2, <3>2 DEF SliceOK
      <3> QED
        BY <3>1, <3>2
    <2> QED
      BY <2>7, <2>8, <2>9, <2>11, <2>12, <2>13 DEF LagInv
  <1> QED
    BY <1>2, <1>3

\* What the core may run before it looks at its downcount again.
LEMMA DowncountRuns ==
    ASSUME Inv, LagInv, NEW i \in Cores, i = core,
           Idle \/ \E n \in 1 .. MAX_SLICE_LENGTH + MaxOvershoot : Execute(n)
    PROVE  /\ downcount'[i] \in Int /\ downcount'[i] <= downcount[i] /\ downcount'[i] >= -MaxOvershoot
           /\ \A c \in Cores : c # i => downcount'[c] = downcount[c]
           /\ pc = "run"
           /\ UNCHANGED <<executed_ticks, slice_length, is_timer_sane, pc, loopVars>>
  <1>1. /\ ClockTypes /\ downcount[i] \in Int /\ slice_length[i] \in Int /\ slice_length[i] >= 0
        /\ MaxOvershoot \in Nat /\ MAX_SLICE_LENGTH \in Nat
    BY Bounds DEF Inv, ClockTypes, SlicesSound
  <1>2. CASE Idle
    BY <1>1, <1>2 DEF Idle, ClockTypes
  <1>3. CASE \E n \in 1 .. MAX_SLICE_LENGTH + MaxOvershoot : Execute(n)
    <2>1. PICK n \in 1 .. MAX_SLICE_LENGTH + MaxOvershoot : Execute(n)
      BY <1>3
    <2>2. n \in Int /\ n >= 1 /\ n <= downcount[i] + MaxOvershoot
      BY <1>1, <2>1 DEF Execute
    <2>3. downcount' = [downcount EXCEPT ![i] = downcount[i] - n]
      BY <2>1 DEF Execute
    <2>4. downcount'[i] = downcount[i] - n /\ \A c \in Cores : c # i => downcount'[c] = downcount[c]
      BY <1>1, <2>3 DEF ClockTypes
    <2>5. /\ downcount'[i] \in Int /\ downcount'[i] <= downcount[i]
          /\ downcount'[i] >= -MaxOvershoot
      BY <1>1, <2>2, <2>4
    <2> QED
      BY <2>1, <2>4, <2>5 DEF Execute
  <1> QED
    BY <1>2, <1>3

\* A core runs.
LEMMA RunLag ==
    ASSUME Inv, LagInv, Inv', Idle \/ \E n \in 1 .. MAX_SLICE_LENGTH + MaxOvershoot : Execute(n)
    PROVE  LagInv'
  <1>1. PICK i \in Cores : i = core
    BY DEF Idle, Execute, Inv, AtCore
  <1>2. /\ downcount'[i] \in Int /\ downcount'[i] <= downcount[i] /\ downcount'[i] >= -MaxOvershoot
        /\ \A c \in Cores : c # i => downcount'[c] = downcount[c]
        /\ pc = "run" /\ pc' = "run"
        /\ UNCHANGED <<executed_ticks, slice_length, is_timer_sane, loopVars>>
    BY <1>1, DowncountRuns
  <1>3. /\ core' = i /\ phase' = phase /\ phase \in {"sync", "align"}
        /\ UNCHANGED <<global_ticks, max_slice, start_ticks>>
        /\ global_ticks \in Int /\ max_slice \in Int /\ start_ticks \in Int /\ i \in 0 .. NumCores - 1
        /\ executed_ticks[i] \in Int /\ slice_length[i] \in Int /\ downcount[i] \in Int
        /\ MaxOvershoot \in Nat
    BY <1>1, <1>2, Bounds DEF loopVars, Inv, LoopTypes, ClockTypes, Cores
  <1>4. ~is_timer_sane[i]
    BY <1>1, <1>2, <1>3 DEF LagInv, CatchUpOK, RoundOK
  <1>5. /\ Ticks'[i] = Ticks[i] + downcount[i] - downcount'[i]
        /\ \A c \in Cores : c # i => Ticks'[c] = Ticks[c]
    <2>1. GetTicks(i)' = GetTicks(i) + downcount[i] - downcount'[i]
      BY <1>2, <1>3, <1>4 DEF GetTicks
    <2>2. \A c \in Cores : c # i => GetTicks(c)' = GetTicks(c)
      BY <1>2 DEF GetTicks
    <2> QED
      BY <2>1, <2>2 DEF Ticks
  <1>6. Ticks \in [Cores -> Int] /\ Ticks' \in [Cores -> Int]
    BY TicksType, TicksInt DEF Ticks, Inv, ClockTypes, GetTicks
  <1>7. PICK t, u : t = Ticks /\ u = Ticks'
    OBVIOUS
  <1>8. Runs(t, u, i) /\ u[i] = t[i] + downcount[i] - downcount'[i]
    BY <1>2, <1>3, <1>5, <1>6, <1>7 DEF Runs
  <1>9. AllNear(t)
    BY <1>7 DEF LagInv, Together
  <1>10. SaneOK' /\ SlicesShort'
    BY <1>2, <1>4 DEF LagInv, SaneOK, SlicesShort
  <1>11. FirstOK' /\ SyncOK' /\ AlignOK'
    BY <1>2 DEF FirstOK, SyncOK, Syncing, AlignOK, Advancing
  <1>12. t[i] \in Int /\ u[i] \in Int /\ u[i] + downcount'[i] = t[i] + downcount[i]
    BY <1>2, <1>3, <1>6, <1>7, <1>8
  <1>13. CASE phase = "sync"
    <2>1. t[i] + downcount[i] <= global_ticks /\ Near(t, global_ticks, Cores \ {i})
      BY <1>1, <1>2, <1>7, <1>13 DEF LagInv, CatchUpOK
    <2>2. u[i] <= global_ticks + MaxOvershoot /\ u[i] + downcount'[i] <= global_ticks
      BY <1>2, <1>3, <1>12, <2>1
    <2>3. AllNear(u) /\ Near(u, global_ticks, Cores \ {i})
      BY <1>3, <1>8, <1>9, <2>1, <2>2, RunKeepsTogether, RunKeepsNear
    <2>4. Together' /\ CatchUpOK'
      BY <1>2, <1>3, <1>4, <1>7, <2>2, <2>3 DEF Together, CatchUpOK
    <2>5. RoundOK' /\ SliceOK'
      BY <1>2, <1>3, <1>13 DEF RoundOK, SliceOK
    <2> QED
      BY <1>10, <1>11, <2>4, <2>5 DEF LagInv
  <1>14. CASE phase = "align"
    <2>1. /\ max_slice <= Span(i) /\ \A d \in Cores : ~is_timer_sane[d]
          /\ \A d \in Cores : d > i => Ticks[d] <= global_ticks /\ Lag(d) <= min_delay
          /\ Near(t, global_ticks + max_slice, 0 .. i - 1)
          /\ start_ticks <= global_ticks /\ global_ticks - start_ticks <= min_delay
          /\ t[i] + downcount[i] <= start_ticks + max_slice
      BY <1>1, <1>2, <1>7, <1>14 DEF LagInv, RoundOK, SliceOK
    <2>2. /\ u[i] <= global_ticks + max_slice + MaxOvershoot
          /\ u[i] + downcount'[i] <= start_ticks + max_slice
      <3>1. start_ticks <= global_ticks /\ t[i] + downcount[i] <= start_ticks + max_slice
        BY <2>1
      <3> QED
        BY <1>2, <1>3, <1>12, <3>1
    <2>3. 0 .. i - 1 \subseteq Cores /\ i \notin 0 .. i - 1 /\ global_ticks + max_slice \in Int
      BY <1>3, Bounds DEF Cores
    <2>4. AllNear(u) /\ Near(u, global_ticks + max_slice, 0 .. i - 1)
      BY <1>3, <1>8, <1>9, <2>1, <2>2, <2>3, RunKeepsTogether, RunKeepsNear
    <2>5. \A d \in Cores : d > i => d # i
      BY <1>3 DEF Cores
    <2>6. \A d \in Cores : d > i => Ticks'[d] = Ticks[d] /\ Lag(d)' = Lag(d)
      BY <1>3, <1>5, <2>5 DEF Lag
    <2>7. RoundOK'
      BY <1>2, <1>3, <1>7, <2>1, <2>4, <2>6 DEF RoundOK
    <2>8. Together' /\ SliceOK' /\ CatchUpOK'
      BY <1>2, <1>3, <1>7, <1>14, <2>1, <2>2, <2>4 DEF Together, SliceOK, CatchUpOK
    <2> QED
      BY <1>10, <1>11, <2>7, <2>8 DEF LagInv
  <1> QED
    BY <1>3, <1>13, <1>14

\* Every step keeps the cores together.
LEMMA NextLag == Inv /\ LagInv /\ [Next]_vars => LagInv'
  <1> SUFFICES ASSUME Inv, LagInv, [Next]_vars PROVE LagInv'
    OBVIOUS
  <1>1. Inv'
    BY NextKeeps
  <1>2. CASE AdvanceMoves \/ AdvanceFires \/ CallbackReturns
    BY <1>2, QuietLag
    DEF AdvanceMoves, AdvanceFires, CallbackReturns, Advancing, timingVars
  <1>3. CASE Begin \/ SyncSkip \/ SyncAdvance \/ SyncEnd
    BY <1>3, BeginLag, SyncSkipLag, SyncAdvanceLag, SyncEndLag
  <1>4. CASE AdvanceSettles \/ AdvanceReturns
    <2>1. phase \in {"sync", "align"}
      BY DEF Inv, LoopTypes
    <2> QED
      BY <1>4, <2>1, SettleLag, SyncReturnsLag, AlignReturnsLag
  <1>5. CASE StartSlice \/ SlicesEnd \/ RunEnds
    BY <1>1, <1>5, StartSliceLag, RunEndsLag
  <1>6. CASE Idle \/ \E n \in 1 .. MAX_SLICE_LENGTH + MaxOvershoot : Execute(n)
    BY <1>1, <1>6, RunLag
  <1>7. CASE \E e \in EventIds, d \in Delays : Schedule(e, d)
    <2>1. PICK e \in EventIds, d \in Delays : Schedule(e, d)
      BY <1>7
    <2>2. CASE ScheduleOwn(e, d)
      BY <2>1, <2>2, ScheduleOwnLag DEF Schedule
    <2>3. CASE \E c \in Cores : ScheduleOther(c, e, d)
      BY <2>1, <2>3, QuietLag DEF Schedule, ScheduleOther
    <2> QED
      BY <2>1, <2>2, <2>3 DEF Schedule
  <1>8. CASE \E e \in EventIds : Unschedule(e)
    BY <1>8, QuietLag DEF Unschedule, UnscheduleEvent
  <1>9. CASE \E c \in Cores, e \in EventIds, d \in Delays : HostSchedule(c, e, d)
    BY <1>9, QuietLag DEF HostSchedule, ScheduleHost
  <1>10. CASE UNCHANGED vars
    BY <1>10, QuietLag DEF vars, timingVars
  <1> QED
    BY <1>2, <1>3, <1>4, <1>5, <1>6, <1>7, <1>8, <1>9, <1>10 DEF Next, LoopStep

(***************************************************************************)
(* RunLoop keeps the cores together, for any number of cores, any slice    *)
(* length, tolerated lag and overshoot, whatever is scheduled: at its head *)
(* no core is further ahead of another than a slice, the tolerated lag and *)
(* one overshoot for each other core.                                      *)
(***************************************************************************)
THEOREM CoresStayTogether == Spec => []LagBounded
  <1>1. Inv /\ LagInv => LagBounded
    <2> SUFFICES ASSUME Inv, LagInv, NEW c \in Cores, NEW d \in Cores
                 PROVE  GetTicks(c) - GetTicks(d) <= MaxLag
      BY DEF LagBounded
    <2>1. AllNear(Ticks)
      BY DEF LagInv, Together
    <2> QED
      BY <2>1, TicksType, NearIsWithinMaxLag
  <1>2. Inv /\ LagInv /\ [Next]_vars => Inv' /\ LagInv'
    BY NextKeeps, NextLag
  <1> QED
    BY <1>1, <1>2, InitInv, InitLag, PTL DEF Spec

-----------------------------------------------------------------------------
(***************************************************************************)
(* How late events are.  The heap of a core holds nothing that is due      *)
(* within the core's slice, but for the time between MoveEvents and the    *)
(* return of Advance.  What waits in ts_queue was scheduled after the core *)
(* was last advanced.                                                      *)
(***************************************************************************)
InAdvance == pc \in {"settle", "fire", "callback"}

\* The event is not due before the slice of core c ends.
Fits(c, e) == e.time >= executed_ticks[c] + slice_length[c]

\* The event was scheduled when the clock showed b or more.
SentAfter(e, b) ==
    \/ e.from = "other" /\ e.time >= b
    \/ e.from = "host" /\ e.time >= b + 2 * MAX_SLICE_LENGTH - MaxLag

HeapFits == \A c \in Cores : ~(InAdvance /\ c = core) => \A e \in event_queue[c] : Fits(c, e)

HeapMoved ==
    pc = "settle" =>
      \A e \in event_queue[core] : Fits(core, e) \/ SentAfter(e, executed_ticks[core])

HeapLate ==
    pc \in {"fire", "callback"} =>
      /\ slice_length[core] = 0
      /\ \A e \in event_queue[core] : executed_ticks[core] - e.time <= Tolerance(e.from)

\* Once the events are moved, new ones are for what comes after this slice.
Base(c) == IF pc = "settle" /\ c = core THEN GetTicks(c) ELSE executed_ticks[c]

TsAfter == \A c \in Cores : \A e \in ts_queue[c] : SentAfter(e, Base(c))

TimeInv == HeapFits /\ HeapMoved /\ HeapLate /\ TsAfter

\* No event is tolerated to be late by less than an overshoot.
LEMMA ToleranceBounds ==
    /\ \A f \in {"own", "other", "host"} : Tolerance(f) \in Int /\ Tolerance(f) >= MaxOvershoot
    /\ Tolerance("other") = MaxRun
    /\ Tolerance("host") >= MaxLag + MaxRun - 2 * MAX_SLICE_LENGTH
  BY Bounds DEF Tolerance, AtLeast

\* The times and the clocks are numbers.
LEMMA TimesInt ==
    ASSUME Inv, NEW c \in Cores
    PROVE  /\ executed_ticks[c] \in Int /\ slice_length[c] \in Int /\ downcount[c] \in Int
           /\ slice_length[c] >= 0 /\ slice_length[c] - downcount[c] >= 0
           /\ GetTicks(c) \in Int /\ GetTicks(c) >= executed_ticks[c]
           /\ \A e \in event_queue[c] \cup ts_queue[c] :
                e.time \in Int /\ e.from \in {"own", "other", "host"}
  <1>1. /\ executed_ticks[c] \in Int /\ slice_length[c] \in Int /\ downcount[c] \in Int
        /\ slice_length[c] >= 0 /\ slice_length[c] - downcount[c] >= 0
    BY DEF Inv, ClockTypes, SlicesSound
  <1>2. GetTicks(c) \in Int /\ GetTicks(c) >= executed_ticks[c]
    BY <1>1 DEF GetTicks
  <1>3. event_queue[c] \subseteq Event /\ ts_queue[c] \subseteq Event
    BY DEF Inv, QueueTypes
  <1> QED
    BY <1>1, <1>2, <1>3 DEF Event

\* There are no events to begin with.
LEMMA InitTimes == Init => TimeInv
  BY DEF Init, TimingInit, TimeInv, HeapFits, HeapMoved, HeapLate, TsAfter

\* Outside of Advance, nothing that leaves the clocks alone and adds no event matters.
LEMMA OutsideTimes ==
    ASSUME Inv, TimeInv, UNCHANGED <<executed_ticks, slice_length>>,
           \A c \in Cores : event_queue'[c] \subseteq event_queue[c] /\ ts_queue'[c] \subseteq ts_queue[c],
           ~InAdvance, ~InAdvance'
    PROVE  TimeInv'
  <1>1. \A c \in Cores : \A e \in event_queue'[c] : Fits(c, e)'
    BY DEF TimeInv, HeapFits, Fits
  <1>2. HeapFits' /\ HeapMoved' /\ HeapLate'
    BY <1>1 DEF HeapFits, HeapMoved, HeapLate, InAdvance
  <1>3. \A c \in Cores : Base(c) = executed_ticks[c] /\ Base(c)' = executed_ticks[c]
    BY DEF Base, InAdvance
  <1>4. TsAfter'
    BY <1>3 DEF TimeInv, TsAfter, SentAfter
  <1> QED
    BY <1>2, <1>4 DEF TimeInv

\* Nor does it at any one place.
LEMMA InPlaceTimes ==
    ASSUME Inv, TimeInv, UNCHANGED <<clockVars, core>>,
           \A c \in Cores : event_queue'[c] \subseteq event_queue[c] /\ ts_queue'[c] \subseteq ts_queue[c],
           pc' = pc \/ (pc \in {"fire", "callback"} /\ pc' \in {"fire", "callback"})
    PROVE  TimeInv'
  <1>1. /\ InAdvance' = InAdvance /\ (pc' = "settle" <=> pc = "settle")
        /\ (pc' \in {"fire", "callback"} <=> pc \in {"fire", "callback"})
        /\ pc \in {"settle", "fire", "callback"} => core \in Cores
    BY DEF InAdvance, Inv, AtCore, Advancing
  <1>2. HeapFits' /\ HeapMoved' /\ HeapLate'
    BY <1>1 DEF TimeInv, HeapFits, HeapMoved, HeapLate, Fits, SentAfter, clockVars, InAdvance
  <1>3. \A c \in Cores : Base(c)' = Base(c)
    BY <1>1 DEF Base, GetTicks, clockVars
  <1>4. TsAfter'
    BY <1>3 DEF TimeInv, TsAfter, SentAfter
  <1> QED
    BY <1>2, <1>4 DEF TimeInv

\* Advance moves what other cores and threads have sent.
LEMMA MoveTimes ==
    ASSUME Inv, TimeInv, AdvanceMoves
    PROVE  TimeInv'
  <1>1. PICK i \in Cores : i = core
    BY DEF AdvanceMoves, Inv, AtCore, Advancing
  <1>2. /\ pc = "move" /\ pc' = "settle" /\ core' = i
        /\ UNCHANGED clockVars
        /\ event_queue'[i] = event_queue[i] \cup ts_queue[i] /\ ts_queue'[i] = {}
        /\ \A c \in Cores : c # i => event_queue'[c] = event_queue[c] /\ ts_queue'[c] = ts_queue[c]
    BY <1>1 DEF AdvanceMoves, MoveEvents, loopVars, Inv, QueueTypes
  <1>3. \A c \in Cores : \A e \in event_queue[c] : Fits(c, e)
    BY <1>2 DEF TimeInv, HeapFits, InAdvance
  <1>4. \A c \in Cores : \A e \in ts_queue[c] : SentAfter(e, executed_ticks[c])
    BY <1>2 DEF TimeInv, TsAfter, Base
  <1>5. HeapFits' /\ HeapLate'
    BY <1>2, <1>3 DEF HeapFits, HeapLate, Fits, clockVars, InAdvance
  <1>6. HeapMoved'
    BY <1>2, <1>3, <1>4 DEF HeapMoved, Fits, SentAfter, clockVars
  <1>7. TsAfter'
    <2> SUFFICES ASSUME NEW c \in Cores, NEW e \in ts_queue'[c] PROVE SentAfter(e, Base(c)')
      BY DEF TsAfter, SentAfter
    <2>1. c # i
      BY <1>2
    <2> QED
      BY <1>2, <1>4, <2>1 DEF Base, clockVars
  <1> QED
    BY <1>5, <1>6, <1>7 DEF TimeInv

\* An event is late by what the core has run when it was not there to stop for.
LEMMA SettledIsLate ==
    ASSUME NEW x \in Int, NEW s \in Int, NEW d \in Int, s <= MaxLag, d >= -MaxOvershoot, s >= 0,
           NEW e, e.time \in Int, e.from \in {"own", "other", "host"},
           e.time >= x + s \/ SentAfter(e, x)
    PROVE  x + s - d - e.time <= Tolerance(e.from)
  <1>1. MaxOvershoot \in Nat /\ MaxLag \in Nat /\ MAX_SLICE_LENGTH \in Nat /\ MaxRun = MaxLag + MaxOvershoot
    BY Bounds
  <1>2. Tolerance(e.from) \in Int /\ Tolerance(e.from) >= MaxOvershoot
    BY ToleranceBounds
  <1>3. CASE e.time >= x + s
    BY <1>1, <1>2, <1>3
  <1>4. CASE e.from = "other" /\ e.time >= x
    <2>1. Tolerance(e.from) = MaxRun
      BY <1>4, ToleranceBounds
    <2> QED
      BY <1>1, <1>4, <2>1
  <1>5. CASE e.from = "host" /\ e.time >= x + 2 * MAX_SLICE_LENGTH - MaxLag
    <2>1. Tolerance(e.from) >= MaxLag + MaxRun - 2 * MAX_SLICE_LENGTH
      BY <1>5, ToleranceBounds
    <2> QED
      BY <1>1, <1>2, <1>5, <2>1
  <1> QED
    BY <1>3, <1>4, <1>5 DEF SentAfter

\* Advance settles.
LEMMA SettleTimes ==
    ASSUME Inv, LagInv, TimeInv, AdvanceSettles
    PROVE  TimeInv'
  <1>1. PICK i \in Cores : i = core
    BY DEF AdvanceSettles, Inv, AtCore, Advancing
  <1>2. /\ pc = "settle" /\ pc' = "fire" /\ core' = i
        /\ executed_ticks'[i] = executed_ticks[i] + slice_length[i] - downcount[i]
        /\ slice_length'[i] = 0
        /\ \A c \in Cores : c # i =>
             executed_ticks'[c] = executed_ticks[c] /\ slice_length'[c] = slice_length[c]
        /\ UNCHANGED <<event_queue, ts_queue>>
    BY <1>1 DEF AdvanceSettles, Settle, loopVars, Inv, ClockTypes
  <1>3. GetTicks(i) = executed_ticks'[i]
    BY <1>2, TimesInt DEF GetTicks, LagInv, SaneOK
  <1>4. HeapFits' /\ HeapMoved'
    BY <1>1, <1>2 DEF TimeInv, HeapFits, HeapMoved, Fits, InAdvance
  <1>5. HeapLate'
    <2>1. SUFFICES ASSUME NEW e \in event_queue[i]
                   PROVE  executed_ticks'[i] - e.time <= Tolerance(e.from)
      BY <1>2 DEF HeapLate, Tolerance
    <2>2. e.time >= executed_ticks[i] + slice_length[i] \/ SentAfter(e, executed_ticks[i])
      BY <1>1, <1>2 DEF TimeInv, HeapMoved, Fits
    <2>3. /\ executed_ticks[i] \in Int /\ slice_length[i] \in Int /\ downcount[i] \in Int
          /\ slice_length[i] >= 0 /\ e.time \in Int /\ e.from \in {"own", "other", "host"}
      BY TimesInt
    <2>4. slice_length[i] <= MaxLag /\ downcount[i] >= -MaxOvershoot
      BY DEF LagInv, SlicesShort
    <2> QED
      BY <1>2, <2>2, <2>3, <2>4, SettledIsLate
  <1>6. \A c \in Cores : Base(c)' = Base(c)
    BY <1>1, <1>2, <1>3 DEF Base
  <1>7. TsAfter'
    BY <1>2, <1>6 DEF TimeInv, TsAfter, SentAfter
  <1> QED
    BY <1>4, <1>5, <1>7 DEF TimeInv

\* Advance returns: nothing is due before the new slice ends.
LEMMA ReturnTimes ==
    ASSUME Inv, LagInv, TimeInv, AdvanceReturns
    PROVE  TimeInv'
  <1>1. PICK i \in Cores : i = core
    BY DEF Inv, AtCore, AdvanceReturns, Advancing
  <1>2. /\ pc = "fire" /\ pc' \in {"sync", "move", "slice"} /\ Due(i) = {}
        /\ slice_length[i] = 0
        /\ UNCHANGED <<executed_ticks, event_queue, ts_queue>>
        /\ phase \in {"sync", "align"}
    BY <1>1 DEF AdvanceReturns, TimeInv, HeapLate, Inv, LoopTypes
  <1>3. /\ \A e \in event_queue[i] : executed_ticks[i] + slice_length'[i] <= e.time
        /\ \A c \in Cores : c # i => slice_length'[c] = slice_length[c]
    <2>1. CASE phase = "sync"
      <3>1. PICK n \in SliceLengths(i, delay) :
              /\ IsSlice(i, delay, n) /\ slice_length' = [slice_length EXCEPT ![i] = n]
        BY <1>1, <2>1 DEF AdvanceReturns, SetNextSlice
      <3>2. delay \in Int /\ delay > 0
        BY <1>2, <2>1 DEF Inv, LoopTypes, SlicesDue, Advancing
      <3>3. n \in Int
        BY <1>2, <3>1, <3>2, SliceAfterAdvance DEF Inv
      <3>4. \A e \in event_queue[i] : executed_ticks[i] + n <= e.time
        BY <3>1, <3>3, TimesInt DEF IsSlice
      <3> QED
        BY <3>1, <3>4 DEF Inv, ClockTypes
    <2>2. CASE phase = "align"
      <3>1. slice_length' = slice_length
        BY <2>2 DEF AdvanceReturns
      <3>2. max_slice \in Int /\ max_slice > 0
        BY <1>2, <2>2 DEF Inv, LoopTypes, SlicesDue, Advancing
      <3>3. PICK n \in SliceLengths(i, max_slice) : IsSlice(i, max_slice, n)
        BY <1>1, <2>2 DEF AdvanceReturns
      <3>4. \A e \in event_queue[i] : e.time > executed_ticks[i]
        BY <1>2, <3>2, <3>3, SliceAfterAdvance DEF Inv
      <3> QED
        BY <1>2, <3>1, <3>4, TimesInt
    <2> QED
      BY <1>2, <2>1, <2>2
  <1>4. \A c \in Cores : \A e \in event_queue[c] : e.time >= executed_ticks[c] + slice_length'[c]
    <2> SUFFICES ASSUME NEW c \in Cores, NEW e \in event_queue[c]
                 PROVE  e.time >= executed_ticks[c] + slice_length'[c]
      OBVIOUS
    <2>1. CASE c = i
      <3>1. slice_length'[i] \in Int
        BY AdvanceReturnsKeeps DEF Inv, ClockTypes
      <3> QED
        BY <1>3, <2>1, <3>1, TimesInt
    <2>2. CASE c # i
      BY <1>1, <1>3, <2>2 DEF TimeInv, HeapFits, Fits
    <2> QED
      BY <2>1, <2>2
  <1>5. HeapFits' /\ HeapMoved' /\ HeapLate'
    BY <1>2, <1>4 DEF HeapFits, HeapMoved, HeapLate, Fits, InAdvance
  <1>6. \A c \in Cores : Base(c)' = Base(c)
    BY <1>2 DEF Base
  <1>7. TsAfter'
    BY <1>2, <1>6 DEF TimeInv, TsAfter, SentAfter
  <1> QED
    BY <1>5, <1>7 DEF TimeInv

\* SetNextSlice looks at the heap.
LEMMA StartSliceTimes ==
    ASSUME Inv, TimeInv, StartSlice, Inv'
    PROVE  TimeInv'
  <1>1. PICK i \in Cores : i = core
    BY DEF StartSlice
  <1>2. pc = "slice" /\ pc' = "run" /\ UNCHANGED <<executed_ticks, event_queue, ts_queue>>
    BY DEF StartSlice
  <1>3. PICK n \in SliceLengths(i, max_slice) :
          IsSlice(i, max_slice, n) /\ slice_length' = [slice_length EXCEPT ![i] = n]
    BY <1>1 DEF StartSlice, SetNextSlice
  <1>4. /\ slice_length'[i] = n /\ \A c \in Cores : c # i => slice_length'[c] = slice_length[c]
        /\ n \in Int
    BY <1>3 DEF Inv, ClockTypes
  <1>5. \A e \in event_queue[i] : e.time >= executed_ticks[i] + n
    BY <1>3, <1>4, TimesInt DEF IsSlice
  <1>6. \A c \in Cores : \A e \in event_queue[c] : e.time >= executed_ticks[c] + slice_length'[c]
    BY <1>2, <1>4, <1>5 DEF TimeInv, HeapFits, Fits, InAdvance
  <1>7. HeapFits' /\ HeapMoved' /\ HeapLate'
    BY <1>2, <1>6 DEF HeapFits, HeapMoved, HeapLate, Fits, InAdvance
  <1>8. \A c \in Cores : Base(c)' = Base(c)
    BY <1>2 DEF Base
  <1>9. TsAfter'
    BY <1>2, <1>8 DEF TimeInv, TsAfter, SentAfter
  <1> QED
    BY <1>7, <1>9 DEF TimeInv

\* A core's own event: the slice is cut so that it ends when the event is due.
LEMMA ScheduleOwnTimes ==
    ASSUME Inv, LagInv, TimeInv, NEW e \in EventIds, NEW d \in Delays, pc \in {"run", "callback"},
           ScheduleOwn(e, d), UNCHANGED <<pc, loopVars>>
    PROVE  TimeInv'
  <1>1. PICK i \in Cores : i = core /\ i = current_timer
    BY DEF Inv, AtCore, Advancing
  <1>2. PICK v : v = [id |-> e, time |-> GetTicks(i) + d, from |-> "own"]
    OBVIOUS
  <1>3. /\ event_queue'[i] = event_queue[i] \cup {v} /\ v.time = GetTicks(i) + d /\ v.from = "own"
        /\ \A c \in Cores : c # i => event_queue'[c] = event_queue[c]
        /\ core' = i /\ pc' = pc /\ d \in Nat
        /\ UNCHANGED <<executed_ticks, is_timer_sane, ts_queue>>
    BY <1>1, <1>2, LoopConstants DEF ScheduleOwn, loopVars, Inv, QueueTypes
  <1>4. \A c \in Cores : Base(c)' = Base(c)
    BY <1>3 DEF Base
  <1>5. TsAfter'
    BY <1>3, <1>4 DEF TimeInv, TsAfter, SentAfter
  <1>6. CASE pc = "callback"
    <2>1. is_timer_sane[i] /\ slice_length[i] = 0
      BY <1>1, <1>6 DEF Inv, Settled, TimeInv, HeapLate
    <2>2. slice_length' = slice_length
      BY <1>1, <2>1 DEF ScheduleOwn
    <2>3. executed_ticks[i] - v.time <= Tolerance(v.from)
      <3>1. GetTicks(i) = executed_ticks[i] /\ executed_ticks[i] \in Int
        BY <2>1, TimesInt DEF GetTicks
      <3>2. Tolerance(v.from) \in Int /\ Tolerance(v.from) >= MaxOvershoot /\ MaxOvershoot \in Nat
        BY <1>3, ToleranceBounds, Bounds
      <3> QED
        BY <1>3, <3>1, <3>2
    <2>4. HeapFits' /\ HeapMoved'
      BY <1>1, <1>3, <1>6, <2>2 DEF TimeInv, HeapFits, HeapMoved, Fits, InAdvance
    <2>5. HeapLate'
      BY <1>1, <1>3, <1>6, <2>1, <2>2, <2>3 DEF TimeInv, HeapLate
    <2> QED
      BY <1>5, <2>4, <2>5 DEF TimeInv
  <1>7. CASE pc = "run"
    <2>1. ~is_timer_sane[i] /\ ForceExceptionCheck(i, d)
      <3>1. ~is_timer_sane[i]
        BY <1>1, <1>7 DEF LagInv, CatchUpOK, RoundOK, Inv, LoopTypes
      <3> QED
        BY <1>1, <3>1 DEF ScheduleOwn
    <2>2. /\ slice_length'[i] \in Int /\ slice_length'[i] <= slice_length[i]
          /\ v.time >= executed_ticks[i] + slice_length'[i]
          /\ \A c \in Cores : c # i => slice_length'[c] = slice_length[c]
      <3>1. /\ executed_ticks[i] \in Int /\ slice_length[i] \in Int /\ downcount[i] \in Int
            /\ v.time = executed_ticks[i] + slice_length[i] - downcount[i] + d
        BY <1>3, <2>1, TimesInt DEF GetTicks
      <3>2. CASE downcount[i] > d
        <4>1. slice_length' = [slice_length EXCEPT ![i] = slice_length[i] - (downcount[i] - d)]
          BY <2>1, <3>2 DEF ForceExceptionCheck
        <4>2. /\ slice_length'[i] = slice_length[i] - (downcount[i] - d)
              /\ \A c \in Cores : c # i => slice_length'[c] = slice_length[c]
          BY <4>1 DEF Inv, ClockTypes
        <4> QED
          BY <1>3, <3>1, <3>2, <4>2
      <3>3. CASE ~(downcount[i] > d)
        <4>1. slice_length' = slice_length
          BY <2>1, <3>3 DEF ForceExceptionCheck
        <4> QED
          BY <1>3, <3>1, <3>3, <4>1
      <3> QED
        BY <3>2, <3>3
    <2>3. ASSUME NEW c \in Cores, NEW w \in event_queue'[c]
          PROVE  w.time >= executed_ticks[c] + slice_length'[c]
      <3>1. CASE c # i
        BY <1>3, <1>7, <2>2, <3>1 DEF TimeInv, HeapFits, Fits, InAdvance
      <3>2. CASE c = i /\ w = v
        BY <2>2, <3>2
      <3>3. CASE c = i /\ w # v
        <4>1. w \in event_queue[i]
          BY <1>3, <3>3
        <4>2. w.time >= executed_ticks[i] + slice_length[i]
          BY <1>7, <4>1 DEF TimeInv, HeapFits, Fits, InAdvance
        <4>3. w.time \in Int /\ executed_ticks[i] \in Int /\ slice_length[i] \in Int
          BY <4>1, TimesInt
        <4> QED
          BY <2>2, <3>3, <4>2, <4>3
      <3> QED
        BY <3>1, <3>2, <3>3
    <2>4. HeapFits' /\ HeapMoved' /\ HeapLate'
      BY <1>3, <1>7, <2>3 DEF HeapFits, HeapMoved, HeapLate, Fits, InAdvance
    <2> QED
      BY <1>5, <2>4 DEF TimeInv
  <1> QED
    BY <1>6, <1>7

\* An event is left in ts_queue.
LEMMA SendTimes ==
    ASSUME Inv, TimeInv, NEW c \in Cores, NEW v, SentAfter(v, Base(c)),
           ts_queue' = [ts_queue EXCEPT ![c] = @ \cup {v}],
           UNCHANGED <<clockVars, event_queue, pc, loopVars>>
    PROVE  TimeInv'
  <1>1. \A k \in Cores : Base(k)' = Base(k)
    BY DEF Base, GetTicks, clockVars, loopVars
  <1>2. \A k \in Cores : \A w \in ts_queue'[k] : w \in ts_queue[k] \/ (k = c /\ w = v)
    BY DEF Inv, QueueTypes
  <1>3. TsAfter'
    BY <1>1, <1>2 DEF TimeInv, TsAfter, SentAfter
  <1>4. HeapFits' /\ HeapMoved' /\ HeapLate'
    BY DEF TimeInv, HeapFits, HeapMoved, HeapLate, Fits, SentAfter, InAdvance, clockVars, loopVars
  <1> QED
    BY <1>3, <1>4 DEF TimeInv

\* Another core's event.
LEMMA ScheduleOtherTimes ==
    ASSUME Inv, TimeInv, NEW e \in EventIds, NEW d \in Delays, NEW c \in Cores,
           pc \in {"run", "callback"}, ScheduleOther(c, e, d), UNCHANGED <<pc, loopVars>>
    PROVE  TimeInv'
  <1>1. PICK v : v = [id |-> e, time |-> GetTicks(c) + d, from |-> "other"]
    OBVIOUS
  <1>2. Base(c) = executed_ticks[c] /\ d \in Nat
    BY LoopConstants DEF Base
  <1>3. v.from = "other" /\ v.time >= Base(c)
    BY <1>1, <1>2, TimesInt
  <1>4. SentAfter(v, Base(c))
    BY <1>3 DEF SentAfter
  <1> QED
    BY <1>1, <1>4, SendTimes DEF ScheduleOther

\* A host thread's event: whatever it reads of the clock is at most a slice behind.
LEMMA HostScheduleTimes ==
    ASSUME Inv, LagInv, TimeInv, NEW e \in EventIds, NEW d \in Delays, NEW c \in Cores,
           HostSchedule(c, e, d)
    PROVE  TimeInv'
  <1>1. PICK ticks \in TicksRead(c) : ScheduleHost(c, e, d, ticks)
    BY DEF HostSchedule
  <1>2. PICK v : v = [id |-> e, time |-> ticks + HostDelay(d), from |-> "host"]
    OBVIOUS
  <1>3. /\ executed_ticks[c] \in Int /\ slice_length[c] \in Int /\ downcount[c] \in Int
        /\ slice_length[c] - downcount[c] >= 0
        /\ GetTicks(c) \in Int /\ GetTicks(c) >= executed_ticks[c]
        /\ slice_length[c] <= MaxLag /\ MaxLag \in Nat /\ MAX_SLICE_LENGTH \in Nat
    BY TimesInt, Bounds DEF LagInv, SlicesShort
  <1>4. ticks \in Int /\ ticks >= GetTicks(c) - MaxLag
    BY <1>3 DEF TicksRead
  <1>5. HostDelay(d) \in Int /\ HostDelay(d) >= 2 * MAX_SLICE_LENGTH
    BY <1>3, LoopConstants DEF HostDelay, AtLeast
  <1>6. Base(c) \in Int /\ Base(c) <= GetTicks(c)
    BY <1>3 DEF Base
  <1>7. v.from = "host" /\ v.time >= Base(c) + 2 * MAX_SLICE_LENGTH - MaxLag
    BY <1>2, <1>3, <1>4, <1>5, <1>6
  <1>8. SentAfter(v, Base(c))
    BY <1>7 DEF SentAfter
  <1> QED
    BY <1>1, <1>2, <1>8, SendTimes DEF ScheduleHost, HostSchedule

\* Every step keeps the times of the events.
LEMMA NextTimes == Inv /\ LagInv /\ TimeInv /\ [Next]_vars => TimeInv'
  <1> SUFFICES ASSUME Inv, LagInv, TimeInv, [Next]_vars PROVE TimeInv'
    OBVIOUS
  <1>1. Inv'
    BY NextKeeps
  <1>2. CASE Begin \/ SyncSkip \/ SyncAdvance \/ SyncEnd \/ SlicesEnd \/ RunEnds
    <2>1. ~InAdvance /\ ~InAdvance' /\ UNCHANGED <<clockVars, event_queue, ts_queue>>
      BY <1>2
      DEF Begin, SyncSkip, SyncAdvance, SyncEnd, SlicesEnd, RunEnds, InAdvance, timingVars
    <2> QED
      BY <2>1, OutsideTimes DEF clockVars
  <1>3. CASE Idle \/ \E n \in 1 .. MAX_SLICE_LENGTH + MaxOvershoot : Execute(n)
    <2>1. /\ ~InAdvance /\ ~InAdvance'
          /\ UNCHANGED <<executed_ticks, slice_length, event_queue, ts_queue>>
      BY <1>3 DEF Idle, Execute, InAdvance
    <2> QED
      BY <2>1, OutsideTimes
  <1>4. CASE AdvanceMoves \/ AdvanceSettles \/ AdvanceReturns \/ StartSlice
    BY <1>1, <1>4, MoveTimes, SettleTimes, ReturnTimes, StartSliceTimes
  <1>5. CASE AdvanceFires
    <2>1. pc = "fire" /\ pc' = "callback" /\ UNCHANGED <<clockVars, core, ts_queue>>
      BY <1>5 DEF AdvanceFires, loopVars
    <2>2. \A c \in Cores : event_queue'[c] \subseteq event_queue[c]
      BY <1>5 DEF AdvanceFires, Inv, QueueTypes
    <2> QED
      BY <2>1, <2>2, InPlaceTimes
  <1>6. CASE CallbackReturns
    BY <1>6, InPlaceTimes DEF CallbackReturns, timingVars, loopVars
  <1>7. CASE \E e \in EventIds, d \in Delays : Schedule(e, d)
    <2>1. PICK e \in EventIds, d \in Delays : Schedule(e, d)
      BY <1>7
    <2>2. CASE ScheduleOwn(e, d)
      BY <2>1, <2>2, ScheduleOwnTimes DEF Schedule
    <2>3. CASE \E c \in Cores : ScheduleOther(c, e, d)
      BY <2>1, <2>3, ScheduleOtherTimes DEF Schedule
    <2> QED
      BY <2>1, <2>2, <2>3 DEF Schedule
  <1>8. CASE \E e \in EventIds : Unschedule(e)
    <2>1. UNCHANGED <<clockVars, core, pc, ts_queue>>
      BY <1>8 DEF Unschedule, UnscheduleEvent, loopVars
    <2>2. \A c \in Cores : event_queue'[c] \subseteq event_queue[c]
      BY <1>8 DEF Unschedule, UnscheduleEvent
    <2> QED
      BY <2>1, <2>2, InPlaceTimes
  <1>9. CASE \E c \in Cores, e \in EventIds, d \in Delays : HostSchedule(c, e, d)
    BY <1>9, HostScheduleTimes
  <1>10. CASE UNCHANGED vars
    BY <1>10, InPlaceTimes DEF vars, timingVars, loopVars
  <1> QED
    BY <1>2, <1>3, <1>4, <1>5, <1>6, <1>7, <1>8, <1>9, <1>10 DEF Next, LoopStep

(***************************************************************************)
(* Events are punctual, for any number of cores and events, any delays,    *)
(* slices and overshoot: a core's own event fires at most an overshoot     *)
(* late, another core's at most the longest run late, and a host thread's  *)
(* at most by what the two slices it is put off do not cover, although the *)
(* clock it is added to is read without a lock.                            *)
(***************************************************************************)
THEOREM EventsArePunctual == Spec => []Punctual
  <1>1. TimeInv => Punctual
    BY DEF TimeInv, HeapLate, Punctual, Due
  <1>2. Inv /\ LagInv /\ TimeInv /\ [Next]_vars => Inv' /\ LagInv' /\ TimeInv'
    BY NextKeeps, NextLag, NextTimes
  <1> QED
    BY <1>1, <1>2, InitInv, InitLag, InitTimes, PTL DEF Spec
=============================================================================
