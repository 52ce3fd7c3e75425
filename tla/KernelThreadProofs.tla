------------------------- MODULE KernelThreadProofs -------------------------
(***************************************************************************)
(* Wakeups, termination, priorities and the address arbiter: what holds of *)
(* the threads of KernelSync on top of KernelSyncProofs' invariant Inv.    *)
(***************************************************************************)
EXTENDS KernelSyncProofs

USE DEF priorityVars, mutexVars, signalVars, waitVars, arbiterVars, processVars, coreVars

(***************************************************************************)
(* No lost wakeup.  While the waiters of k.object are woken it counts as   *)
(* unavailable: the wake loop goes on until none of them is ready to run.  *)
(* The thread being served is past its wait.                               *)
(***************************************************************************)
Served(t) == k.pc \in {"acquire", "remove"} /\ t = k.thread
Blocks(o, t) == ShouldWait(o, t) \/ o = k.object

WakeupsOK ==
    \A t \in Threads : ~Served(t) =>
        /\ status[t] = "WaitSynchAny" =>
             \A o \in WaitObjects : IsIn(o, wait_objects[t]) => Blocks(o, t)
        /\ status[t] = "WaitSynchAll" =>
             \E o \in WaitObjects : IsIn(o, wait_objects[t]) /\ Blocks(o, t)

\* Nothing a thread waits for becomes available but the object to wake.
Monotone ==
    \A o \in WaitObjects, t \in Threads :
        ShouldWait(o, t) => ShouldWait(o, t)' \/ o = k'.object

\* A step that makes nothing else available and moves no other sleeper.
LEMMA WakeupsStep ==
    ASSUME WakeupsOK, Monotone, k.object = None \/ k'.object = k.object,
           \A t \in Threads : status'[t] \in WaitSynch /\ ~Served(t)' =>
               status'[t] = status[t] /\ wait_objects'[t] = wait_objects[t] /\ ~Served(t)
    PROVE  WakeupsOK'
<1>0. None \notin WaitObjects
  BY KernelConstants
<1>1. ASSUME NEW o \in WaitObjects, NEW t \in Threads, Blocks(o, t) PROVE Blocks(o, t)'
  BY <1>0, <1>1 DEF Blocks, Monotone
<1>2. ASSUME NEW t \in Threads, ~Served(t)', status'[t] = "WaitSynchAny",
             NEW o \in WaitObjects, IsIn(o, wait_objects[t])'
      PROVE  Blocks(o, t)'
  <2>1. status[t] = "WaitSynchAny" /\ wait_objects'[t] = wait_objects[t] /\ ~Served(t)
    BY <1>2 DEF WaitSynch
  <2>2. IsIn(o, wait_objects[t])
    BY <1>2, <2>1 DEF IsIn
  <2> QED
    BY <1>1, <2>1, <2>2 DEF WakeupsOK
<1>3. ASSUME NEW t \in Threads, ~Served(t)', status'[t] = "WaitSynchAll"
      PROVE  \E o \in WaitObjects : IsIn(o, wait_objects[t])' /\ Blocks(o, t)'
  <2>1. status[t] = "WaitSynchAll" /\ wait_objects'[t] = wait_objects[t] /\ ~Served(t)
    BY <1>3 DEF WaitSynch
  <2>2. PICK o \in WaitObjects : IsIn(o, wait_objects[t]) /\ Blocks(o, t)
    BY <2>1 DEF WakeupsOK
  <2>3. IsIn(o, wait_objects[t])'
    BY <2>1, <2>2 DEF IsIn
  <2> QED
    BY <1>1, <2>2, <2>3
<1> QED
  BY <1>2, <1>3 DEF WakeupsOK

\* A step that makes no object available, but for a thread that stops.
LEMMA NothingAvailable ==
    ASSUME UNCHANGED <<lock_count, holding_thread, signaled, available_count>>,
           \A t \in Threads : status'[t] = "Dead" => status[t] = "Dead" \/ t = k'.object
    PROVE  Monotone
BY DEF Monotone, ShouldWait, ThreadShouldWait, MutexShouldWait, SignalShouldWait,
       SemaphoreShouldWait

\* A signal, a semaphore, a timer or a mutex becomes available to be woken for.
LEMMA OneAvailable ==
    ASSUME NEW o, k'.object = o, UNCHANGED status,
           \A e \in Signals : e # o /\ ~signaled[e] => ~signaled'[e],
           \A s \in Semaphores : s # o => available_count'[s] = available_count[s],
           \A m \in Mutexes : m # o => lock_count'[m] = lock_count[m]
                                       /\ holding_thread'[m] = holding_thread[m]
    PROVE  Monotone
BY DEF Monotone, ShouldWait, ThreadShouldWait, MutexShouldWait, SignalShouldWait,
       SemaphoreShouldWait

\* Whoever goes to sleep has found its objects unavailable.
LEMMA SleepOnWakeups ==
    ASSUME Inv, WakeupsOK, NEW c \in Cores, NEW t \in Threads, Executes(c, t),
           NEW objs \in Seq(WaitObjects), NEW mode \in WaitSynch, NEW timeout,
           SleepOn(c, t, objs, mode, timeout),
           mode = "WaitSynchAny" => \A i \in 1 .. Len(objs) : ShouldWait(objs[i], t),
           mode = "WaitSynchAll" => \E i \in 1 .. Len(objs) : ShouldWait(objs[i], t)
    PROVE  WakeupsOK'
<1>0. k.pc = "user" /\ k.object = None
  BY CallerFacts
<1>1. k'.pc = "add" /\ k'.object = None
  BY DEF SleepOn, UserMode
<1>2. /\ \A u \in Threads : status'[u] = IF u = t THEN mode ELSE status[u]
      /\ \A u \in Threads : wait_objects'[u] = IF u = t THEN objs ELSE wait_objects[u]
      /\ mode # "Dead"
  BY DEF SleepOn, Inv, TypeOK, WaitSynch
<1>3. Monotone
  BY <1>2, NothingAvailable DEF SleepOn
<1>4. None \notin WaitObjects
  BY KernelConstants
<1>5. ASSUME NEW u \in Threads
      PROVE  /\ status'[u] = "WaitSynchAny" =>
                  \A o \in WaitObjects : IsIn(o, wait_objects[u])' => ShouldWait(o, u)'
             /\ status'[u] = "WaitSynchAll" =>
                  \E o \in WaitObjects : IsIn(o, wait_objects[u])' /\ ShouldWait(o, u)'
  <2>1. CASE u = t
    <3>1. status'[u] = mode /\ wait_objects'[u] = objs
      BY <1>2, <2>1
    <3>2. \A i \in 1 .. Len(objs) : objs[i] \in WaitObjects
      OBVIOUS
    <3>3. \A i \in 1 .. Len(objs) : ShouldWait(objs[i], u) => ShouldWait(objs[i], u)'
      BY <1>1, <1>3, <1>4, <3>2 DEF Monotone
    <3>4. \A i \in 1 .. Len(objs) : IsIn(objs[i], wait_objects[u])'
      BY <3>1 DEF IsIn
    <3>5. \A o \in WaitObjects : IsIn(o, wait_objects[u])' => \E i \in 1 .. Len(objs) : objs[i] = o
      BY <3>1 DEF IsIn
    <3>6. CASE mode = "WaitSynchAny"
      BY <2>1, <3>1, <3>3, <3>5, <3>6
    <3>7. CASE mode = "WaitSynchAll"
      BY <2>1, <3>1, <3>2, <3>3, <3>4, <3>7
    <3> QED
      BY <3>6, <3>7 DEF WaitSynch
  <2>2. CASE u # t
    <3>1. status'[u] = status[u] /\ wait_objects'[u] = wait_objects[u]
      BY <1>2, <2>2
    <3>2. \A o : IsIn(o, wait_objects[u])' <=> IsIn(o, wait_objects[u])
      BY <3>1 DEF IsIn
    <3>3. \A o \in WaitObjects : Blocks(o, u) => ShouldWait(o, u)'
      BY <1>0, <1>1, <1>3, <1>4 DEF Blocks, Monotone
    <3> QED
      BY <1>0, <3>1, <3>2, <3>3 DEF WakeupsOK, Served
  <2> QED
    BY <2>1, <2>2
<1> QED
  BY <1>5 DEF WakeupsOK, Blocks

\* A step after which only threads that are awake have changed.
LEMMA QuietWakeups ==
    ASSUME WakeupsOK,
           UNCHANGED <<lock_count, holding_thread, signaled, available_count, wait_objects>>,
           \A t \in Threads : \/ status'[t] = status[t]
                              \/ status'[t] \in {"Running", "Ready", "WaitArb", "WaitSleep"},
           k.object = None \/ k'.object = k.object,
           k.pc \in {"acquire", "remove"} => k'.pc \in {"acquire", "remove"} /\ k'.thread = k.thread
    PROVE  WakeupsOK'
<1>1. Monotone
  BY NothingAvailable
<1>2. \A t \in Threads : status'[t] \in WaitSynch /\ ~Served(t)' =>
         status'[t] = status[t] /\ wait_objects'[t] = wait_objects[t] /\ ~Served(t)
  BY DEF WaitSynch, Served
<1> QED
  BY <1>1, <1>2, WakeupsStep

\* Outside of the wake loop no object is excepted.
LEMMA OutsideWakeLoop ==
    ASSUME Inv, k.pc \notin {"wake", "acquire", "remove"} PROVE k.object = None
BY DEF Inv, TypeOK, KernelState, Loops, ControlOK

\* Such a step between calls or in a loop that wakes nobody.
LEMMA QuietCallWakeups ==
    ASSUME Inv, WakeupsOK, k.pc \notin {"wake", "acquire", "remove"},
           UNCHANGED <<lock_count, holding_thread, signaled, available_count, wait_objects>>,
           \A t \in Threads : \/ status'[t] = status[t]
                              \/ status'[t] \in {"Running", "Ready", "WaitArb", "WaitSleep"}
    PROVE  WakeupsOK'
BY OutsideWakeLoop, QuietWakeups

\* The waiting calls.
LEMMA WaitCallWakeups ==
    ASSUME Inv, WakeupsOK, NEW c \in Cores, NEW t \in Threads
    PROVE  /\ \A o \in WaitTargets[t], to \in Timeouts : WaitSynchronization1(c, t, o, to) => WakeupsOK'
           /\ \A objs \in WaitLists[t], all \in BOOLEAN, to \in Timeouts :
                WaitSynchronizationN(c, t, objs, all, to) => WakeupsOK'
<1>1. ASSUME NEW objs, AcquireNow(c, t, objs), Executes(c, t) PROVE WakeupsOK'
  BY <1>1, QuietCallWakeups DEF AcquireNow, Executes, Idle
<1>2. ASSUME NEW o \in WaitTargets[t], NEW to \in Timeouts, WaitSynchronization1(c, t, o, to)
      PROVE  WakeupsOK'
  <2>1. <<o>> \in Seq(WaitObjects) /\ Executes(c, t) /\ "WaitSynchAny" \in WaitSynch
    BY <1>2, CallConstants DEF WaitSynchronization1, WaitSynch
  <2>2. CASE ShouldWait(o, t) /\ SleepOn(c, t, <<o>>, "WaitSynchAny", to)
    <3>1. \A i \in 1 .. Len(<<o>>) : ShouldWait(<<o>>[i], t)
      BY <2>2
    <3> QED
      BY <2>1, <2>2, <3>1, SleepOnWakeups
  <2>3. CASE AcquireNow(c, t, <<o>>)
    BY <1>1, <2>1, <2>3
  <2> QED
    BY <1>2, <2>2, <2>3 DEF WaitSynchronization1
<1>3. ASSUME NEW objs \in WaitLists[t], NEW all \in BOOLEAN, NEW to \in Timeouts,
             WaitSynchronizationN(c, t, objs, all, to)
      PROVE  WakeupsOK'
  <2>1. objs \in Seq(WaitObjects) /\ "WaitSynchAny" \in WaitSynch /\ "WaitSynchAll" \in WaitSynch
    BY CallConstants DEF WaitSynch
  <2>2. Executes(c, t)
    BY <1>3 DEF WaitSynchronizationN
  <2>3. CASE /\ \E i \in 1 .. Len(objs) : ShouldWait(objs[i], t)
             /\ SleepOn(c, t, objs, "WaitSynchAll", to)
    BY <2>1, <2>2, <2>3, SleepOnWakeups
  <2>4. CASE /\ \A i \in 1 .. Len(objs) : ShouldWait(objs[i], t)
             /\ SleepOn(c, t, objs, "WaitSynchAny", to)
    BY <2>1, <2>2, <2>4, SleepOnWakeups
  <2>5. CASE \E os : AcquireNow(c, t, os)
    BY <1>1, <2>2, <2>5
  <2> QED
    BY <1>3, <2>3, <2>4, <2>5 DEF WaitSynchronizationN
<1> QED
  BY <1>2, <1>3

\* Wakes(c, o) after o alone has become available.
LEMMA WakingCallWakeups ==
    ASSUME Inv, WakeupsOK, Idle, NEW c \in Cores, NEW o, Wakes(c, o), UNCHANGED <<status, wait_objects>>,
           \A e \in Signals : e # o /\ ~signaled[e] => ~signaled'[e],
           \A s \in Semaphores : s # o => available_count'[s] = available_count[s],
           \A m \in Mutexes : m # o => lock_count'[m] = lock_count[m]
                                       /\ holding_thread'[m] = holding_thread[m]
    PROVE  WakeupsOK'
<1>1. k'.object = o /\ k'.pc = "wake" /\ k.pc = "user" /\ k.object = None
  BY OutsideWakeLoop DEF Wakes, UserMode, Idle
<1>2. Monotone
  BY <1>1, OneAvailable
<1>3. \A t \in Threads : ~Served(t)
  BY <1>1 DEF Served
<1> QED
  BY <1>1, <1>2, <1>3, WakeupsStep

\* The calls and the timing event that signal wake for what they signal.
LEMMA SignalWakeups ==
    ASSUME Inv, WakeupsOK, NEW c \in Cores
    PROVE  /\ \A t \in Threads, e \in Events : SignalEvent(c, t, e) => WakeupsOK'
           /\ \A t \in Threads, s \in Semaphores, n \in ReleaseCounts :
                ReleaseSemaphore(c, t, s, n) => WakeupsOK'
           /\ \A t \in Threads, tm \in Timers, immediate, repeat \in BOOLEAN :
                SetTimer(c, t, tm, immediate, repeat) => WakeupsOK'
           /\ \A tm \in Timers : TimerCallback(c, tm) => WakeupsOK'
           /\ \A t \in Threads, e \in Signals : ClearSignal(c, t, e) => WakeupsOK'
<1>0. signaled \in [Signals -> BOOLEAN] /\ available_count \in [Semaphores -> Int32]
  BY DEF Inv, TypeOK
<1>1. ASSUME NEW t \in Threads, NEW e \in Events, SignalEvent(c, t, e) PROVE WakeupsOK'
  <2>1. \A f \in Signals : f # e /\ ~signaled[f] => ~signaled'[f]
    BY <1>0, <1>1 DEF SignalEvent
  <2> QED
    BY <1>1, <2>1, WakingCallWakeups DEF SignalEvent, Executes
<1>2. ASSUME NEW t \in Threads, NEW s \in Semaphores, NEW n \in ReleaseCounts,
             ReleaseSemaphore(c, t, s, n)
      PROVE  WakeupsOK'
  <2>1. \A u \in Semaphores : u # s => available_count'[u] = available_count[u]
    BY <1>0, <1>2 DEF ReleaseSemaphore
  <2> QED
    BY <1>2, <2>1, WakingCallWakeups DEF ReleaseSemaphore, Executes
<1>3. ASSUME NEW t \in Threads, NEW tm \in Timers, NEW immediate \in BOOLEAN,
             NEW repeat \in BOOLEAN, SetTimer(c, t, tm, immediate, repeat)
      PROVE  WakeupsOK'
  <2>1. CASE immediate
    <3>1. Wakes(c, tm) /\ \A f \in Signals : f # tm /\ ~signaled[f] => ~signaled'[f]
      BY <1>0, <1>3, <2>1 DEF SetTimer
    <3> QED
      BY <1>3, <3>1, WakingCallWakeups DEF SetTimer, Executes
  <2>2. CASE ~immediate
    BY <1>3, <2>2, QuietCallWakeups DEF SetTimer, Executes, Idle
  <2> QED
    BY <2>1, <2>2
<1>4. ASSUME NEW tm \in Timers, TimerCallback(c, tm) PROVE WakeupsOK'
  <2>1. \A f \in Signals : f # tm /\ ~signaled[f] => ~signaled'[f]
    BY <1>0, <1>4 DEF TimerCallback
  <2> QED
    BY <1>4, <2>1, WakingCallWakeups DEF TimerCallback
<1>5. ASSUME NEW t \in Threads, NEW e \in Signals, ClearSignal(c, t, e) PROVE WakeupsOK'
  <2>1. /\ \A f \in Signals : ~signaled[f] => ~signaled'[f]
        /\ UNCHANGED <<status, wait_objects, available_count, lock_count, holding_thread, k>>
        /\ k.pc = "user" /\ k.object = None
    BY <1>0, <1>5, OutsideWakeLoop DEF ClearSignal, Executes, Idle
  <2>2. Monotone
    BY <2>1, OneAvailable
  <2> QED
    BY <2>1, <2>2, WakeupsStep DEF Served
<1> QED
  BY <1>1, <1>2, <1>3, <1>4, <1>5

\* ReleaseMutex wakes for the mutex it frees.
LEMMA ReleaseMutexWakeups ==
    ASSUME Inv, WakeupsOK, NEW c \in Cores, NEW t \in Threads, NEW m \in Mutexes, ReleaseMutex(c, t, m)
    PROVE  WakeupsOK'
<1>1. /\ lock_count \in [Mutexes -> Nat] /\ holding_thread \in [Mutexes -> Threads \cup {None}]
      /\ lock_count[m] > 0 /\ lock_count' = [lock_count EXCEPT ![m] = @ - 1]
      /\ UNCHANGED <<status, wait_objects, signaled, available_count>>
      /\ Idle /\ k.pc = "user" /\ k.object = None
  BY OutsideWakeLoop DEF Inv, TypeOK, ReleaseMutex, MayRelease, Executes, Idle
<1>2. CASE lock_count[m] = 1
  <2>1. holding_thread' = [holding_thread EXCEPT ![m] = None] /\ Wakes(c, m)
    BY <1>2 DEF ReleaseMutex, WithHolder
  <2>2. \A n \in Mutexes : n # m => lock_count'[n] = lock_count[n]
                                    /\ holding_thread'[n] = holding_thread[n]
    BY <1>1, <2>1
  <2> QED
    BY <1>1, <2>1, <2>2, WakingCallWakeups
<1>3. CASE lock_count[m] # 1
  <2>1. UNCHANGED <<holding_thread, k>>
    BY <1>3 DEF ReleaseMutex
  <2>2. \A n \in Mutexes : lock_count[n] > 0 => lock_count'[n] > 0
    BY <1>1, <1>3
  <2>3. Monotone
    BY <1>1, <2>1, <2>2
       DEF Monotone, ShouldWait, ThreadShouldWait, MutexShouldWait, SignalShouldWait,
           SemaphoreShouldWait
  <2> QED
    BY <1>1, <2>1, <2>3, WakeupsStep DEF Served
<1> QED
  BY <1>2, <1>3

\* Thread::Stop makes the stopped thread available to those that joined it.
LEMMA StopWakeups ==
    ASSUME Inv, WakeupsOK, k.pc \in {"user", "terminate"}, NEW t \in Threads,
           NEW kept \in KernelState, Stop(t, kept)
    PROVE  WakeupsOK'
<1>1. k'.object = t /\ k.object = None
  BY OutsideWakeLoop DEF Stop, KernelState
<1>2. \A u \in Threads : status'[u] = IF u = t THEN "Dead" ELSE status[u]
  BY DEF Stop, Inv, TypeOK
<1>3. Monotone
  BY <1>1, <1>2, NothingAvailable DEF Stop
<1>4. \A u \in Threads : status'[u] \in WaitSynch => status'[u] = status[u]
  BY <1>2 DEF WaitSynch
<1> QED
  BY <1>1, <1>3, <1>4, WakeupsStep DEF Served, Stop

\* Every system call.
LEMMA SystemCallWakeups ==
    ASSUME Inv, WakeupsOK, NEW c \in Cores, NEW t \in Threads, SystemCall(c, t)
    PROVE  WakeupsOK'
<1>0. k.pc = "user" /\ status \in [Threads -> Statuses]
  BY DEF Inv, TypeOK, SystemCall, WaitSynchronization1, WaitSynchronizationN, SignalEvent,
         ClearSignal, ReleaseSemaphore, ReleaseMutex, SetTimer, CancelTimer, SleepThread,
         ArbitrateWait, ArbitratePass, ArbitrateSignal, Store, CreateThread, SetThreadPriority,
         ExitThread, TerminateProcess, Executes, Idle
<1>1. CASE \/ \E o \in WaitTargets[t], to \in Timeouts : WaitSynchronization1(c, t, o, to)
           \/ \E objs \in WaitLists[t], all \in BOOLEAN, to \in Timeouts :
                WaitSynchronizationN(c, t, objs, all, to)
  BY <1>1, WaitCallWakeups
<1>2. CASE \/ \E e \in Events : SignalEvent(c, t, e)
           \/ \E e \in Signals : ClearSignal(c, t, e)
           \/ \E s \in Semaphores, n \in ReleaseCounts : ReleaseSemaphore(c, t, s, n)
           \/ \E tm \in Timers, immediate, repeat \in BOOLEAN : SetTimer(c, t, tm, immediate, repeat)
  BY <1>2, SignalWakeups
<1>3. CASE \E m \in Mutexes : ReleaseMutex(c, t, m)
  BY <1>3, ReleaseMutexWakeups
<1>4. CASE \E tm \in Timers : CancelTimer(c, t, tm)
  BY <1>0, <1>4, QuietCallWakeups DEF CancelTimer
<1>5. CASE \E to \in Timeouts : SleepThread(c, t, to)
  <2>1. \A u \in Threads : status'[u] = status[u] \/ status'[u] = "WaitSleep"
    BY <1>0, <1>5 DEF SleepThread
  <2> QED
    BY <1>0, <1>5, <2>1, QuietCallWakeups DEF SleepThread
<1>6. CASE \E a \in Addresses, v \in MemoryValues, dec \in BOOLEAN, to \in Timeouts \cup {"none"} :
             ArbitrateWait(c, t, a, v, dec, to)
  <2>1. \A u \in Threads : status'[u] = status[u] \/ status'[u] = "WaitArb"
    BY <1>0, <1>6 DEF ArbitrateWait
  <2> QED
    BY <1>0, <1>6, <2>1, QuietCallWakeups DEF ArbitrateWait
<1>7. CASE \E a \in Addresses, v \in MemoryValues :
             ArbitratePass(c, t, a, v) \/ ArbitrateSignal(c, t, a, v) \/ Store(c, t, a, v)
  BY <1>0, <1>7, QuietCallWakeups DEF ArbitratePass, ArbitrateSignal, Store
<1>8. CASE \E new \in Threads, p \in NewPriorities : CreateThread(c, t, new, p)
  <2>1. \A u \in Threads : status'[u] = status[u] \/ status'[u] = "Ready"
    BY <1>0, <1>8 DEF CreateThread
  <2> QED
    BY <1>0, <1>8, <2>1, QuietCallWakeups DEF CreateThread
<1>9. CASE \E u \in Threads, p \in NewPriorities : SetThreadPriority(c, t, u, p)
  BY <1>0, <1>9, QuietCallWakeups DEF SetThreadPriority
<1>10. CASE ExitThread(c, t)
  BY <1>0, <1>10, StopWakeups, UserModeType DEF ExitThread
<1>11. CASE \E p \in Terminated : TerminateProcess(c, t, p)
  BY <1>0, <1>11, QuietCallWakeups DEF TerminateProcess, Abort
<1> QED
  BY <1>1, <1>2, <1>3, <1>4, <1>5, <1>6, <1>7, <1>8, <1>9, <1>10, <1>11 DEF SystemCall

\* A failing ASSERT changes nothing.
LEMMA AbortWakeups ==
    ASSUME WakeupsOK, NEW message, Abort(message) PROVE WakeupsOK'
BY QuietWakeups DEF Abort

\* Acquiring a mutex frees no mutex and takes none from its holder.
LEMMA AcquireKeepsTaken ==
    ASSUME NEW x \in Mutexes, NEW t, AcquireMutex(x, t),
           lock_count \in [Mutexes -> Nat], holding_thread \in [Mutexes -> Threads \cup {None}]
    PROVE  \A m \in Mutexes : lock_count[m] > 0 =>
              lock_count'[m] > 0 /\ holding_thread'[m] = holding_thread[m]
<1>1. CASE lock_count[x] = 0
  <2>1. lock_count' = [lock_count EXCEPT ![x] = 1] /\ holding_thread' = [holding_thread EXCEPT ![x] = t]
    BY <1>1 DEF AcquireMutex, WithHolder
  <2> QED
    BY <1>1, <2>1
<1>2. CASE lock_count[x] # 0
  <2>1. lock_count' = [lock_count EXCEPT ![x] = @ + 1] /\ holding_thread' = holding_thread
    BY <1>2 DEF AcquireMutex
  <2> QED
    BY <1>2, <2>1
<1> QED
  BY <1>1, <1>2

\* Taking an object makes none available.
LEMMA AcquireWakeups ==
    ASSUME Inv, WakeupsOK, AcquireNext PROVE WakeupsOK'
<1>0. k \in KernelState /\ k.pc = "acquire" /\ k.rest \in Seq(WaitObjects)
  BY DEF AcquireNext, Inv, TypeOK, KernelState
<1>1. CASE Abort("object unavailable!")
  BY <1>1, AbortWakeups
<1>2. CASE /\ k.rest # << >>
           /\ IF Head(k.rest) \in Mutexes
              THEN /\ AcquireMutex(Head(k.rest), k.thread)
                   /\ UNCHANGED <<signaled, available_count>>
              ELSE /\ AcquireOther(Head(k.rest))
                   /\ UNCHANGED <<mutexVars, priorityVars, halted>>
           /\ k' = [k EXCEPT !.rest = Tail(@)]
           /\ UNCHANGED <<status, timer_events, periodic, waitVars, arbiterVars,
                          processVars, current_thread, failed>>
  <2>1. k'.pc = "acquire" /\ k'.object = k.object /\ k'.thread = k.thread
    BY <1>0, <1>2 DEF KernelState
  <2>2. /\ signaled \in [Signals -> BOOLEAN] /\ available_count \in [Semaphores -> Int32]
        /\ lock_count \in [Mutexes -> Nat] /\ holding_thread \in [Mutexes -> Threads \cup {None}]
    BY DEF Inv, TypeOK
  <2>3. \A e \in Signals : ~signaled[e] => ~signaled'[e]
    BY <1>2, <2>2 DEF AcquireOther, AcquireSignal
  <2>4. \A s \in Semaphores : available_count[s] <= 0 => available_count'[s] <= 0
    BY <1>2, <2>2 DEF AcquireOther, AcquireSemaphore
  <2>5. \A m \in Mutexes : lock_count[m] > 0 =>
           lock_count'[m] > 0 /\ holding_thread'[m] = holding_thread[m]
    <3>1. CASE Head(k.rest) \in Mutexes
      BY <1>2, <2>2, <3>1, AcquireKeepsTaken
    <3>2. CASE Head(k.rest) \notin Mutexes
      BY <1>2, <3>2
    <3> QED
      BY <3>1, <3>2
  <2>6. Monotone
    BY <1>2, <2>3, <2>4, <2>5
       DEF Monotone, ShouldWait, ThreadShouldWait, MutexShouldWait, SignalShouldWait,
           SemaphoreShouldWait
  <2> QED
    BY <1>0, <1>2, <2>1, <2>6, WakeupsStep DEF Served
<1>3. CASE /\ k.rest = << >>
           /\ IF k.object = None THEN ReturnToUser
              ELSE k' = [k EXCEPT !.pc = "remove", !.rest = wait_objects[k.thread]]
           /\ UNCHANGED <<status, priorityVars, mutexVars, signalVars, waitVars,
                          arbiterVars, processVars, coreVars, failed>>
  <2>1. CASE k.object = None
    <3>1. status[k.thread] \notin WaitSynch
      BY <1>0, <2>1 DEF Inv, SubjectOK, WaitSynch
    <3>2. Monotone
      BY <1>3, NothingAvailable
    <3> QED
      BY <1>3, <2>1, <3>1, <3>2, WakeupsStep DEF Served
  <2>2. CASE k.object # None
    <3>1. k'.pc = "remove" /\ k'.object = k.object /\ k'.thread = k.thread
      BY <1>0, <1>3, <2>2 DEF KernelState
    <3> QED
      BY <1>3, <3>1, QuietWakeups
  <2> QED
    BY <2>1, <2>2
<1> QED
  BY <1>1, <1>2, <1>3 DEF AcquireNext

\* The wake loop ends when no waiter of the object is ready to run: then the
\* object itself, or another one of a wait for all, keeps each of them waiting.
LEMMA WakeDoneWakeups ==
    ASSUME Inv, WakeupsOK, k.pc = "wake", WaitersConsistent(k.object),
           \A t \in Waiters(k.object) : ~ReadyToRun(k.object, t), WakeDone
    PROVE  WakeupsOK'
<1>0. k \in KernelState /\ k.object \in WaitObjects
  BY DEF Inv, TypeOK, ControlOK, KernelState
<1>1. UNCHANGED <<status, wait_objects, lock_count, holding_thread, available_count>>
  BY DEF WakeDone
<1>2. \A e \in Signals : ~signaled[e] => ~signaled'[e]
  BY DEF WakeDone, Inv, TypeOK
<1>3. \A o \in WaitObjects, t \in Threads : ShouldWait(o, t) => ShouldWait(o, t)'
  BY <1>1, <1>2 DEF ShouldWait, ThreadShouldWait, MutexShouldWait, SignalShouldWait,
                    SemaphoreShouldWait
<1>4. ASSUME NEW t \in Threads, IsIn(k.object, wait_objects[t]) PROVE t \in Waiters(k.object)
  BY <1>0, <1>4 DEF Inv, ListsOK, Leaves, Enters, Waiters
<1>5. \A t \in Threads : \A o : IsIn(o, wait_objects[t])' <=> IsIn(o, wait_objects[t])
  BY <1>1 DEF IsIn
<1>6. ASSUME NEW t \in Threads, status[t] = "WaitSynchAny", NEW o \in WaitObjects,
             IsIn(o, wait_objects[t])
      PROVE  ShouldWait(o, t)'
  <2>1. Blocks(o, t)
    BY <1>6 DEF WakeupsOK, Served
  <2>2. CASE o = k.object
    <3>1. ~ReadyToRun(k.object, t)
      BY <1>4, <1>6, <2>2
    <3>2. ShouldWait(o, t)
      BY <1>6, <2>2, <3>1 DEF ReadyToRun
    <3> QED
      BY <1>3, <3>2
  <2> QED
    BY <1>3, <2>1, <2>2 DEF Blocks
<1>7. ASSUME NEW t \in Threads, status[t] = "WaitSynchAll"
      PROVE  \E o \in WaitObjects : IsIn(o, wait_objects[t]) /\ ShouldWait(o, t)'
  <2>1. PICK o \in WaitObjects : IsIn(o, wait_objects[t]) /\ Blocks(o, t)
    BY <1>7 DEF WakeupsOK, Served
  <2>2. CASE o = k.object
    <3>1. ~ReadyToRun(k.object, t)
      BY <1>4, <2>1, <2>2
    <3>2. CASE ShouldWait(k.object, t)
      BY <1>3, <2>1, <2>2, <3>2
    <3>3. ASSUME NEW i \in 1 .. Len(wait_objects[t]), ShouldWait(wait_objects[t][i], t)
          PROVE  \E p \in WaitObjects : IsIn(p, wait_objects[t]) /\ ShouldWait(p, t)'
      <4>1. wait_objects[t] \in Seq(WaitObjects)
        BY DEF Inv, TypeOK
      <4>2. wait_objects[t][i] \in WaitObjects /\ IsIn(wait_objects[t][i], wait_objects[t])
        BY <4>1 DEF IsIn
      <4> QED
        BY <1>3, <3>3, <4>2
    <3> QED
      BY <3>1, <3>2, <3>3 DEF ReadyToRun
  <2> QED
    BY <1>3, <2>1, <2>2 DEF Blocks
<1> QED
  BY <1>1, <1>5, <1>6, <1>7 DEF WakeupsOK, Blocks

\* The wake loop ends when no waiter is ready to run.
LEMMA WakeWakeups ==
    ASSUME Inv, WakeupsOK, WakeNext PROVE WakeupsOK'
<1>0. k \in KernelState /\ k.pc = "wake"
  BY DEF WakeNext, Inv, TypeOK
<1>1. CASE Abort("Inconsistent thread statuses in waiting_threads")
  BY <1>1, AbortWakeups
<1>2. ASSUME NEW i, WakeOne(i) PROVE WakeupsOK'
  <2>1. k'.object = k.object
    BY <1>0, <1>2 DEF WakeOne, KernelState
  <2> QED
    BY <1>0, <1>2, <2>1, QuietWakeups DEF WakeOne
<1> QED
  BY <1>0, <1>1, <1>2, WakeDoneWakeups DEF WakeNext

\* Thread::ResumeFromWait makes a thread Ready or leaves it as it is.
LEMMA ResumeStatus ==
    ASSUME Inv, NEW t \in Threads, ResumeFromWait(t)
    PROVE  /\ \A u \in Threads : status'[u] = status[u] \/ status'[u] = "Ready"
           /\ status'[t] \notin WaitSynch
BY DEF ResumeFromWait, Inv, TypeOK, WaitSynch

\* The thread that is served is resumed.
LEMMA RemoveWakeups ==
    ASSUME Inv, WakeupsOK, RemoveNext PROVE WakeupsOK'
<1>0. k \in KernelState /\ k.pc = "remove" /\ k.thread \in Threads
  BY DEF RemoveNext, Inv, TypeOK, ControlOK, KernelState
<1>1. CASE /\ k' = [k EXCEPT !.rest = Tail(@)]
           /\ UNCHANGED <<status, nominal_priority, mutexVars, signalVars, wait_objects,
                          wakeup_callback, wake_events, arbiterVars, processVars,
                          coreVars, failed>>
  <2>1. k'.pc = "remove" /\ k'.object = k.object /\ k'.thread = k.thread
    BY <1>0, <1>1 DEF KernelState
  <2> QED
    BY <1>1, <2>1, QuietWakeups
<1>2. CASE Abort("wakeup_callback == nullptr")
  BY <1>2, AbortWakeups
<1>3. CASE /\ wait_objects' = [wait_objects EXCEPT ![k.thread] = << >>]
           /\ ResumeFromWait(k.thread)
           /\ IF k.object = None THEN ReturnToUser
              ELSE k' = [k EXCEPT !.pc = "wake", !.thread = None]
           /\ UNCHANGED <<priorityVars, mutexVars, signalVars, waiting_threads, wake_events,
                          arbiterVars, processVars, current_thread, failed>>
  <2>1. /\ \A u \in Threads : status'[u] = status[u] \/ status'[u] = "Ready"
        /\ status'[k.thread] \notin WaitSynch
    BY <1>0, <1>3, ResumeStatus
  <2>2. k.object = None \/ k'.object = k.object
    BY <1>0, <1>3 DEF KernelState
  <2>3. Monotone
    BY <1>3, <2>1, NothingAvailable
  <2>4. \A u \in Threads : u # k.thread => wait_objects'[u] = wait_objects[u]
    BY <1>0, <1>3 DEF Inv, TypeOK
  <2>5. \A u \in Threads : status'[u] \in WaitSynch =>
           status'[u] = status[u] /\ wait_objects'[u] = wait_objects[u] /\ ~Served(u)
    BY <2>1, <2>4 DEF Served, WaitSynch
  <2> QED
    BY <2>2, <2>3, <2>5, WakeupsStep
<1> QED
  BY <1>1, <1>2, <1>3 DEF RemoveNext

\* A stopped thread waits no longer.
LEMMA DetachWakeups ==
    ASSUME Inv, WakeupsOK, DetachNext PROVE WakeupsOK'
<1>0. /\ k.pc = "detach" /\ k.object = None /\ k.stop \in Threads /\ status[k.stop] = "Dead"
  BY DEF DetachNext, Inv, TypeOK, ControlOK, SubjectOK, KernelState
<1>1. /\ UNCHANGED <<status, lock_count, holding_thread, signaled, available_count>>
      /\ \A u \in Threads : u # k.stop => wait_objects'[u] = wait_objects[u]
  BY <1>0 DEF DetachNext, Inv, TypeOK
<1>2. Monotone
  BY <1>1, NothingAvailable
<1>3. \A u \in Threads : status'[u] \in WaitSynch =>
         status'[u] = status[u] /\ wait_objects'[u] = wait_objects[u] /\ ~Served(u)
  BY <1>0, <1>1 DEF Served, WaitSynch
<1> QED
  BY <1>0, <1>2, <1>3, WakeupsStep

\* A mutex that Thread::Stop gives up is woken for.
LEMMA ReleaseWakeups ==
    ASSUME Inv, WakeupsOK, ReleaseNext PROVE WakeupsOK'
<1>0. /\ k \in KernelState /\ k.pc = "release" /\ k.object = None /\ k.mutexes \in SUBSET Mutexes
      /\ UNCHANGED <<status, wait_objects, signaled, available_count>>
  BY DEF ReleaseNext, Inv, TypeOK, ControlOK, KernelState
<1>1. ASSUME NEW m \in k.mutexes, lock_count' = [lock_count EXCEPT ![m] = 0],
             holding_thread' = WithHolder(m, None),
             k' = [k EXCEPT !.pc = "wake", !.object = m, !.mutexes = @ \ {m}]
      PROVE  WakeupsOK'
  <2>1. k'.object = m
    BY <1>0, <1>1 DEF KernelState
  <2>2. \A n \in Mutexes : n # m => lock_count'[n] = lock_count[n]
                                    /\ holding_thread'[n] = holding_thread[n]
    BY <1>1 DEF WithHolder, Inv, TypeOK
  <2>3. Monotone
    BY <1>0, <2>1, <2>2, OneAvailable
  <2> QED
    BY <1>0, <2>3, WakeupsStep DEF Served
<1>2. CASE UNCHANGED <<lock_count, holding_thread>>
  BY <1>0, <1>2, QuietCallWakeups
<1> QED
  BY <1>1, <1>2 DEF ReleaseNext

\* The loops that make nothing available.
LEMMA OtherLoopWakeups ==
    ASSUME Inv, WakeupsOK, AddNext \/ TerminateNext \/ PriorityNext \/ ArbitrateNext
    PROVE  WakeupsOK'
<1>0. k \in KernelState
  BY DEF Inv, TypeOK
<1>1. CASE AddNext
  BY <1>1, QuietCallWakeups DEF AddNext
<1>2. CASE TerminateNext
  <2>1. ASSUME NEW u \in k.kill, Stop(u, [k EXCEPT !.kill = @ \ {u}]) PROVE WakeupsOK'
    <3>1. [k EXCEPT !.kill = @ \ {u}] \in KernelState /\ u \in Threads
      BY <1>0 DEF KernelState
    <3> QED
      BY <1>2, <2>1, <3>1, StopWakeups DEF TerminateNext
  <2>2. CASE UNCHANGED <<status, mutexVars, signalVars, waitVars>>
    BY <1>2, <2>2, QuietCallWakeups DEF TerminateNext
  <2> QED
    BY <1>2, <2>1, <2>2 DEF TerminateNext
<1>3. CASE PriorityNext
  BY <1>3, QuietCallWakeups DEF PriorityNext
<1>4. CASE ArbitrateNext
  <2>1. k.pc = "arbitrate"
    BY <1>4 DEF ArbitrateNext
  <2>2. CASE \E message : Abort(message)
    BY <2>2, AbortWakeups
  <2>3. ASSUME NEW i \in 1 .. Len(arbiter), ResumeFromWait(arbiter[i]),
               UNCHANGED <<mutexVars, signalVars, wait_objects>>
        PROVE  WakeupsOK'
    <3>1. arbiter[i] \in Threads
      BY DEF Inv, TypeOK
    <3>2. \A u \in Threads : status'[u] = status[u] \/ status'[u] = "Ready"
      BY <2>3, <3>1, ResumeStatus
    <3> QED
      BY <2>1, <2>3, <3>2, QuietCallWakeups
  <2>4. CASE UNCHANGED <<status, mutexVars, signalVars, waitVars>>
    BY <2>1, <2>4, QuietCallWakeups
  <2> QED
    BY <1>4, <2>2, <2>3, <2>4 DEF ArbitrateNext
<1> QED
  BY <1>1, <1>2, <1>3, <1>4

\* Every step.
LEMMA WakeupsKept == Inv /\ WakeupsOK /\ [Next]_vars => WakeupsOK'
<1> SUFFICES ASSUME Inv, WakeupsOK, [Next]_vars PROVE WakeupsOK'
  OBVIOUS
<1>1. CASE UNCHANGED vars
  BY <1>1, QuietWakeups DEF vars
<1>2. CASE \E c \in Cores, t \in Threads : SystemCall(c, t)
  BY <1>2, SystemCallWakeups
<1>3. CASE KernelLoop
  BY <1>3, AcquireWakeups, WakeWakeups, RemoveWakeups, DetachWakeups, ReleaseWakeups,
     OtherLoopWakeups DEF KernelLoop
<1>4. CASE TimingEvent
  <2>1. ASSUME NEW t \in Threads, ThreadWakeupCallback(t) PROVE WakeupsOK'
    BY <2>1, QuietCallWakeups DEF ThreadWakeupCallback, Abort, Idle
  <2> QED
    BY <1>4, <2>1, SignalWakeups DEF TimingEvent
<1>5. ASSUME NEW c \in Cores, Reschedule(c) PROVE WakeupsOK'
  <2>1. \A t \in Threads : status'[t] = status[t] \/ status'[t] \in {"Running", "Ready"}
    BY <1>5 DEF Reschedule, SwitchTo
  <2> QED
    BY <1>5, <2>1, QuietCallWakeups DEF Reschedule, Idle
<1> QED
  BY <1>1, <1>2, <1>3, <1>4, <1>5 DEF Next

\* At first no thread waits.
LEMMA WakeupsInit == Init => WakeupsOK
BY DEF Init, ThreadsCreated, WakeupsOK

(***************************************************************************)
(* Between calls no thread sleeps although what it waits for is available, *)
(* for any number of threads and objects, with waits for any and for all,  *)
(* timeouts, exits and terminations in any order: the loop of              *)
(* WakeupAllWaitingThreads leaves out nobody.                              *)
(***************************************************************************)
THEOREM WakeupsAreNotLost == Spec => []NoLostWakeup
<1>1. Inv /\ WakeupsOK => NoLostWakeup
  <2> SUFFICES ASSUME Inv, WakeupsOK, k.pc = "user", NEW t \in Threads
               PROVE  /\ status[t] = "WaitSynchAny" =>
                           \A i \in 1 .. Len(wait_objects[t]) : ShouldWait(wait_objects[t][i], t)
                      /\ status[t] = "WaitSynchAll" =>
                           \E i \in 1 .. Len(wait_objects[t]) : ShouldWait(wait_objects[t][i], t)
    BY DEF NoLostWakeup
  <2>1. ~Served(t) /\ \A o \in WaitObjects : Blocks(o, t) => ShouldWait(o, t)
    BY KernelConstants DEF Served, Blocks, Inv, ControlOK
  <2>2. wait_objects[t] \in Seq(WaitObjects)
    BY DEF Inv, TypeOK
  <2>3. \A i \in 1 .. Len(wait_objects[t]) :
           wait_objects[t][i] \in WaitObjects /\ IsIn(wait_objects[t][i], wait_objects[t])
    BY <2>2 DEF IsIn
  <2>4. CASE status[t] = "WaitSynchAny"
    BY <2>1, <2>3, <2>4 DEF WakeupsOK
  <2>5. CASE status[t] = "WaitSynchAll"
    <3>1. PICK o \in WaitObjects : IsIn(o, wait_objects[t]) /\ ShouldWait(o, t)
      BY <2>1, <2>5 DEF WakeupsOK
    <3> QED
      BY <2>5, <3>1 DEF IsIn
  <2> QED
    BY <2>4, <2>5
<1> QED
  BY <1>1, InvHolds, WakeupsInit, WakeupsKept, PTL DEF Spec

-----------------------------------------------------------------------------
(***************************************************************************)
(* Termination on one core.  PrepareReschedule stops the core that runs    *)
(* the kernel, so a process terminated from another core leaves a dead     *)
(* thread executing (the finding of DeadStaysDead).  What follows is for   *)
(* programs that terminate processes only from the core of their threads:  *)
(* in particular those that only use ExitThread.                           *)
(***************************************************************************)
SameCore == \A p \in Terminated, t, u \in Threads : OwnerOf[t] = p => CoreOf[t] = CoreOf[u]

Alive(t) == status[t] \notin {"Dead", "Unborn"}

\* The kernel runs on the core of the threads it stops.
HereOK ==
    /\ k.stop # None => k.core = CoreOf[k.stop]
    /\ \A u \in k.kill : CoreOf[u] = k.core
    /\ k.thread # None => Alive(k.thread)

\* A core executes a running thread, or the one that is just being stopped.
ExecutedOK ==
    \A c \in Cores : current_thread[c] # None /\ ~halted[c] =>
        status[current_thread[c]] = "Running" \/ current_thread[c] = k.stop

LivesOK ==
    \A t \in Threads :
        /\ Alive(t) => t \in thread_list
        /\ ~Alive(t) => t \notin wake_events
        /\ status[t] = "Dead" /\ t # k.stop => held_mutexes[t] = {} /\ t \notin thread_list
        /\ status[t] = "Unborn" => held_mutexes[t] = {}

Boosted(t) ==
    IsBest(current_priority[t],
           {nominal_priority[t]} \cup {mutex_priority[m] : m \in held_mutexes[t]})

BoostsOK == \A t \in Threads : status[t] # "Dead" => Boosted(t)

LocalOK == HereOK /\ ExecutedOK /\ LivesOK /\ BoostsOK

\* No step but Thread::Stop's end and TerminateProcess changes what k says of
\* termination.
HereStep ==
    /\ k'.stop = k.stop
    /\ k'.stop # None => k'.core = k.core
    /\ k'.kill # {} => k'.kill \subseteq k.kill /\ k'.core = k.core
    /\ k'.thread # None => Alive(k.thread)'

\* HereOK after a step that is about the same stopped threads.
LEMMA HereKept == ASSUME HereOK, HereStep PROVE HereOK'
BY DEF HereOK, HereStep, Alive

\* Nobody is created, dies or is scheduled.
LivesStep ==
    /\ \A t \in Threads : status'[t] = status[t] \/ (Alive(t) /\ Alive(t)')
    /\ UNCHANGED <<current_thread, thread_list>>
    /\ \A c \in Cores : ~halted'[c] => ~halted[c]
    /\ \A t \in Threads : status[t] = "Running" /\ status'[t] # "Running" => halted'[CoreOf[t]]
    /\ \A t \in Threads : held_mutexes'[t] = held_mutexes[t] \/ Alive(t)
    /\ \A t \in Threads : t \in wake_events' => t \in wake_events \/ Alive(t)

\* The threads' lives after a step that neither creates nor stops any.
LEMMA LivesKept ==
    ASSUME Inv, ExecutedOK, LivesOK, LivesStep, k'.stop = k.stop
    PROVE  ExecutedOK' /\ LivesOK'
<1>1. ExecutedOK'
  <2>1. ASSUME NEW c \in Cores, current_thread[c] # None, ~halted'[c]
        PROVE  status'[current_thread[c]] = "Running" \/ current_thread[c] = k.stop
    <3>1. current_thread[c] \in Threads /\ CoreOf[current_thread[c]] = c /\ ~halted[c]
      BY <2>1 DEF Inv, TypeOK, CoresOK, LivesStep
    <3> QED
      BY <2>1, <3>1 DEF ExecutedOK, LivesStep
  <2> QED
    BY <2>1 DEF ExecutedOK, LivesStep
<1>2. ASSUME NEW t \in Threads
      PROVE  /\ Alive(t)' => t \in thread_list'
             /\ ~Alive(t)' => t \notin wake_events'
             /\ status'[t] = "Dead" /\ t # k'.stop => held_mutexes'[t] = {} /\ t \notin thread_list'
             /\ status'[t] = "Unborn" => held_mutexes'[t] = {}
  <2>1. CASE status'[t] = status[t]
    BY <2>1 DEF LivesOK, LivesStep, Alive
  <2>2. CASE Alive(t) /\ Alive(t)'
    BY <2>2 DEF LivesOK, LivesStep, Alive
  <2> QED
    BY <2>1, <2>2 DEF LivesStep
<1>3. LivesOK'
  BY <1>2 DEF LivesOK
<1> QED
  BY <1>1, <1>3

\* The boosts after a step that moves no priority and no mutex.
LEMMA BoostsKept ==
    ASSUME BoostsOK, UNCHANGED <<priorityVars, held_mutexes>>,
           \A t \in Threads : status[t] = "Dead" => status'[t] = "Dead"
    PROVE  BoostsOK'
BY DEF BoostsOK, Boosted, IsBest

\* A step that changes neither priorities nor what threads hold.
LEMMA QuietLocal ==
    ASSUME Inv, LocalOK, HereStep, LivesStep, UNCHANGED <<priorityVars, held_mutexes>>
    PROVE  LocalOK'
<1>1. \A t \in Threads : status[t] = "Dead" => status'[t] = "Dead"
  BY DEF LivesStep, Alive
<1> QED
  BY <1>1, HereKept, LivesKept, BoostsKept DEF LocalOK, HereStep

\* The same for a step that leaves all threads as they are.
LEMMA StillLocal ==
    ASSUME Inv, LocalOK, HereStep, UNCHANGED <<status, priorityVars, held_mutexes, current_thread,
               thread_list, wake_events>>,
           \A c \in Cores : ~halted'[c] => ~halted[c]
    PROVE  LocalOK'
<1>1. LivesStep
  BY DEF LivesStep
<1> QED
  BY <1>1, QuietLocal

\* The thread a core executes is running.
LEMMA CallerRuns ==
    ASSUME Inv, LocalOK, NEW c \in Cores, NEW t \in Threads, Executes(c, t)
    PROVE  /\ status[t] = "Running" /\ Alive(t) /\ CoreOf[t] = c
           /\ k.pc = "user" /\ k.stop = None /\ k.thread = None /\ k.kill = {}
<1>1. /\ k.pc = "user" /\ k.stop = None /\ k.thread = None /\ k.kill = {} /\ t # None
      /\ CoreOf[t] = c /\ current_thread[c] = t
  BY CallerFacts
<1>2. ~halted[c]
  BY DEF Executes
<1>3. status[t] = "Running"
  BY <1>1, <1>2 DEF LocalOK, ExecutedOK
<1> QED
  BY <1>1, <1>3 DEF Alive

\* Between calls, a step to a loop about no thread, or about a living one.
LEMMA CallHere ==
    ASSUME Inv, Idle, k'.stop = None, k'.kill = {}, k'.thread # None => Alive(k.thread)'
    PROVE  HereStep
BY DEF HereStep, Inv, ControlOK, Idle

\* The caller falls asleep and its core is halted.
LEMMA DozeLocal ==
    ASSUME Inv, LocalOK, NEW c \in Cores, NEW t \in Threads, Executes(c, t), Halt(c), HereStep,
           NEW s \in WaitSynch \cup {"WaitSleep", "WaitArb"}, status' = [status EXCEPT ![t] = s],
           \A u \in Threads : u \in wake_events' => u \in wake_events \/ u = t,
           UNCHANGED <<priorityVars, held_mutexes, current_thread, thread_list>>
    PROVE  LocalOK'
<1>1. status[t] = "Running" /\ Alive(t) /\ CoreOf[t] = c
  BY CallerRuns
<1>2. \A u \in Threads : status'[u] = IF u = t THEN s ELSE status[u]
  BY DEF Inv, TypeOK
<1>3. \A d \in Cores : halted'[d] = IF d = c THEN TRUE ELSE halted[d]
  BY DEF Halt, Inv, TypeOK
<1>4. Alive(t)'
  BY <1>2 DEF Alive, WaitSynch
<1>5. LivesStep
  BY <1>1, <1>2, <1>3, <1>4 DEF LivesStep
<1> QED
  BY <1>5, QuietLocal

\* The waiting calls.
LEMMA WaitCallLocal ==
    ASSUME Inv, LocalOK, NEW c \in Cores, NEW t \in Threads
    PROVE  /\ \A o \in WaitTargets[t], to \in Timeouts : WaitSynchronization1(c, t, o, to) => LocalOK'
           /\ \A objs \in WaitLists[t], all \in BOOLEAN, to \in Timeouts :
                WaitSynchronizationN(c, t, objs, all, to) => LocalOK'
<1>1. ASSUME NEW objs, AcquireNow(c, t, objs), Executes(c, t) PROVE LocalOK'
  <2>1. k'.stop = None /\ k'.kill = {} /\ k'.thread = t
    BY <1>1 DEF AcquireNow, UserMode
  <2>2. Alive(t) /\ Idle
    BY <1>1, CallerRuns DEF Executes
  <2>3. HereStep
    BY <1>1, <2>1, <2>2, CallHere DEF AcquireNow, Alive
  <2> QED
    BY <1>1, <2>3, StillLocal DEF AcquireNow
<1>2. ASSUME NEW objs, NEW mode \in WaitSynch, NEW to, SleepOn(c, t, objs, mode, to), Executes(c, t)
      PROVE  LocalOK'
  <2>1. k'.stop = None /\ k'.kill = {} /\ k'.thread = t
    BY <1>2 DEF SleepOn, UserMode
  <2>2. Alive(t)' /\ Idle
    BY <1>2 DEF SleepOn, Inv, TypeOK, Alive, WaitSynch, Executes
  <2>3. HereStep
    BY <2>1, <2>2, CallHere DEF Alive
  <2>4. /\ status' = [status EXCEPT ![t] = mode] /\ Halt(c)
        /\ \A u \in Threads : u \in wake_events' => u \in wake_events \/ u = t
        /\ UNCHANGED <<priorityVars, held_mutexes, current_thread, thread_list>>
    BY <1>2 DEF SleepOn
  <2> QED
    BY <1>2, <2>3, <2>4, DozeLocal
<1>3. ASSUME NEW o \in WaitTargets[t], NEW to \in Timeouts, WaitSynchronization1(c, t, o, to)
      PROVE  LocalOK'
  BY <1>1, <1>2, <1>3 DEF WaitSynchronization1, WaitSynch
<1>4. ASSUME NEW objs \in WaitLists[t], NEW all \in BOOLEAN, NEW to \in Timeouts,
             WaitSynchronizationN(c, t, objs, all, to)
      PROVE  LocalOK'
  BY <1>1, <1>2, <1>4 DEF WaitSynchronizationN, WaitSynch
<1> QED
  BY <1>3, <1>4

\* A call that leaves the threads alone: it wakes waiters, or returns.
LEMMA StillCallLocal ==
    ASSUME Inv, LocalOK, Idle, UNCHANGED <<status, priorityVars, held_mutexes, current_thread,
               thread_list, wake_events>>,
           \A c \in Cores : ~halted'[c] => ~halted[c],
           UNCHANGED k \/ (k'.stop = None /\ k'.kill = {} /\ k'.thread = None)
    PROVE  LocalOK'
<1>1. k.stop = None /\ k.kill = {} /\ k.thread = None
  BY DEF Inv, ControlOK, Idle
<1> QED
  BY <1>1, CallHere, StillLocal

\* The calls and the timing event that signal.
LEMMA SignalLocal ==
    ASSUME Inv, LocalOK, NEW c \in Cores
    PROVE  /\ \A t \in Threads, e \in Events : SignalEvent(c, t, e) => LocalOK'
           /\ \A t \in Threads, s \in Semaphores, n \in ReleaseCounts :
                ReleaseSemaphore(c, t, s, n) => LocalOK'
           /\ \A t \in Threads, tm \in Timers, immediate, repeat \in BOOLEAN :
                SetTimer(c, t, tm, immediate, repeat) => LocalOK'
           /\ \A tm \in Timers : TimerCallback(c, tm) => LocalOK'
           /\ \A t \in Threads, e \in Signals : ClearSignal(c, t, e) => LocalOK'
           /\ \A t \in Threads, tm \in Timers : CancelTimer(c, t, tm) => LocalOK'
<1>1. \A o : Wakes(c, o) => k'.stop = None /\ k'.kill = {} /\ k'.thread = None
  BY DEF Wakes, UserMode
<1>2. ASSUME NEW t \in Threads, NEW e \in Events, SignalEvent(c, t, e) PROVE LocalOK'
  BY <1>1, <1>2, StillCallLocal DEF SignalEvent, Executes
<1>3. ASSUME NEW t \in Threads, NEW s \in Semaphores, NEW n \in ReleaseCounts,
             ReleaseSemaphore(c, t, s, n)
      PROVE  LocalOK'
  BY <1>1, <1>3, StillCallLocal DEF ReleaseSemaphore, Executes
<1>4. ASSUME NEW t \in Threads, NEW tm \in Timers, NEW immediate \in BOOLEAN,
             NEW repeat \in BOOLEAN, SetTimer(c, t, tm, immediate, repeat)
      PROVE  LocalOK'
  BY <1>1, <1>4, StillCallLocal DEF SetTimer, Executes
<1>5. ASSUME NEW tm \in Timers, TimerCallback(c, tm) PROVE LocalOK'
  BY <1>1, <1>5, StillCallLocal DEF TimerCallback
<1>6. ASSUME NEW t \in Threads, NEW e \in Signals, ClearSignal(c, t, e) PROVE LocalOK'
  BY <1>6, StillCallLocal DEF ClearSignal, Executes
<1>7. ASSUME NEW t \in Threads, NEW tm \in Timers, CancelTimer(c, t, tm) PROVE LocalOK'
  BY <1>7, StillCallLocal DEF CancelTimer, Executes
<1> QED
  BY <1>2, <1>3, <1>4, <1>5, <1>6, <1>7

\* The calls that put the caller to sleep on no object.
LEMMA SleepLocal ==
    ASSUME Inv, LocalOK, NEW c \in Cores, NEW t \in Threads
    PROVE  /\ \A to \in Timeouts : SleepThread(c, t, to) => LocalOK'
           /\ \A a, v, dec, to : ArbitrateWait(c, t, a, v, dec, to) => LocalOK'
<1>1. UNCHANGED k /\ Idle => HereStep
  BY CallHere DEF Inv, ControlOK, Idle
<1>2. ASSUME NEW to \in Timeouts, SleepThread(c, t, to) PROVE LocalOK'
  <2>1. \A u \in Threads : u \in wake_events' => u \in wake_events \/ u = t
    BY <1>2 DEF SleepThread
  <2> QED
    BY <1>1, <1>2, <2>1, DozeLocal DEF SleepThread, Executes
<1>3. ASSUME NEW a, NEW v, NEW dec, NEW to, ArbitrateWait(c, t, a, v, dec, to) PROVE LocalOK'
  <2>1. \A u \in Threads : u \in wake_events' => u \in wake_events \/ u = t
    BY <1>3 DEF ArbitrateWait
  <2>2. Executes(c, t) /\ Halt(c) /\ HereStep /\ status' = [status EXCEPT ![t] = "WaitArb"]
    BY <1>1, <1>3 DEF ArbitrateWait, Executes
  <2>3. UNCHANGED <<priorityVars, held_mutexes, current_thread, thread_list>>
    BY <1>3 DEF ArbitrateWait
  <2> QED
    BY <2>1, <2>2, <2>3, DozeLocal
<1> QED
  BY <1>2, <1>3

\* The arbitrations that do not wait.
LEMMA ArbitrateCallLocal ==
    ASSUME Inv, LocalOK, NEW c \in Cores, NEW t \in Threads, NEW a, NEW v,
           ArbitratePass(c, t, a, v) \/ ArbitrateSignal(c, t, a, v) \/ Store(c, t, a, v)
    PROVE  LocalOK'
<1>1. CASE ArbitratePass(c, t, a, v)
  <2>1. \A d \in Cores : ~halted'[d] => ~halted[d]
    BY <1>1 DEF ArbitratePass, Halt, Inv, TypeOK
  <2> QED
    BY <1>1, <2>1, StillCallLocal DEF ArbitratePass, Executes
<1>2. CASE ArbitrateSignal(c, t, a, v)
  <2>1. k'.stop = None /\ k'.kill = {} /\ k'.thread = None
    BY <1>2 DEF ArbitrateSignal, UserMode
  <2> QED
    BY <1>2, <2>1, StillCallLocal DEF ArbitrateSignal, Executes
<1>3. CASE Store(c, t, a, v)
  BY <1>3, StillCallLocal DEF Store, Executes
<1> QED
  BY <1>1, <1>2, <1>3

\* CreateThread: a new thread has no mutex and no boost.
LEMMA CreateThreadLocal ==
    ASSUME Inv, LocalOK, NEW c \in Cores, NEW t \in Threads, NEW new \in Threads,
           NEW p \in NewPriorities, CreateThread(c, t, new, p)
    PROVE  LocalOK'
<1>0. /\ status[new] = "Unborn" /\ Idle /\ k.stop = None /\ k.thread = None /\ k.kill = {}
      /\ UNCHANGED <<k, current_thread, wake_events, held_mutexes, mutex_priority>>
      /\ thread_list' = thread_list \cup {new} /\ held_mutexes[new] = {}
  BY CallerRuns DEF CreateThread, Executes, LocalOK, LivesOK
<1>1. /\ \A u \in Threads : status'[u] = IF u = new THEN "Ready" ELSE status[u]
      /\ \A u \in Threads : current_priority'[u] = IF u = new THEN p ELSE current_priority[u]
      /\ \A u \in Threads : nominal_priority'[u] = IF u = new THEN p ELSE nominal_priority[u]
      /\ \A d \in Cores : ~halted'[d] => ~halted[d]
  BY DEF CreateThread, Halt, Inv, TypeOK
<1>2. HereOK'
  BY <1>0, CallHere, HereKept DEF LocalOK
<1>3. ExecutedOK'
  <2>1. \A d \in Cores : current_thread[d] # None => current_thread[d] \in Threads
    BY DEF Inv, TypeOK
  <2> QED
    BY <1>0, <1>1, <2>1 DEF LocalOK, ExecutedOK
<1>4. LivesOK'
  BY <1>0, <1>1 DEF LocalOK, LivesOK, Alive
<1>5. BoostsOK'
  <2>1. ASSUME NEW u \in Threads, status'[u] # "Dead" PROVE Boosted(u)'
    <3>1. CASE u = new
      <4>1. p \in Int
        BY CallConstants, KernelConstants DEF Priorities
      <4> QED
        BY <1>0, <1>1, <3>1, <4>1 DEF Boosted, IsBest
    <3>2. CASE u # new
      BY <1>0, <1>1, <2>1, <3>2 DEF LocalOK, BoostsOK, Boosted, IsBest
    <3> QED
      BY <3>1, <3>2
  <2> QED
    BY <2>1 DEF BoostsOK
<1> QED
  BY <1>2, <1>3, <1>4, <1>5 DEF LocalOK

\* SetThreadPriority brings the thread's own boost up to date.
LEMMA SetThreadPriorityLocal ==
    ASSUME Inv, LocalOK, NEW c \in Cores, NEW t \in Threads, NEW u \in Threads,
           NEW p \in NewPriorities, SetThreadPriority(c, t, u, p)
    PROVE  LocalOK'
<1>1. k'.stop = None /\ k'.kill = {} /\ k'.thread = None /\ Idle
  BY DEF SetThreadPriority, UserMode, Executes
<1>2. HereStep
  BY <1>1, CallHere
<1>3. LivesStep
  BY DEF LivesStep, SetThreadPriority, Halt, Inv, TypeOK
<1>4. BoostsOK'
  <2>1. PICK best \in Priorities :
          /\ IsBest(best, {p} \cup {mutex_priority[m] : m \in held_mutexes[u]})
          /\ current_priority' = [current_priority EXCEPT ![u] = best]
    BY DEF SetThreadPriority
  <2>2. /\ \A v \in Threads : current_priority'[v] = IF v = u THEN best ELSE current_priority[v]
        /\ \A v \in Threads : nominal_priority'[v] = IF v = u THEN p ELSE nominal_priority[v]
        /\ UNCHANGED <<status, mutex_priority, held_mutexes>>
    BY <2>1 DEF SetThreadPriority, Inv, TypeOK
  <2>3. ASSUME NEW v \in Threads, status'[v] # "Dead" PROVE Boosted(v)'
    BY <2>1, <2>2, <2>3 DEF LocalOK, BoostsOK, Boosted, IsBest
  <2> QED
    BY <2>3 DEF BoostsOK
<1> QED
  BY <1>2, <1>3, <1>4, HereKept, LivesKept DEF LocalOK, HereStep

\* A mutex that is given up takes its boost with it.
LEMMA ReleaseMutexLocal ==
    ASSUME Inv, LocalOK, NEW c \in Cores, NEW t \in Threads, NEW m \in Mutexes, ReleaseMutex(c, t, m)
    PROVE  LocalOK'
<1>0. Idle /\ Alive(t) /\ UNCHANGED <<status, current_thread, thread_list, wake_events, nominal_priority,
                                     mutex_priority>>
  BY CallerRuns DEF ReleaseMutex, Executes
<1>1. CASE lock_count[m] = 1
  <2>1. /\ held_mutexes' = [held_mutexes EXCEPT ![t] = @ \ {m}]
        /\ UpdatePriority(t, held_mutexes'[t], mutex_priority)
        /\ Wakes(c, m) /\ halted' = [halted EXCEPT ![c] = TRUE]
    BY <1>1 DEF ReleaseMutex, Halt
  <2>2. k'.stop = None /\ k'.kill = {} /\ k'.thread = None
    BY <2>1 DEF Wakes, UserMode
  <2>3. HereStep
    BY <1>0, <2>2, CallHere
  <2>4. LivesStep
    BY <1>0, <2>1 DEF LivesStep, Inv, TypeOK
  <2>5. PICK p \in Priorities :
          /\ IsBest(p, {nominal_priority[t]} \cup {mutex_priority[n] : n \in held_mutexes'[t]})
          /\ current_priority' = [current_priority EXCEPT ![t] = p]
    BY <2>1 DEF UpdatePriority
  <2>6. BoostsOK'
    <3>1. /\ \A v \in Threads : current_priority'[v] = IF v = t THEN p ELSE current_priority[v]
          /\ \A v \in Threads : v # t => held_mutexes'[v] = held_mutexes[v]
      BY <2>1, <2>5 DEF Inv, TypeOK
    <3>2. ASSUME NEW v \in Threads, status'[v] # "Dead" PROVE Boosted(v)'
      <4>1. CASE v = t
        BY <1>0, <2>5, <3>1, <4>1 DEF Boosted
      <4>2. CASE v # t
        BY <1>0, <3>1, <3>2, <4>2 DEF LocalOK, BoostsOK, Boosted, IsBest
      <4> QED
        BY <4>1, <4>2
    <3> QED
      BY <3>2 DEF BoostsOK
  <2> QED
    BY <2>3, <2>4, <2>6, HereKept, LivesKept DEF LocalOK, HereStep
<1>2. CASE lock_count[m] # 1
  BY <1>0, <1>2, StillCallLocal DEF ReleaseMutex
<1> QED
  BY <1>1, <1>2

\* Thread::Stop of a thread of this core, up to its wake loop.
LEMMA StopLocal ==
    ASSUME Inv, LocalOK, NEW t \in Threads, k.pc \in {"user", "terminate"}, NEW kept \in KernelState,
           kept.thread = None, kept.core = CoreOf[t], kept.kill \subseteq k.kill,
           kept.kill # {} => kept.core = k.core, Stop(t, kept)
    PROVE  LocalOK'
<1>0. k.stop = None /\ \A u \in Threads : u # None
  BY KernelConstants DEF Inv, ControlOK, WaitObjects
<1>1. k'.stop = t /\ k'.core = CoreOf[t] /\ k'.kill = kept.kill /\ k'.thread = None
  BY DEF Stop, KernelState
<1>2. /\ \A u \in Threads : status'[u] = IF u = t THEN "Dead" ELSE status[u]
      /\ wake_events' = wake_events \ {t}
      /\ UNCHANGED <<priorityVars, held_mutexes, thread_list, current_thread, halted>>
  BY DEF Stop, Inv, TypeOK
<1>3. HereOK'
  BY <1>1 DEF LocalOK, HereOK
<1>4. ExecutedOK'
  <2>1. \A d \in Cores : current_thread[d] # None => current_thread[d] \in Threads
    BY DEF Inv, TypeOK
  <2> QED
    BY <1>0, <1>1, <1>2, <2>1 DEF LocalOK, ExecutedOK
<1>5. LivesOK'
  BY <1>0, <1>1, <1>2 DEF LocalOK, LivesOK, Alive
<1>6. BoostsOK'
  BY <1>2, BoostsKept DEF LocalOK
<1> QED
  BY <1>3, <1>4, <1>5, <1>6 DEF LocalOK

\* ExitThread stops a thread of the core that runs the kernel.
LEMMA ExitThreadLocal ==
    ASSUME Inv, LocalOK, NEW c \in Cores, NEW t \in Threads, ExitThread(c, t)
    PROVE  LocalOK'
<1>1. k.pc = "user" /\ CoreOf[t] = c /\ Stop(t, UserMode(c))
  BY CallerRuns DEF ExitThread
<1>2. UserMode(c) \in KernelState
  BY UserModeType
<1>3. UserMode(c).thread = None /\ UserMode(c).core = c /\ UserMode(c).kill = {}
  BY DEF UserMode
<1> QED
  BY <1>1, <1>2, <1>3, StopLocal

\* So does TerminateProcess, by the assumption.
LEMMA TerminateProcessLocal ==
    ASSUME SameCore, Inv, LocalOK, NEW c \in Cores, NEW t \in Threads, NEW p \in Terminated,
           TerminateProcess(c, t, p)
    PROVE  LocalOK'
<1>1. CASE p \in exited
  BY <1>1, StillCallLocal DEF TerminateProcess, Abort, Executes
<1>2. CASE p \notin exited
  <2>1. /\ k'.stop = None /\ k'.core = c /\ k'.thread = None
        /\ k'.kill = {u \in thread_list : OwnerOf[u] = p}
    BY <1>2 DEF TerminateProcess, UserMode
  <2>2. CoreOf[t] = c /\ k.stop = None
    BY CallerRuns DEF TerminateProcess
  <2>3. HereOK'
    <3>1. \A u \in k'.kill : u \in Threads /\ OwnerOf[u] = p
      BY <2>1 DEF Inv, TypeOK
    <3> QED
      BY <2>1, <2>2, <3>1 DEF HereOK, SameCore
  <2>4. LivesStep /\ UNCHANGED <<status, priorityVars, held_mutexes>>
    BY <1>2 DEF TerminateProcess, LivesStep
  <2> QED
    BY <2>1, <2>2, <2>3, <2>4, LivesKept, BoostsKept DEF LocalOK
<1> QED
  BY <1>1, <1>2

\* Every system call.
LEMMA SystemCallLocal ==
    ASSUME SameCore, Inv, LocalOK, NEW c \in Cores, NEW t \in Threads, SystemCall(c, t)
    PROVE  LocalOK'
<1>1. CASE \/ \E o \in WaitTargets[t], to \in Timeouts : WaitSynchronization1(c, t, o, to)
           \/ \E objs \in WaitLists[t], all \in BOOLEAN, to \in Timeouts :
                WaitSynchronizationN(c, t, objs, all, to)
  BY <1>1, WaitCallLocal
<1>2. CASE \/ \E e \in Events : SignalEvent(c, t, e)
           \/ \E e \in Signals : ClearSignal(c, t, e)
           \/ \E s \in Semaphores, n \in ReleaseCounts : ReleaseSemaphore(c, t, s, n)
           \/ \E tm \in Timers, immediate, repeat \in BOOLEAN : SetTimer(c, t, tm, immediate, repeat)
           \/ \E tm \in Timers : CancelTimer(c, t, tm)
  BY <1>2, SignalLocal
<1>3. CASE \E m \in Mutexes : ReleaseMutex(c, t, m)
  BY <1>3, ReleaseMutexLocal
<1>4. CASE \/ \E to \in Timeouts : SleepThread(c, t, to)
           \/ \E a \in Addresses, v \in MemoryValues, dec \in BOOLEAN, to \in Timeouts \cup {"none"} :
                ArbitrateWait(c, t, a, v, dec, to)
  BY <1>4, SleepLocal
<1>5. CASE \E a \in Addresses, v \in MemoryValues :
             ArbitratePass(c, t, a, v) \/ ArbitrateSignal(c, t, a, v) \/ Store(c, t, a, v)
  BY <1>5, ArbitrateCallLocal
<1>6. CASE \E new \in Threads, p \in NewPriorities : CreateThread(c, t, new, p)
  BY <1>6, CreateThreadLocal
<1>7. CASE \E u \in Threads, p \in NewPriorities : SetThreadPriority(c, t, u, p)
  BY <1>7, SetThreadPriorityLocal
<1>8. CASE ExitThread(c, t)
  BY <1>8, ExitThreadLocal
<1>9. CASE \E p \in Terminated : TerminateProcess(c, t, p)
  BY <1>9, TerminateProcessLocal
<1> QED
  BY <1>1, <1>2, <1>3, <1>4, <1>5, <1>6, <1>7, <1>8, <1>9 DEF SystemCall

\* Mutex::UpdatePriority leaves the mutex's holder boosted, and the others.
LEMMA MutexBoosts ==
    ASSUME Inv, BoostsOK, NEW m \in Mutexes, NEW W, MutexUpdatePriority(m, W),
           UNCHANGED <<status, nominal_priority, held_mutexes>>
    PROVE  BoostsOK'
<1>1. CASE holding_thread[m] = None
  BY <1>1, BoostsKept DEF MutexUpdatePriority
<1>2. CASE holding_thread[m] # None
  <2> DEFINE h == holding_thread[m]
  <2>1. h \in Threads
    BY <1>2 DEF Inv, TypeOK
  <2>2. PICK b \in Priorities :
          /\ mutex_priority' = [mutex_priority EXCEPT ![m] = b]
          /\ IF b # mutex_priority[m]
             THEN UpdatePriority(h, held_mutexes[h], mutex_priority')
             ELSE UNCHANGED current_priority
    BY <1>2 DEF MutexUpdatePriority
  <2> HIDE DEF h
  <2>3. /\ mutex_priority \in [Mutexes -> Priorities] /\ held_mutexes \in [Threads -> SUBSET Mutexes]
        /\ current_priority \in [Threads -> Priorities]
    BY DEF Inv, TypeOK
  <2>4. CASE b = mutex_priority[m]
    <3>1. mutex_priority' = mutex_priority
      BY <2>2, <2>3, <2>4
    <3> QED
      BY <2>2, <2>4, <3>1, BoostsKept
  <2>5. CASE b # mutex_priority[m]
    <3>1. PICK p \in Priorities :
            /\ IsBest(p, {nominal_priority[h]} \cup {mutex_priority'[n] : n \in held_mutexes[h]})
            /\ current_priority' = [current_priority EXCEPT ![h] = p]
      BY <2>2, <2>5 DEF UpdatePriority
    <3>2. \A u \in Threads : current_priority'[u] = IF u = h THEN p ELSE current_priority[u]
      BY <2>3, <3>1
    <3>3. ASSUME NEW u \in Threads, status[u] # "Dead", u # h
          PROVE  \A n \in held_mutexes[u] : n \in Mutexes /\ mutex_priority'[n] = mutex_priority[n]
      <4>1. m \notin held_mutexes[u]
        <5>1. u # k.stop
          BY <3>3, KernelConstants DEF Inv, SubjectOK, WaitObjects
        <5> QED
          BY <3>3, <5>1 DEF Inv, MutexesOK, h
      <4> QED
        BY <2>2, <2>3, <4>1
    <3>4. ASSUME NEW u \in Threads, status'[u] # "Dead" PROVE Boosted(u)'
      <4>1. CASE u = h
        BY <3>1, <3>2, <4>1 DEF Boosted
      <4>2. CASE u # h
        <5>1. Boosted(u) /\ \A n \in held_mutexes[u] : mutex_priority'[n] = mutex_priority[n]
          BY <3>3, <3>4, <4>2 DEF BoostsOK
        <5>2. {mutex_priority'[n] : n \in held_mutexes[u]} = {mutex_priority[n] : n \in held_mutexes[u]}
          BY <5>1
        <5>3. current_priority'[u] = current_priority[u]
          BY <3>2, <4>2
        <5> QED
          BY <5>1, <5>2, <5>3 DEF Boosted, IsBest
      <4> QED
        BY <4>1, <4>2
    <3> QED
      BY <3>4 DEF BoostsOK
  <2> QED
    BY <2>4, <2>5
<1> QED
  BY <1>1, <1>2

\* A loop step after which k is about the same threads on the same core.
LEMMA LoopHere ==
    ASSUME Inv, LocalOK, k'.stop = k.stop, k'.core = k.core, k'.kill = k.kill,
           k'.thread = k.thread \/ k'.thread = None,
           \A t \in Threads : status'[t] = status[t] \/ (Alive(t) /\ Alive(t)')
    PROVE  HereStep
<1>1. k.thread \in Threads \cup {None} /\ (k.thread # None => Alive(k.thread))
  BY DEF Inv, TypeOK, KernelState, LocalOK, HereOK
<1>2. k'.thread # None => Alive(k.thread)'
  BY <1>1 DEF Alive
<1> QED
  BY <1>2 DEF HereStep

\* The end of a call in which no thread was stopped.
LEMMA ReturnHere ==
    ASSUME Inv, LocalOK, ReturnToUser, k.stop = None PROVE HereStep
BY ReturnFacts DEF HereStep

\* AddWaitingThread and RemoveWaitingThread only move priorities.
LEMMA ListStepLocal ==
    ASSUME Inv, LocalOK, NEW o, NEW t, AddWaitingThread(o, t) \/ RemoveWaitingThread(o, t),
           HereStep, UNCHANGED <<status, nominal_priority, held_mutexes, current_thread, thread_list,
                                 wake_events, halted>>
    PROVE  LocalOK'
<1>1. LivesStep
  BY DEF LivesStep
<1>2. BoostsOK'
  <2>1. CASE o \in Mutexes
    <3>1. \E W : MutexUpdatePriority(o, W)
      BY <2>1 DEF AddWaitingThread, RemoveWaitingThread
    <3> QED
      BY <2>1, <3>1, MutexBoosts DEF LocalOK
  <2>2. CASE o \notin Mutexes
    BY <2>2, BoostsKept DEF AddWaitingThread, RemoveWaitingThread, LocalOK
  <2> QED
    BY <2>1, <2>2
<1> QED
  BY <1>1, <1>2, HereKept, LivesKept DEF LocalOK, HereStep

\* The loops over AddWaitingThread and over the pending mutexes.
LEMMA ListLoopsLocal ==
    ASSUME Inv, LocalOK, AddNext \/ PriorityNext PROVE LocalOK'
<1>0. k \in KernelState
  BY DEF Inv, TypeOK
<1>1. CASE AddNext
  <2>1. k.stop = None /\ UNCHANGED status
    BY <1>1 DEF AddNext, Inv, ControlOK
  <2>2. CASE k.rest # << >>
    <3>1. k' = [k EXCEPT !.rest = Tail(@)] /\ AddWaitingThread(Head(k.rest), k.thread)
      BY <1>1, <2>2 DEF AddNext
    <3>2. HereStep
      BY <1>0, <2>1, <3>1, LoopHere DEF KernelState
    <3> QED
      BY <1>1, <3>1, <3>2, ListStepLocal DEF AddNext
  <2>3. CASE k.rest = << >>
    <3>1. HereStep
      BY <1>1, <2>1, <2>3, ReturnHere DEF AddNext
    <3> QED
      BY <1>1, <2>3, <3>1, StillLocal DEF AddNext
  <2> QED
    BY <2>2, <2>3
<1>2. CASE PriorityNext
  <2>1. k.stop = None /\ UNCHANGED <<status, nominal_priority, held_mutexes>> /\ LivesStep
        /\ k.mutexes \in SUBSET Mutexes
    BY <1>0, <1>2 DEF PriorityNext, Inv, ControlOK, LivesStep, KernelState
  <2>2. CASE ReturnToUser /\ UNCHANGED <<mutex_priority, current_priority>>
    <3>1. HereStep
      BY <2>1, <2>2, ReturnHere
    <3> QED
      BY <2>1, <2>2, <3>1, QuietLocal
  <2>3. ASSUME NEW m \in k.mutexes, MutexUpdatePriority(m, Waiters(m)),
               k' = [k EXCEPT !.mutexes = @ \ {m}]
        PROVE  LocalOK'
    <3>1. HereStep
      BY <1>0, <2>1, <2>3, LoopHere DEF KernelState
    <3>2. BoostsOK'
      BY <2>1, <2>3, MutexBoosts DEF LocalOK
    <3> QED
      BY <2>1, <3>1, <3>2, HereKept, LivesKept DEF LocalOK, HereStep
  <2> QED
    BY <1>2, <2>2, <2>3 DEF PriorityNext
<1> QED
  BY <1>1, <1>2

\* A failing ASSERT changes nothing.
LEMMA AbortLocal ==
    ASSUME Inv, LocalOK, NEW message, Abort(message) PROVE LocalOK'
<1>1. HereStep
  BY LoopHere DEF Abort
<1> QED
  BY <1>1, StillLocal DEF Abort

\* A mutex that is taken has its new holder's priority, and boosts it.
LEMMA AcquireMutexLocal ==
    ASSUME Inv, LocalOK, k.pc = "acquire", NEW m \in Mutexes, AcquireMutex(m, k.thread), HereStep,
           UNCHANGED <<status, wake_events, thread_list, current_thread>>
    PROVE  LocalOK'
<1>0. /\ k.thread \in Threads /\ Alive(k.thread) /\ k.core \in Cores
      /\ mutex_priority \in [Mutexes -> Priorities] /\ held_mutexes \in [Threads -> SUBSET Mutexes]
      /\ current_priority \in [Threads -> Priorities] /\ halted \in [Cores -> BOOLEAN]
  BY DEF Inv, TypeOK, ControlOK, KernelState, LocalOK, HereOK
<1>1. CASE lock_count[m] = 0
  <2>1. /\ mutex_priority' = [mutex_priority EXCEPT ![m] = current_priority[k.thread]]
        /\ held_mutexes' = [held_mutexes EXCEPT ![k.thread] = @ \cup {m}]
        /\ UpdatePriority(k.thread, held_mutexes'[k.thread], mutex_priority')
        /\ halted' = [halted EXCEPT ![k.core] = TRUE]
        /\ UNCHANGED nominal_priority
    BY <1>1 DEF AcquireMutex, PrepareReschedule
  <2>2. PICK p \in Priorities :
          /\ IsBest(p, {nominal_priority[k.thread]} \cup
                         {mutex_priority'[n] : n \in held_mutexes'[k.thread]})
          /\ current_priority' = [current_priority EXCEPT ![k.thread] = p]
    BY <2>1 DEF UpdatePriority
  <2>3. /\ \A u \in Threads : current_priority'[u] = IF u = k.thread THEN p ELSE current_priority[u]
        /\ \A u \in Threads : u # k.thread => held_mutexes'[u] = held_mutexes[u]
        /\ \A n \in Mutexes : n # m => mutex_priority'[n] = mutex_priority[n]
        /\ \A c \in Cores : ~halted'[c] => ~halted[c]
    BY <1>0, <2>1, <2>2
  <2>4. LivesStep
    BY <1>0, <2>3 DEF LivesStep
  <2>5. ASSUME NEW u \in Threads, status[u] # "Dead", u # k.thread
        PROVE  m \notin held_mutexes[u]
    <3>1. u # k.stop
      BY <2>5, KernelConstants DEF Inv, SubjectOK, WaitObjects
    <3>2. holding_thread[m] = None /\ u # None
      BY <1>1, KernelConstants DEF Inv, MutexesOK, WaitObjects
    <3> QED
      BY <3>1, <3>2 DEF Inv, MutexesOK
  <2>6. ASSUME NEW u \in Threads, status'[u] # "Dead" PROVE Boosted(u)'
    <3>1. CASE u = k.thread
      BY <2>1, <2>2, <2>3, <3>1 DEF Boosted
    <3>2. CASE u # k.thread
      <4>1. Boosted(u) /\ \A n \in held_mutexes[u] : mutex_priority'[n] = mutex_priority[n]
        BY <1>0, <2>3, <2>5, <2>6, <3>2 DEF LocalOK, BoostsOK
      <4>2. {mutex_priority'[n] : n \in held_mutexes[u]} = {mutex_priority[n] : n \in held_mutexes[u]}
        BY <4>1
      <4>3. /\ current_priority'[u] = current_priority[u] /\ held_mutexes'[u] = held_mutexes[u]
            /\ UNCHANGED nominal_priority
        BY <2>1, <2>3, <3>2
      <4> QED
        BY <4>1, <4>2, <4>3 DEF Boosted, IsBest
    <3> QED
      BY <3>1, <3>2
  <2>7. BoostsOK'
    BY <2>6 DEF BoostsOK
  <2> QED
    BY <2>4, <2>7, HereKept, LivesKept DEF LocalOK, HereStep
<1>2. CASE lock_count[m] # 0
  BY <1>2, StillLocal DEF AcquireMutex
<1> QED
  BY <1>1, <1>2

\* The loop over Acquire.
LEMMA AcquireLocal ==
    ASSUME Inv, LocalOK, AcquireNext PROVE LocalOK'
<1>0. k \in KernelState /\ k.pc = "acquire"
  BY DEF AcquireNext, Inv, TypeOK
<1>1. CASE Abort("object unavailable!")
  BY <1>1, AbortLocal
<1>2. CASE /\ IF Head(k.rest) \in Mutexes
              THEN /\ AcquireMutex(Head(k.rest), k.thread)
                   /\ UNCHANGED <<signaled, available_count>>
              ELSE /\ AcquireOther(Head(k.rest))
                   /\ UNCHANGED <<mutexVars, priorityVars, halted>>
           /\ k' = [k EXCEPT !.rest = Tail(@)]
           /\ UNCHANGED <<status, timer_events, periodic, waitVars, arbiterVars,
                          processVars, current_thread, failed>>
  <2>1. HereStep
    BY <1>0, <1>2, LoopHere DEF KernelState
  <2>2. CASE Head(k.rest) \in Mutexes
    BY <1>0, <1>2, <2>1, <2>2, AcquireMutexLocal
  <2>3. CASE Head(k.rest) \notin Mutexes
    BY <1>2, <2>1, <2>3, StillLocal
  <2> QED
    BY <2>2, <2>3
<1>3. CASE /\ IF k.object = None THEN ReturnToUser
              ELSE k' = [k EXCEPT !.pc = "remove", !.rest = wait_objects[k.thread]]
           /\ UNCHANGED <<status, priorityVars, mutexVars, signalVars, waitVars,
                          arbiterVars, processVars, coreVars, failed>>
  <2>1. CASE k.object = None
    <3>1. k.stop = None
      BY <1>0, <2>1 DEF Inv, ControlOK
    <3>2. HereStep
      BY <1>3, <2>1, <3>1, ReturnHere
    <3> QED
      BY <1>3, <3>2, StillLocal
  <2>2. CASE k.object # None
    <3>1. HereStep
      BY <1>0, <1>3, <2>2, LoopHere DEF KernelState
    <3> QED
      BY <1>3, <3>1, StillLocal
  <2> QED
    BY <2>1, <2>2
<1> QED
  BY <1>1, <1>2, <1>3 DEF AcquireNext

\* The wake loop serves living threads.
LEMMA WakeLocal ==
    ASSUME Inv, LocalOK, WakeNext PROVE LocalOK'
<1>0. k \in KernelState /\ k.pc = "wake" /\ k.thread = None /\ k.object \in WaitObjects
  BY DEF WakeNext, Inv, TypeOK, ControlOK, KernelState
<1>1. CASE Abort("Inconsistent thread statuses in waiting_threads")
  BY <1>1, AbortLocal
<1>2. ASSUME WaitersConsistent(k.object), NEW i \in 1 .. Len(waiting_threads[k.object]), WakeOne(i)
      PROVE  LocalOK'
  <2> DEFINE t == waiting_threads[k.object][i]
  <2>1. waiting_threads[k.object] \in Seq(Threads)
    BY <1>0 DEF Inv, TypeOK
  <2>2. t \in Threads /\ IsIn(t, waiting_threads[k.object])
    BY <2>1 DEF IsIn
  <2>3. Alive(t)
    BY <1>2, <2>2 DEF WaitersConsistent, Waiters, Alive, WaitSynch
  <2>4. /\ k'.thread = t /\ k'.stop = k.stop /\ k'.core = k.core /\ k'.kill = k.kill
    BY <1>0, <1>2 DEF WakeOne, KernelState
  <2>5. HereStep
    BY <1>2, <2>3, <2>4 DEF HereStep, WakeOne, Alive
  <2> QED
    BY <1>2, <2>5, StillLocal DEF WakeOne
<1>3. CASE WakeDone
  <2>1. CASE k.stop = None /\ ReturnToUser
    BY <1>3, <2>1, ReturnHere, StillLocal DEF WakeDone
  <2>2. CASE \/ k' = [k EXCEPT !.pc = "detach", !.object = None, !.rest = wait_objects[k.stop]]
             \/ k' = [k EXCEPT !.pc = "release", !.object = None]
    <3>1. k'.thread = None /\ k'.stop = k.stop /\ k'.core = k.core /\ k'.kill = k.kill
      BY <1>0, <2>2 DEF KernelState
    <3>2. HereStep
      BY <3>1 DEF HereStep
    <3> QED
      BY <1>3, <3>2, StillLocal DEF WakeDone
  <2> QED
    BY <1>3, <2>1, <2>2 DEF WakeDone
<1> QED
  BY <1>1, <1>2, <1>3 DEF WakeNext

\* ResumeFromWait of a thread that is alive.
LEMMA ResumeLocal ==
    ASSUME Inv, NEW t \in Threads, Alive(t), ResumeFromWait(t),
           UNCHANGED <<current_thread, thread_list, held_mutexes, wake_events>>
    PROVE  LivesStep
<1>1. \A u \in Threads : status'[u] = status[u] \/ (u = t /\ status'[u] = "Ready"
                                                    /\ status[u] # "Running")
  BY DEF ResumeFromWait, Inv, TypeOK
<1>2. \A c \in Cores : ~halted'[c] => ~halted[c]
  BY DEF ResumeFromWait, PrepareReschedule, Inv, TypeOK
<1>3. \A u \in Threads : status'[u] = status[u] \/ (Alive(u) /\ Alive(u)')
  BY <1>1 DEF Alive
<1> QED
  BY <1>1, <1>2, <1>3 DEF LivesStep

\* The loop over RemoveWaitingThread resumes a living thread.
LEMMA RemoveLocal ==
    ASSUME Inv, LocalOK, RemoveNext PROVE LocalOK'
<1>0. /\ k \in KernelState /\ k.pc = "remove" /\ k.thread \in Threads /\ Alive(k.thread)
      /\ k.thread # None
  BY DEF RemoveNext, Inv, TypeOK, ControlOK, KernelState, LocalOK, HereOK
<1>1. CASE /\ RemoveWaitingThread(Head(k.rest), k.thread)
           /\ k' = [k EXCEPT !.rest = Tail(@)]
           /\ UNCHANGED <<status, nominal_priority, mutexVars, signalVars, wait_objects,
                          wakeup_callback, wake_events, arbiterVars, processVars,
                          coreVars, failed>>
  <2>1. HereStep
    BY <1>0, <1>1, LoopHere DEF KernelState
  <2> QED
    BY <1>1, <2>1, ListStepLocal
<1>2. CASE Abort("wakeup_callback == nullptr")
  BY <1>2, AbortLocal
<1>3. CASE /\ ResumeFromWait(k.thread)
           /\ IF k.object = None THEN ReturnToUser
              ELSE k' = [k EXCEPT !.pc = "wake", !.thread = None]
           /\ UNCHANGED <<priorityVars, mutexVars, signalVars, waiting_threads, wake_events,
                          arbiterVars, processVars, current_thread, failed>>
  <2>1. LivesStep
    BY <1>0, <1>3, ResumeLocal
  <2>2. HereStep
    <3>1. CASE k.object = None
      <4>1. k.stop = None
        BY <1>0, <3>1 DEF Inv, ControlOK
      <4> QED
        BY <1>3, <3>1, <4>1, ReturnHere
    <3>2. CASE k.object # None
      <4>1. k'.thread = None /\ k'.stop = k.stop /\ k'.core = k.core /\ k'.kill = k.kill
        BY <1>0, <1>3, <3>2 DEF KernelState
      <4> QED
        BY <4>1 DEF HereStep
    <3> QED
      BY <3>1, <3>2
  <2> QED
    BY <1>3, <2>1, <2>2, QuietLocal
<1> QED
  BY <1>1, <1>2, <1>3 DEF RemoveNext

\* Thread::Stop takes its thread off the waiting lists.
LEMMA DetachLocal ==
    ASSUME Inv, LocalOK, DetachNext PROVE LocalOK'
<1>0. k \in KernelState /\ k.thread = None
  BY DEF DetachNext, Inv, TypeOK, ControlOK
<1>1. CASE /\ RemoveWaitingThread(Head(k.rest), k.stop)
           /\ k' = [k EXCEPT !.rest = Tail(@)]
  <2>1. HereStep
    BY <1>0, <1>1, LoopHere DEF KernelState, DetachNext
  <2> QED
    BY <1>1, <2>1, ListStepLocal DEF DetachNext
<1>2. CASE /\ k' = [k EXCEPT !.pc = "release", !.mutexes = held_mutexes[k.stop]]
           /\ UNCHANGED <<waiting_threads, mutex_priority, current_priority>>
  <2>1. HereStep
    BY <1>0, <1>2, LoopHere DEF KernelState, DetachNext
  <2> QED
    BY <1>2, <2>1, StillLocal DEF DetachNext
<1> QED
  BY <1>1, <1>2 DEF DetachNext

\* Thread::Stop gives up a mutex, or ends: the thread was on the core that
\* runs the kernel, and PrepareReschedule halts that core.
LEMMA ReleaseLocal ==
    ASSUME Inv, LocalOK, ReleaseNext PROVE LocalOK'
<1>0. /\ k \in KernelState /\ k.stop \in Threads /\ k.stop # None /\ k.thread = None
      /\ status[k.stop] = "Dead" /\ k.core = CoreOf[k.stop] /\ k.core \in Cores
      /\ UNCHANGED <<status, priorityVars, wake_events, current_thread>>
  BY DEF ReleaseNext, Inv, TypeOK, ControlOK, SubjectOK, KernelState, LocalOK, HereOK
<1>1. ASSUME NEW m \in k.mutexes, UNCHANGED <<held_mutexes, thread_list, halted>>,
             k' = [k EXCEPT !.pc = "wake", !.object = m, !.mutexes = @ \ {m}]
      PROVE  LocalOK'
  <2>1. HereStep
    BY <1>0, <1>1, LoopHere DEF KernelState
  <2> QED
    BY <1>0, <1>1, <2>1, StillLocal
<1>2. CASE /\ held_mutexes' = [held_mutexes EXCEPT ![k.stop] = {}]
           /\ thread_list' = thread_list \ {k.stop}
           /\ IF \E c \in Cores : current_thread[c] = k.stop
              THEN PrepareReschedule ELSE UNCHANGED halted
           /\ k' = [k EXCEPT !.pc = IF k.kill = {} THEN "user" ELSE "terminate",
                             !.stop = None]
  <2>1. k'.stop = None /\ k'.core = k.core /\ k'.kill = k.kill /\ k'.thread = None
    BY <1>0, <1>2 DEF KernelState
  <2>2. \A t \in Threads : held_mutexes'[t] = IF t = k.stop THEN {} ELSE held_mutexes[t]
    BY <1>0, <1>2 DEF Inv, TypeOK
  <2>3. HereOK'
    BY <2>1 DEF LocalOK, HereOK
  <2>4. ExecutedOK'
    <3>1. \A c \in Cores : ~halted'[c] => ~halted[c] /\ current_thread[c] # k.stop
      <4>1. CASE \E c \in Cores : current_thread[c] = k.stop
        <5>1. \A c \in Cores : halted'[c] = IF c = k.core THEN TRUE ELSE halted[c]
          BY <1>0, <1>2, <4>1 DEF PrepareReschedule, Inv, TypeOK
        <5>2. \A c \in Cores : current_thread[c] = k.stop => c = k.core
          BY <1>0 DEF Inv, CoresOK
        <5> QED
          BY <5>1, <5>2
      <4>2. CASE ~\E c \in Cores : current_thread[c] = k.stop
        BY <1>2, <4>2
      <4> QED
        BY <4>1, <4>2
    <3> QED
      BY <1>0, <3>1 DEF LocalOK, ExecutedOK
  <2>5. LivesOK'
    BY <1>0, <1>2, <2>1, <2>2 DEF LocalOK, LivesOK, Alive
  <2>6. BoostsOK'
    BY <1>0, <2>2 DEF LocalOK, BoostsOK, Boosted, IsBest
  <2> QED
    BY <2>3, <2>4, <2>5, <2>6 DEF LocalOK
<1> QED
  BY <1>1, <1>2 DEF ReleaseNext

\* TerminateProcessThreads stops threads of the core that runs the kernel.
LEMMA TerminateLocal ==
    ASSUME Inv, LocalOK, TerminateNext PROVE LocalOK'
<1>0. /\ k \in KernelState /\ k.pc = "terminate" /\ k.stop = None /\ k.thread = None
      /\ k.kill \in SUBSET Threads
  BY DEF TerminateNext, Inv, TypeOK, ControlOK, KernelState
<1>1. CASE /\ ReturnToUser
           /\ UNCHANGED <<status, priorityVars, mutexVars, signalVars, waitVars, arbiterVars,
                          processVars, coreVars, failed>>
  <2>1. HereStep
    BY <1>0, <1>1, ReturnHere
  <2> QED
    BY <1>1, <2>1, StillLocal
<1>2. ASSUME NEW u \in k.kill, Stop(u, [k EXCEPT !.kill = @ \ {u}]) PROVE LocalOK'
  <2> DEFINE kept == [k EXCEPT !.kill = @ \ {u}]
  <2>1. kept \in KernelState
    BY <1>0 DEF KernelState
  <2>2. kept.thread = None /\ kept.core = k.core /\ kept.kill \subseteq k.kill
    BY <1>0 DEF KernelState
  <2>3. Stop(u, kept) /\ u \in Threads /\ CoreOf[u] = k.core
    BY <1>0, <1>2 DEF LocalOK, HereOK
  <2> HIDE DEF kept
  <2> QED
    BY <1>0, <2>1, <2>2, <2>3, StopLocal
<1> QED
  BY <1>1, <1>2 DEF TerminateNext

\* The arbiter's loop resumes threads that sleep.
LEMMA ArbitrateLocal ==
    ASSUME Inv, LocalOK, ArbitrateNext PROVE LocalOK'
<1>0. k \in KernelState /\ k.pc = "arbitrate" /\ k.stop = None /\ k.thread = None
  BY DEF ArbitrateNext, Inv, TypeOK, ControlOK
<1>1. CASE \E message : Abort(message)
  BY <1>1, AbortLocal
<1>2. ASSUME NEW i \in 1 .. Len(arbiter), status[arbiter[i]] = "WaitArb", ResumeFromWait(arbiter[i]),
             k' = [k EXCEPT !.count = @ - 1],
             UNCHANGED <<priorityVars, held_mutexes, wake_events, thread_list, current_thread>>
      PROVE  LocalOK'
  <2>1. arbiter[i] \in Threads /\ Alive(arbiter[i])
    BY <1>2 DEF Inv, TypeOK, Alive
  <2>2. LivesStep
    BY <1>2, <2>1, ResumeLocal
  <2>3. k'.stop = None /\ k'.core = k.core /\ k'.kill = k.kill /\ k'.thread = None
    BY <1>0, <1>2 DEF KernelState
  <2>4. HereStep
    BY <1>0, <2>3 DEF HereStep
  <2> QED
    BY <1>2, <2>2, <2>4, QuietLocal
<1>3. CASE /\ ReturnToUser /\ PrepareReschedule
           /\ UNCHANGED <<status, priorityVars, mutexVars, signalVars, waitVars, arbiterVars,
                          processVars, current_thread, failed>>
  <2>1. HereStep
    BY <1>0, <1>3, ReturnHere
  <2>2. \A c \in Cores : ~halted'[c] => ~halted[c]
    BY <1>3 DEF PrepareReschedule, Inv, TypeOK
  <2> QED
    BY <1>3, <2>1, <2>2, StillLocal
<1> QED
  BY <1>1, <1>2, <1>3 DEF ArbitrateNext

\* A timeout finds a living thread.
LEMMA ThreadWakeupLocal ==
    ASSUME Inv, LocalOK, NEW t \in Threads, ThreadWakeupCallback(t) PROVE LocalOK'
<1>1. CASE Abort("wakeup_callback_table.at")
  BY <1>1, AbortLocal
<1>2. CASE /\ wake_events' = wake_events \ {t}
           /\ k' = [UserMode(CoreOf[t]) EXCEPT
                      !.pc = "remove", !.thread = t, !.rest = ObjectsToLeave(t)]
           /\ UNCHANGED <<status, priorityVars, mutexVars, processVars, coreVars>>
  <2>1. Idle /\ Alive(t)
    BY DEF ThreadWakeupCallback, LocalOK, LivesOK
  <2>2. k'.stop = None /\ k'.kill = {} /\ k'.thread = t
    BY <1>2 DEF UserMode
  <2>3. HereStep
    BY <1>2, <2>1, <2>2, CallHere DEF Alive
  <2>4. LivesStep
    BY <1>2 DEF LivesStep
  <2> QED
    BY <1>2, <2>3, <2>4, QuietLocal
<1> QED
  BY <1>1, <1>2 DEF ThreadWakeupCallback

\* SwitchContext to a ready or running thread of the core, or to none.
LEMMA SwitchLocal ==
    ASSUME Inv, LocalOK, Idle, NEW c \in Cores, NEW new \in Threads \cup {None}, SwitchTo(c, new),
           new # None => CoreOf[new] = c /\ status[new] \in {"Ready", "Running"},
           halted' = [halted EXCEPT ![c] = FALSE],
           UNCHANGED <<priorityVars, mutexVars, processVars, k>>
    PROVE  LocalOK'
<1>0. /\ k.stop = None /\ k.thread = None /\ k.kill = {} /\ None \notin Threads
      /\ current_thread \in [Cores -> Threads \cup {None}]
  BY KernelConstants DEF Inv, ControlOK, TypeOK, Idle, WaitObjects
<1>1. /\ \A d \in Cores : current_thread'[d] = IF d = c THEN new ELSE current_thread[d]
      /\ \A d \in Cores : halted'[d] = IF d = c THEN FALSE ELSE halted[d]
      /\ wake_events' = wake_events \ {new}
  BY DEF SwitchTo, Inv, TypeOK
<1>2. \A t \in Threads :
         status'[t] = IF t = new THEN "Running"
                      ELSE IF t = current_thread[c] /\ status[t] = "Running" THEN "Ready"
                      ELSE status[t]
  BY DEF SwitchTo
<1>3. HereOK'
  BY <1>0, CallHere, HereKept DEF LocalOK
<1>4. ExecutedOK'
  <2>1. ASSUME NEW d \in Cores, d # c, current_thread[d] # None
        PROVE  /\ current_thread[d] \in Threads /\ current_thread[d] # new
               /\ current_thread[d] # current_thread[c]
    BY <1>0, <2>1 DEF Inv, CoresOK
  <2>2. ASSUME NEW d \in Cores, d # c, current_thread'[d] # None, ~halted'[d]
        PROVE  status'[current_thread'[d]] = "Running"
    BY <1>0, <1>1, <1>2, <2>1, <2>2 DEF LocalOK, ExecutedOK
  <2>3. current_thread'[c] # None => status'[current_thread'[c]] = "Running"
    BY <1>1, <1>2
  <2> QED
    BY <2>2, <2>3 DEF ExecutedOK
<1>5. \A t \in Threads : status'[t] = status[t] \/ (Alive(t) /\ Alive(t)')
  BY <1>0, <1>2 DEF Alive
<1>6. LivesOK'
  BY <1>0, <1>1, <1>5 DEF LocalOK, LivesOK, Alive
<1>7. BoostsOK'
  BY <1>5, BoostsKept DEF LocalOK, Alive
<1> QED
  BY <1>3, <1>4, <1>6, <1>7 DEF LocalOK

\* Reschedule switches to a ready thread of the core, or keeps the one that
\* runs, or leaves the core without one.
LEMMA SwitchTarget ==
    ASSUME Inv, NEW c \in Cores, Reschedule(c)
    PROVE  \E new \in Threads \cup {None} :
             SwitchTo(c, new) /\ (new # None => CoreOf[new] = c /\ status[new] \in {"Ready", "Running"})
<1> DEFINE old == current_thread[c]
           running == old # None /\ status[old] = "Running"
           better == {r \in ReadyThreads(c) :
                        running => current_priority[r] < current_priority[old]}
<1>1. (\E r \in better : SwitchTo(c, r)) \/ SwitchTo(c, IF running THEN old ELSE None)
  BY DEF Reschedule
<1>2. ASSUME NEW r \in better, SwitchTo(c, r)
      PROVE  r \in Threads /\ SwitchTo(c, r) /\ CoreOf[r] = c /\ status[r] \in {"Ready", "Running"}
  BY <1>2 DEF ReadyThreads
<1>3. ASSUME SwitchTo(c, IF running THEN old ELSE None)
      PROVE  \E new \in Threads \cup {None} :
               SwitchTo(c, new) /\ (new # None => CoreOf[new] = c /\ status[new] \in {"Ready", "Running"})
  <2> DEFINE new == IF running THEN old ELSE None
  <2>1. old \in Threads \cup {None} /\ (old # None => CoreOf[old] = c)
    BY DEF Inv, TypeOK, CoresOK
  <2>2. new \in Threads \cup {None} /\ (new # None => CoreOf[new] = c /\ status[new] \in {"Ready", "Running"})
    BY <2>1
  <2>3. SwitchTo(c, new)
    BY <1>3
  <2> HIDE DEF new
  <2> QED
    BY <2>2, <2>3
<1> HIDE DEF better
<1> QED
  BY <1>1, <1>2, <1>3

\* Reschedule starts the core with a running thread or with none.
LEMMA RescheduleLocal ==
    ASSUME Inv, LocalOK, NEW c \in Cores, Reschedule(c) PROVE LocalOK'
<1>1. /\ Idle /\ halted' = [halted EXCEPT ![c] = FALSE]
      /\ UNCHANGED <<priorityVars, mutexVars, processVars, k>>
  BY DEF Reschedule
<1>2. PICK new \in Threads \cup {None} :
         SwitchTo(c, new) /\ (new # None => CoreOf[new] = c /\ status[new] \in {"Ready", "Running"})
  BY SwitchTarget
<1> QED
  BY <1>1, <1>2, SwitchLocal

\* Every step.
LEMMA LocalKept == ASSUME SameCore PROVE Inv /\ LocalOK /\ [Next]_vars => LocalOK'
<1> SUFFICES ASSUME Inv, LocalOK, [Next]_vars PROVE LocalOK'
  OBVIOUS
<1>1. CASE UNCHANGED vars
  <2>1. HereStep
    BY <1>1, LoopHere DEF vars
  <2> QED
    BY <1>1, <2>1, StillLocal DEF vars
<1>2. CASE \E c \in Cores, t \in Threads : SystemCall(c, t)
  BY <1>2, SystemCallLocal
<1>3. CASE KernelLoop
  BY <1>3, ListLoopsLocal, AcquireLocal, WakeLocal, RemoveLocal, DetachLocal, ReleaseLocal,
     TerminateLocal, ArbitrateLocal DEF KernelLoop
<1>4. CASE TimingEvent
  BY <1>4, SignalLocal, ThreadWakeupLocal DEF TimingEvent
<1>5. CASE \E c \in Cores : Reschedule(c)
  BY <1>5, RescheduleLocal
<1> QED
  BY <1>1, <1>2, <1>3, <1>4, <1>5 DEF Next

\* At first no core has a thread.
LEMMA LocalInit == Init => LocalOK
<1> SUFFICES ASSUME Init PROVE LocalOK
  OBVIOUS
<1>1. k.stop = None /\ k.kill = {} /\ k.thread = None /\ current_thread = [c \in Cores |-> None]
  BY DEF Init, UserMode
<1>2. HereOK /\ ExecutedOK
  BY <1>1 DEF HereOK, ExecutedOK
<1>3. LivesOK
  BY DEF Init, ThreadsCreated, LivesOK, Alive
<1>4. BoostsOK
  <2>1. \A t \in Threads : InitialPriority[t] \in Int /\ InitialPriority[t] <= InitialPriority[t]
    BY CallConstants, KernelConstants DEF Priorities
  <2> QED
    BY <2>1 DEF Init, ThreadsCreated, BoostsOK, Boosted, IsBest
<1> QED
  BY <1>2, <1>3, <1>4 DEF LocalOK

\* LocalOK holds in every reachable state.
LEMMA LocalHolds == ASSUME SameCore PROVE Spec => [](Inv /\ LocalOK)
<1>1. Inv /\ LocalOK /\ [Next]_vars => LocalOK'
  BY LocalKept
<1> QED
  BY <1>1, InvHolds, LocalInit, PTL DEF Spec

(***************************************************************************)
(* At most one thread of a core is Running, the core's current thread, and *)
(* a core executes a Running thread or is halted.  On a system whose       *)
(* processes are terminated from other cores it does not hold.             *)
(***************************************************************************)
THEOREM OneThreadRuns == ASSUME SameCore PROVE Spec => []OneRunningThread
<1>1. Inv /\ LocalOK => OneRunningThread
  <2> SUFFICES ASSUME Inv, LocalOK PROVE OneRunningThread
    OBVIOUS
  <2>1. k.pc = "user" => k.stop = None
    BY DEF Inv, ControlOK
  <2> QED
    BY <2>1 DEF Inv, RunningOK, LocalOK, ExecutedOK, OneRunningThread
<1> QED
  BY <1>1, LocalHolds, PTL

(***************************************************************************)
(* Between calls a thread that was stopped holds no mutex, is on no list,  *)
(* and has no wakeup pending: Thread::Stop cleaned up, whatever the thread *)
(* was doing, and nothing the thread did since has undone it.              *)
(***************************************************************************)
THEOREM DeadAreDetached == ASSUME SameCore PROVE Spec => []DeadThreadsDetached
<1>1. Inv /\ LocalOK => DeadThreadsDetached
  <2> SUFFICES ASSUME Inv, LocalOK, k.pc = "user", NEW t \in Threads, status[t] = "Dead"
               PROVE  /\ \A m \in Mutexes : holding_thread[m] # t
                      /\ held_mutexes[t] = {}
                      /\ \A o \in WaitObjects : ~IsIn(t, waiting_threads[o])
                      /\ t \notin wake_events /\ t \notin thread_list
    BY DEF DeadThreadsDetached
  <2>1. k.stop = None /\ t # None
    BY KernelConstants DEF Inv, ControlOK, WaitObjects
  <2>2. held_mutexes[t] = {} /\ t \notin wake_events /\ t \notin thread_list
    BY <2>1 DEF LocalOK, LivesOK, Alive
  <2>3. \A m \in Mutexes : holding_thread[m] # t
    BY <2>2 DEF Inv, MutexesOK
  <2>4. wait_objects[t] = << >>
    BY <2>1 DEF Inv, SleepersOK, StopsEarly, WaitSynch
  <2>5. \A o \in WaitObjects : ~IsIn(t, waiting_threads[o])
    BY <2>4, IsInEmpty DEF Inv, ListsOK
  <2> QED
    BY <2>2, <2>3, <2>5
<1> QED
  BY <1>1, LocalHolds, PTL

(***************************************************************************)
(* Between calls every living thread runs at the best of its nominal       *)
(* priority and the priorities of the mutexes it holds.                    *)
(***************************************************************************)
THEOREM BoostsAreUpToDate == ASSUME SameCore PROVE Spec => []BoostUpToDate
<1>1. LocalOK => BoostUpToDate
  BY DEF LocalOK, BoostsOK, Boosted, BoostUpToDate
<1> QED
  BY <1>1, LocalHolds, PTL

\* Only the calling thread, which runs, a new thread, and a thread on a
\* waiting list or on the arbiter's list change status, but for Thread::Stop.
LEMMA DeadKept ==
    ASSUME Inv, LocalOK, [Next]_vars, NEW u \in Threads, status[u] = "Dead"
    PROVE  status'[u] = "Dead"
<1>0. status \in [Threads -> Statuses] /\ k \in KernelState
  BY DEF Inv, TypeOK
<1>1. CASE UNCHANGED status
  BY <1>1
<1>2. ASSUME NEW t \in Threads, status[t] # "Dead", NEW s, status' = [status EXCEPT ![t] = s]
      PROVE  status'[u] = "Dead"
  BY <1>0, <1>2
<1>3. ASSUME NEW t \in Threads, status' = [status EXCEPT ![t] = "Dead"] PROVE status'[u] = "Dead"
  BY <1>0, <1>3
<1>4. ASSUME NEW t \in Threads, ResumeFromWait(t) PROVE status'[u] = "Dead"
  BY <1>0, <1>4 DEF ResumeFromWait
<1>5. ASSUME NEW c \in Cores, NEW t \in Threads, SystemCall(c, t) PROVE status'[u] = "Dead"
  <2>1. Executes(c, t)
    BY <1>5 DEF SystemCall, WaitSynchronization1, WaitSynchronizationN, SignalEvent, ClearSignal,
       ReleaseSemaphore, ReleaseMutex, SetTimer, CancelTimer, SleepThread, ArbitrateWait,
       ArbitratePass, ArbitrateSignal, Store, CreateThread, SetThreadPriority, ExitThread,
       TerminateProcess
  <2>2. status[t] # "Dead"
    BY <2>1, CallerRuns DEF Alive
  <2>3. \/ UNCHANGED status
        \/ \E s : status' = [status EXCEPT ![t] = s]
        \/ \E new \in Threads : status[new] = "Unborn" /\ status' = [status EXCEPT ![new] = "Ready"]
    BY <1>5 DEF SystemCall, WaitSynchronization1, WaitSynchronizationN, SignalEvent, ClearSignal,
       ReleaseSemaphore, ReleaseMutex, SetTimer, CancelTimer, SleepThread, ArbitrateWait,
       ArbitratePass, ArbitrateSignal, Store, CreateThread, SetThreadPriority, ExitThread,
       TerminateProcess, SleepOn, AcquireNow, Stop, Abort
  <2> QED
    BY <1>1, <1>2, <2>2, <2>3
<1>6. CASE KernelLoop
  <2>1. CASE AddNext \/ PriorityNext \/ DetachNext \/ ReleaseNext
    BY <1>1, <2>1 DEF AddNext, PriorityNext, DetachNext, ReleaseNext
  <2>2. CASE AcquireNext \/ WakeNext
    BY <1>1, <2>2 DEF AcquireNext, WakeNext, WakeOne, WakeDone, Abort
  <2>3. CASE RemoveNext
    <3>1. k.thread \in Threads
      BY <2>3 DEF RemoveNext, Inv, ControlOK, TypeOK, KernelState
    <3> QED
      BY <1>1, <1>4, <2>3, <3>1 DEF RemoveNext, Abort
  <2>4. CASE TerminateNext
    <3>1. k.kill \in SUBSET Threads
      BY <1>0 DEF KernelState
    <3> QED
      BY <1>1, <1>3, <2>4, <3>1 DEF TerminateNext, Stop
  <2>5. CASE ArbitrateNext
    <3>1. \A i \in 1 .. Len(arbiter) : arbiter[i] \in Threads
      BY DEF Inv, TypeOK
    <3> QED
      BY <1>1, <1>4, <2>5, <3>1 DEF ArbitrateNext, Abort
  <2> QED
    BY <1>6, <2>1, <2>2, <2>3, <2>4, <2>5 DEF KernelLoop
<1>7. CASE TimingEvent
  BY <1>1, <1>7 DEF TimingEvent, TimerCallback, ThreadWakeupCallback, Abort
<1>8. ASSUME NEW c \in Cores, Reschedule(c) PROVE status'[u] = "Dead"
  <2>1. PICK new \in Threads \cup {None} :
           SwitchTo(c, new) /\ (new # None => CoreOf[new] = c /\ status[new] \in {"Ready", "Running"})
    BY <1>8, SwitchTarget
  <2>2. u # new
    BY <2>1, KernelConstants DEF WaitObjects
  <2> QED
    BY <2>1, <2>2 DEF SwitchTo
<1> QED
  BY <1>1, <1>5, <1>6, <1>7, <1>8 DEF Next, vars

(***************************************************************************)
(* "Stops a thread, invalidating it from further use" (thread.h): a dead   *)
(* thread never becomes anything else, as long as no process is terminated *)
(* from another core than its threads' (there the property is violated).   *)
(***************************************************************************)
THEOREM DeadForGood == ASSUME SameCore PROVE Spec => DeadStaysDead
<1>1. Inv /\ LocalOK /\ [Next]_vars =>
        [\A t \in Threads : status[t] = "Dead" => status'[t] = "Dead"]_vars
  BY DeadKept
<1> QED
  BY <1>1, LocalHolds, PTL DEF Spec, DeadStaysDead

-----------------------------------------------------------------------------
(***************************************************************************)
(* The waiting lists hold waiting threads.  A thread that waits for itself *)
(* would be on its own list when it is stopped, no longer waiting.         *)
(***************************************************************************)
NoSelfWait ==
    \A t \in Threads : t \notin WaitTargets[t] /\ \A objs \in WaitLists[t] : ~IsIn(t, objs)

\* A thread waits for what it called WaitSynchronization with.
Asked(t) == {<< >>} \cup {<<o>> : o \in WaitTargets[t]} \cup WaitLists[t]
AskedOK == \A t \in Threads : wait_objects[t] \in Asked(t)

\* A thread goes to sleep on what it called with.
LEMMA SleepOnAsked ==
    ASSUME Inv, AskedOK, NEW c \in Cores, NEW t \in Threads, NEW objs \in Asked(t), NEW mode, NEW to,
           SleepOn(c, t, objs, mode, to)
    PROVE  AskedOK'
<1>1. \A u \in Threads : wait_objects'[u] = IF u = t THEN objs ELSE wait_objects[u]
  BY DEF SleepOn, Inv, TypeOK
<1> QED
  BY <1>1 DEF AskedOK, Asked

\* Every step.
LEMMA AskedKept == Inv /\ AskedOK /\ [Next]_vars => AskedOK'
<1> SUFFICES ASSUME Inv, AskedOK, [Next]_vars PROVE AskedOK'
  OBVIOUS
<1>0. wait_objects \in [Threads -> Seq(WaitObjects)]
  BY DEF Inv, TypeOK
<1>1. CASE UNCHANGED wait_objects
  BY <1>1 DEF AskedOK, Asked
<1>2. ASSUME NEW t, wait_objects' = [wait_objects EXCEPT ![t] = << >>] PROVE AskedOK'
  <2>1. \A u \in Threads : wait_objects'[u] = wait_objects[u] \/ wait_objects'[u] = << >>
    BY <1>0, <1>2
  <2> QED
    BY <2>1 DEF AskedOK, Asked
<1>3. ASSUME NEW c \in Cores, NEW t \in Threads, SystemCall(c, t) PROVE AskedOK'
  <2>1. ASSUME NEW o \in WaitTargets[t], NEW to \in Timeouts, WaitSynchronization1(c, t, o, to)
        PROVE  AskedOK'
    <3>1. <<o>> \in Asked(t)
      BY DEF Asked
    <3> QED
      BY <1>1, <2>1, <3>1, SleepOnAsked DEF WaitSynchronization1, AcquireNow
  <2>2. ASSUME NEW objs \in WaitLists[t], NEW all \in BOOLEAN, NEW to \in Timeouts,
               WaitSynchronizationN(c, t, objs, all, to)
        PROVE  AskedOK'
    <3>1. objs \in Asked(t)
      BY DEF Asked
    <3> QED
      BY <1>1, <2>2, <3>1, SleepOnAsked DEF WaitSynchronizationN, AcquireNow
  <2>3. \/ \E o \in WaitTargets[t], to \in Timeouts : WaitSynchronization1(c, t, o, to)
        \/ \E objs \in WaitLists[t], all \in BOOLEAN, to \in Timeouts :
             WaitSynchronizationN(c, t, objs, all, to)
        \/ UNCHANGED wait_objects
    BY <1>3 DEF SystemCall, SignalEvent, ClearSignal, ReleaseSemaphore, ReleaseMutex, SetTimer,
       CancelTimer, SleepThread, ArbitrateWait, ArbitratePass, ArbitrateSignal, Store,
       CreateThread, SetThreadPriority, ExitThread, TerminateProcess, Stop, Abort
  <2> QED
    BY <1>1, <2>1, <2>2, <2>3
<1>4. CASE KernelLoop
  BY <1>1, <1>2, <1>4 DEF KernelLoop, AddNext, AcquireNext, WakeNext, WakeOne, WakeDone, RemoveNext,
     DetachNext, ReleaseNext, TerminateNext, PriorityNext, ArbitrateNext, Stop, Abort
<1>5. CASE TimingEvent \/ \E c \in Cores : Reschedule(c)
  BY <1>1, <1>5 DEF TimingEvent, TimerCallback, ThreadWakeupCallback, Reschedule, Abort
<1> QED
  BY <1>1, <1>3, <1>4, <1>5 DEF Next, vars

\* AskedOK holds in every reachable state.
LEMMA AskedHolds == Spec => [](Inv /\ AskedOK)
<1>1. Init => AskedOK
  BY DEF Init, ThreadsCreated, AskedOK, Asked
<1> QED
  BY <1>1, AskedKept, InvHolds, PTL DEF Spec

\* Whoever is on the list of the object being woken is asleep.
LEMMA ListedAreAsleep ==
    ASSUME NoSelfWait, Inv, AskedOK, k.pc = "wake" PROVE WaitersConsistent(k.object)
<1>1. k.object \in WaitObjects
  BY DEF Inv, ControlOK, TypeOK, KernelState
<1>2. ASSUME NEW t \in Threads, IsIn(t, waiting_threads[k.object]) PROVE status[t] \in WaitSynch
  <2>1. IsIn(k.object, wait_objects[t])
    BY <1>1, <1>2 DEF Inv, ListsOK
  <2>2. wait_objects[t] # << >>
    BY <2>1, IsInEmpty
  <2>3. t # k.object
    <3>1. ~IsIn(t, << >>) /\ \A o \in WaitTargets[t] : ~IsIn(t, <<o>>)
      BY IsInEmpty, IsInOne DEF NoSelfWait
    <3>2. ~IsIn(t, wait_objects[t])
      BY <3>1 DEF AskedOK, Asked, NoSelfWait
    <3> QED
      BY <2>1, <3>2
  <2> QED
    BY <2>2, <2>3 DEF Inv, SleepersOK, StopsEarly
<1> QED
  BY <1>2 DEF WaitersConsistent, Waiters

(***************************************************************************)
(* The list of an object that is being woken holds waiting threads only,   *)
(* the ASSERT of GetHighestPriorityReadyThread, even in Thread::Stop, which*)
(* wakes others before it takes its own thread off the lists.              *)
(***************************************************************************)
THEOREM WaitersWait == ASSUME NoSelfWait PROVE Spec => []WaitersAreWaiting
<1>1. Inv /\ AskedOK /\ WaitersAreWaiting /\ [Next]_vars => WaitersAreWaiting'
  <2> SUFFICES ASSUME Inv, AskedOK, WaitersAreWaiting, [Next]_vars PROVE WaitersAreWaiting'
    OBVIOUS
  <2>1. CASE UNCHANGED failed
    BY <2>1 DEF WaitersAreWaiting
  <2>2. ASSUME NEW c \in Cores, NEW t \in Threads, SystemCall(c, t) PROVE WaitersAreWaiting'
    <3>1. UNCHANGED failed \/ failed' = "Process has already exited"
      BY <2>2 DEF SystemCall, WaitSynchronization1, WaitSynchronizationN, SleepOn, AcquireNow,
         SignalEvent, ClearSignal, ReleaseSemaphore, ReleaseMutex, SetTimer,
         CancelTimer, SleepThread, ArbitrateWait, ArbitratePass, ArbitrateSignal, Store,
         CreateThread, SetThreadPriority, ExitThread, TerminateProcess, Stop, Abort
    <3> QED
      BY <2>1, <3>1 DEF WaitersAreWaiting
  <2>3. CASE KernelLoop
    <3>1. CASE WakeNext
      <4>1. WaitersConsistent(k.object)
        BY <3>1, ListedAreAsleep DEF WakeNext
      <4> QED
        BY <2>1, <3>1, <4>1 DEF WakeNext, WakeOne, WakeDone
    <3>2. CASE AddNext \/ AcquireNext \/ RemoveNext \/ DetachNext \/ ReleaseNext
      BY <2>1, <3>2 DEF AddNext, AcquireNext, RemoveNext, DetachNext, ReleaseNext, Abort,
         WaitersAreWaiting
    <3>3. CASE TerminateNext \/ PriorityNext \/ ArbitrateNext
      BY <2>1, <3>3 DEF TerminateNext, PriorityNext, ArbitrateNext, Stop, Abort, WaitersAreWaiting
    <3> QED
      BY <2>3, <3>1, <3>2, <3>3 DEF KernelLoop
  <2>4. CASE TimingEvent \/ \E c \in Cores : Reschedule(c)
    BY <2>1, <2>4 DEF TimingEvent, TimerCallback, ThreadWakeupCallback, Reschedule, Abort,
       WaitersAreWaiting
  <2> QED
    BY <2>1, <2>2, <2>3, <2>4 DEF Next, vars
<1>2. Init => WaitersAreWaiting
  BY DEF Init, WaitersAreWaiting
<1> QED
  BY <1>1, <1>2, AskedHolds, PTL DEF Spec

-----------------------------------------------------------------------------
(***************************************************************************)
(* The address arbiter, for programs whose threads end by ExitThread only: *)
(* Thread::Stop does not take a thread off the arbiter's list.             *)
(***************************************************************************)
NobodyTerminated == Terminated = {}

Resuming(t) == k.pc = "remove" /\ t = k.thread

\* A thread has the callback of the wait it is in and none outside of waits;
\* no wakeup is pending for a thread that runs.
CallbackOK(t) ==
    /\ status[t] = "WaitArb" /\ t \in wake_events => wakeup_callback[t] = "arbiter"
    /\ status[t] = "Running" => t \notin wake_events
    /\ status[t] \in {"Ready", "Running", "Unborn", "WaitSleep"} => wakeup_callback[t] = "null"
    /\ status[t] \in WaitSynch => wakeup_callback[t] = "sync"

ListedOK(t) == IsIn(t, arbiter) <=> status[t] = "WaitArb" /\ ~Resuming(t)

NoKills == k.pc # "terminate" /\ k.kill = {}

ArbiterOK ==
    /\ Unique(arbiter)
    /\ \A t \in Threads : CallbackOK(t) /\ ListedOK(t)
    /\ NoKills

\* What a step does to a thread that it is not about.
LeftAlone(t) ==
    /\ status'[t] = status[t] /\ wakeup_callback'[t] = wakeup_callback[t]
    /\ t \in wake_events' => t \in wake_events
    /\ IsIn(t, arbiter)' <=> IsIn(t, arbiter)
    /\ status[t] = "WaitArb" => (Resuming(t)' <=> Resuming(t))

\* It is enough to look at the threads a step is about.
LEMMA ArbiterStep ==
    ASSUME ArbiterOK, Unique(arbiter)', NoKills',
           \A t \in Threads : LeftAlone(t) \/ (CallbackOK(t)' /\ ListedOK(t)')
    PROVE  ArbiterOK'
<1>1. ASSUME NEW t \in Threads, LeftAlone(t) PROVE CallbackOK(t)' /\ ListedOK(t)'
  BY <1>1 DEF ArbiterOK, LeftAlone, CallbackOK, ListedOK
<1> QED
  BY <1>1 DEF ArbiterOK

\* A step that is about no thread's wait.
LEMMA QuietArbiter ==
    ASSUME ArbiterOK, NoKills', UNCHANGED <<status, wakeup_callback, wake_events, arbiter>>,
           \A t \in Threads : status[t] = "WaitArb" => (Resuming(t)' <=> Resuming(t))
    PROVE  ArbiterOK'
<1>1. Unique(arbiter)' /\ \A t \in Threads : IsIn(t, arbiter)' <=> IsIn(t, arbiter)
  BY DEF ArbiterOK, Unique, IsIn
<1>2. \A t \in Threads : LeftAlone(t)
  BY <1>1 DEF LeftAlone
<1> QED
  BY <1>1, <1>2, ArbiterStep

\* A step between loops that resume nobody.
LEMMA QuietCallArbiter ==
    ASSUME ArbiterOK, NoKills', UNCHANGED <<status, wakeup_callback, wake_events, arbiter>>,
           k.pc # "remove", k'.pc # "remove"
    PROVE  ArbiterOK'
BY QuietArbiter DEF Resuming

\* A step that moves one thread, which does not arbitrate before or after it.
LEMMA OneThreadArbiter ==
    ASSUME Inv, ArbiterOK, NoKills', UNCHANGED arbiter, k.pc # "remove", k'.pc # "remove",
           NEW t \in Threads, status[t] # "WaitArb", status'[t] # "WaitArb", CallbackOK(t)',
           \A u \in Threads : u # t => /\ status'[u] = status[u]
                                       /\ wakeup_callback'[u] = wakeup_callback[u]
                                       /\ u \in wake_events' => u \in wake_events
    PROVE  ArbiterOK'
<1>1. Unique(arbiter)' /\ \A u \in Threads : IsIn(u, arbiter)' <=> IsIn(u, arbiter)
  BY DEF ArbiterOK, Unique, IsIn
<1>2. \A u \in Threads : u # t => LeftAlone(u)
  BY <1>1 DEF LeftAlone, Resuming
<1>3. ListedOK(t)'
  BY <1>1 DEF ArbiterOK, ListedOK
<1> QED
  BY <1>1, <1>2, <1>3, ArbiterStep

\* The caller has no callback, no wakeup and is not on the arbiter's list.
LEMMA CallArbiter ==
    ASSUME Inv, LocalOK, ArbiterOK, NEW c \in Cores, NEW t \in Threads, Executes(c, t)
    PROVE  /\ k.pc = "user" /\ k.kill = {} /\ status[t] = "Running" /\ t \notin wake_events
           /\ wakeup_callback[t] = "null" /\ ~IsIn(t, arbiter)
           /\ status \in [Threads -> Statuses]
           /\ wakeup_callback \in [Threads -> {"null", "sync", "arbiter"}]
<1>1. k.pc = "user" /\ k.kill = {} /\ status[t] = "Running"
  BY CallerRuns
<1> QED
  BY <1>1 DEF ArbiterOK, CallbackOK, ListedOK, Inv, TypeOK

\* The waiting calls.
LEMMA WaitCallArbiter ==
    ASSUME Inv, LocalOK, ArbiterOK, NEW c \in Cores, NEW t \in Threads
    PROVE  /\ \A o \in WaitTargets[t], to \in Timeouts : WaitSynchronization1(c, t, o, to) => ArbiterOK'
           /\ \A objs \in WaitLists[t], all \in BOOLEAN, to \in Timeouts :
                WaitSynchronizationN(c, t, objs, all, to) => ArbiterOK'
<1>1. ASSUME NEW objs, AcquireNow(c, t, objs), Executes(c, t) PROVE ArbiterOK'
  <2>1. k'.pc = "acquire" /\ k'.kill = {} /\ k.pc = "user"
    BY <1>1, CallArbiter DEF AcquireNow, UserMode
  <2> QED
    BY <1>1, <2>1, QuietCallArbiter DEF AcquireNow, NoKills
<1>2. ASSUME NEW objs, NEW mode \in WaitSynch, NEW to, SleepOn(c, t, objs, mode, to), Executes(c, t)
      PROVE  ArbiterOK'
  <2>1. k'.pc = "add" /\ k'.kill = {} /\ k.pc = "user" /\ status[t] = "Running"
    BY <1>2, CallArbiter DEF SleepOn, UserMode
  <2>2. /\ \A u \in Threads : status'[u] = IF u = t THEN mode ELSE status[u]
        /\ \A u \in Threads : wakeup_callback'[u] = IF u = t THEN "sync" ELSE wakeup_callback[u]
        /\ \A u \in Threads : u # t /\ u \in wake_events' => u \in wake_events
        /\ UNCHANGED arbiter
    BY <1>2 DEF SleepOn, Inv, TypeOK
  <2>3. CallbackOK(t)' /\ status'[t] # "WaitArb"
    BY <2>2 DEF CallbackOK, WaitSynch
  <2> QED
    BY <2>1, <2>2, <2>3, OneThreadArbiter DEF NoKills
<1>3. ASSUME NEW o \in WaitTargets[t], NEW to \in Timeouts, WaitSynchronization1(c, t, o, to)
      PROVE  ArbiterOK'
  BY <1>1, <1>2, <1>3 DEF WaitSynchronization1, WaitSynch
<1>4. ASSUME NEW objs \in WaitLists[t], NEW all \in BOOLEAN, NEW to \in Timeouts,
             WaitSynchronizationN(c, t, objs, all, to)
      PROVE  ArbiterOK'
  BY <1>1, <1>2, <1>4 DEF WaitSynchronizationN, WaitSynch
<1> QED
  BY <1>3, <1>4

\* The calls that change objects, priorities or words: no thread is moved.
LEMMA ObjectCallArbiter ==
    ASSUME Inv, ArbiterOK, Idle, UNCHANGED <<status, wakeup_callback, wake_events, arbiter>>,
           \/ UNCHANGED k
           \/ \E c \in Cores : \E o : Wakes(c, o)
           \/ \E c \in Cores : \E u : k' = [UserMode(c) EXCEPT !.pc = "priority", !.mutexes = u]
           \/ \E c \in Cores : \E a, v :
                 k' = [UserMode(c) EXCEPT !.pc = "arbitrate", !.address = a, !.count = v]
    PROVE  ArbiterOK'
<1>1. k.pc = "user" /\ k.kill = {}
  BY DEF Idle, Inv, ControlOK
<1>2. k'.pc \in {"user", "wake", "priority", "arbitrate"} /\ k'.kill = {}
  BY <1>1 DEF Wakes, UserMode
<1> QED
  BY <1>1, <1>2, QuietCallArbiter DEF NoKills

\* The calls and the timing event that move no thread.
LEMMA SignalArbiter ==
    ASSUME Inv, ArbiterOK, NEW c \in Cores
    PROVE  /\ \A t \in Threads, e \in Events : SignalEvent(c, t, e) => ArbiterOK'
           /\ \A t \in Threads, s \in Semaphores, n \in ReleaseCounts :
                ReleaseSemaphore(c, t, s, n) => ArbiterOK'
           /\ \A t \in Threads, tm \in Timers, immediate, repeat \in BOOLEAN :
                SetTimer(c, t, tm, immediate, repeat) => ArbiterOK'
           /\ \A tm \in Timers : TimerCallback(c, tm) => ArbiterOK'
           /\ \A t \in Threads, e \in Signals : ClearSignal(c, t, e) => ArbiterOK'
           /\ \A t \in Threads, tm \in Timers : CancelTimer(c, t, tm) => ArbiterOK'
           /\ \A t \in Threads, m \in Mutexes : ReleaseMutex(c, t, m) => ArbiterOK'
           /\ \A t, u \in Threads, p \in NewPriorities : SetThreadPriority(c, t, u, p) => ArbiterOK'
           /\ \A t \in Threads : \A a, v :
                ArbitratePass(c, t, a, v) \/ ArbitrateSignal(c, t, a, v) \/ Store(c, t, a, v)
                    => ArbiterOK'
<1>1. ASSUME NEW t \in Threads, NEW e \in Events, SignalEvent(c, t, e) PROVE ArbiterOK'
  BY <1>1, ObjectCallArbiter DEF SignalEvent, Executes
<1>2. ASSUME NEW t \in Threads, NEW s \in Semaphores, NEW n \in ReleaseCounts,
             ReleaseSemaphore(c, t, s, n)
      PROVE  ArbiterOK'
  BY <1>2, ObjectCallArbiter DEF ReleaseSemaphore, Executes
<1>3. ASSUME NEW t \in Threads, NEW tm \in Timers, NEW immediate \in BOOLEAN,
             NEW repeat \in BOOLEAN, SetTimer(c, t, tm, immediate, repeat)
      PROVE  ArbiterOK'
  BY <1>3, ObjectCallArbiter DEF SetTimer, Executes
<1>4. ASSUME NEW tm \in Timers, TimerCallback(c, tm) PROVE ArbiterOK'
  BY <1>4, ObjectCallArbiter DEF TimerCallback
<1>5. ASSUME NEW t \in Threads, NEW e \in Signals, ClearSignal(c, t, e) PROVE ArbiterOK'
  BY <1>5, ObjectCallArbiter DEF ClearSignal, Executes
<1>6. ASSUME NEW t \in Threads, NEW tm \in Timers, CancelTimer(c, t, tm) PROVE ArbiterOK'
  BY <1>6, ObjectCallArbiter DEF CancelTimer, Executes
<1>7. ASSUME NEW t \in Threads, NEW m \in Mutexes, ReleaseMutex(c, t, m) PROVE ArbiterOK'
  BY <1>7, ObjectCallArbiter DEF ReleaseMutex, Executes
<1>8. ASSUME NEW t \in Threads, NEW u \in Threads, NEW p \in NewPriorities,
             SetThreadPriority(c, t, u, p)
      PROVE  ArbiterOK'
  BY <1>8, ObjectCallArbiter DEF SetThreadPriority, Executes
<1>9. ASSUME NEW t \in Threads, NEW a, NEW v,
             ArbitratePass(c, t, a, v) \/ ArbitrateSignal(c, t, a, v) \/ Store(c, t, a, v)
      PROVE  ArbiterOK'
  BY <1>9, ObjectCallArbiter DEF ArbitratePass, ArbitrateSignal, Store, Executes
<1> QED
  BY <1>1, <1>2, <1>3, <1>4, <1>5, <1>6, <1>7, <1>8, <1>9

\* Sleeping, creating a thread and exiting.
LEMMA ThreadCallArbiter ==
    ASSUME Inv, LocalOK, ArbiterOK, NEW c \in Cores, NEW t \in Threads
    PROVE  /\ \A to \in Timeouts : SleepThread(c, t, to) => ArbiterOK'
           /\ \A new \in Threads, p \in NewPriorities : CreateThread(c, t, new, p) => ArbiterOK'
           /\ ExitThread(c, t) => ArbiterOK'
<1>1. ASSUME NEW to \in Timeouts, SleepThread(c, t, to) PROVE ArbiterOK'
  <2>1. /\ k.pc = "user" /\ k.kill = {} /\ status[t] = "Running" /\ wakeup_callback[t] = "null"
        /\ UNCHANGED <<k, arbiter, wakeup_callback>>
    BY <1>1, CallArbiter DEF SleepThread
  <2>2. /\ \A u \in Threads : status'[u] = IF u = t THEN "WaitSleep" ELSE status[u]
        /\ \A u \in Threads : u # t /\ u \in wake_events' => u \in wake_events
    BY <1>1 DEF SleepThread, Inv, TypeOK
  <2>3. CallbackOK(t)' /\ status'[t] # "WaitArb"
    BY <2>1, <2>2 DEF CallbackOK, WaitSynch
  <2> QED
    BY <2>1, <2>2, <2>3, OneThreadArbiter DEF NoKills
<1>2. ASSUME NEW new \in Threads, NEW p \in NewPriorities, CreateThread(c, t, new, p)
      PROVE  ArbiterOK'
  <2>1. /\ k.pc = "user" /\ k.kill = {} /\ status[new] = "Unborn" /\ wakeup_callback[new] = "null"
        /\ UNCHANGED <<k, arbiter, wakeup_callback, wake_events>>
    BY <1>2, CallArbiter DEF CreateThread, ArbiterOK, CallbackOK
  <2>2. \A u \in Threads : status'[u] = IF u = new THEN "Ready" ELSE status[u]
    BY <1>2 DEF CreateThread, Inv, TypeOK
  <2>3. CallbackOK(new)' /\ status'[new] # "WaitArb"
    BY <2>1, <2>2 DEF CallbackOK, WaitSynch
  <2> QED
    BY <2>1, <2>2, <2>3, OneThreadArbiter DEF NoKills
<1>3. ASSUME ExitThread(c, t) PROVE ArbiterOK'
  <2>1. k.pc = "user" /\ status[t] = "Running" /\ UserMode(c) \in KernelState
    BY <1>3, CallArbiter, UserModeType DEF ExitThread
  <2>2. k' = [UserMode(c) EXCEPT !.pc = "wake", !.object = t, !.stop = t]
    BY <1>3 DEF ExitThread, Stop
  <2>3. k'.pc = "wake" /\ k'.kill = {}
    BY <2>2 DEF UserMode
  <2>4. /\ \A u \in Threads : status'[u] = IF u = t THEN "Dead" ELSE status[u]
        /\ \A u \in Threads : u \in wake_events' => u \in wake_events
        /\ UNCHANGED <<arbiter, wakeup_callback>>
    BY <1>3 DEF ExitThread, Stop, Inv, TypeOK
  <2>5. CallbackOK(t)' /\ status'[t] # "WaitArb"
    BY <2>4 DEF CallbackOK, WaitSynch
  <2> QED
    BY <2>1, <2>3, <2>4, <2>5, OneThreadArbiter DEF NoKills
<1> QED
  BY <1>1, <1>2, <1>3

\* The caller joins the arbiter's list, on which it was not.
LEMMA ArbitrateWaitArbiter ==
    ASSUME Inv, LocalOK, ArbiterOK, NEW c \in Cores, NEW t \in Threads, NEW a, NEW v, NEW dec, NEW to,
           ArbitrateWait(c, t, a, v, dec, to)
    PROVE  ArbiterOK'
<1>1. /\ k.pc = "user" /\ k.kill = {} /\ status[t] = "Running" /\ ~IsIn(t, arbiter)
      /\ t \notin wake_events /\ arbiter \in Seq(Threads) /\ UNCHANGED k
  BY CallArbiter DEF ArbitrateWait, Inv, TypeOK
<1>2. arbiter' = Append(arbiter, t)
  BY DEF ArbitrateWait
<1>3. /\ Unique(Append(arbiter, t))
      /\ \A u : IsIn(u, Append(arbiter, t)) <=> IsIn(u, arbiter) \/ u = t
  BY <1>1, AppendFacts DEF ArbiterOK
<1>4. Unique(arbiter)' /\ \A u \in Threads : IsIn(u, arbiter)' <=> IsIn(u, arbiter) \/ u = t
  BY <1>2, <1>3 DEF Unique, IsIn
<1>5. /\ \A u \in Threads : status'[u] = IF u = t THEN "WaitArb" ELSE status[u]
      /\ \A u \in Threads : u # t => wakeup_callback'[u] = wakeup_callback[u]
      /\ \A u \in Threads : u # t /\ u \in wake_events' => u \in wake_events
      /\ t \in wake_events' => wakeup_callback'[t] = "arbiter"
  BY <1>1 DEF ArbitrateWait, Inv, TypeOK
<1>6. \A u \in Threads : u # t => LeftAlone(u)
  BY <1>1, <1>4, <1>5 DEF LeftAlone, Resuming
<1>7. CallbackOK(t)' /\ ListedOK(t)'
  BY <1>1, <1>4, <1>5 DEF CallbackOK, ListedOK, Resuming, WaitSynch
<1>8. NoKills'
  BY <1>1 DEF NoKills
<1> QED
  BY <1>4, <1>6, <1>7, <1>8, ArbiterStep

\* Every system call.
LEMMA SystemCallArbiter ==
    ASSUME NobodyTerminated, Inv, LocalOK, ArbiterOK, NEW c \in Cores, NEW t \in Threads,
           SystemCall(c, t)
    PROVE  ArbiterOK'
<1>1. CASE \/ \E o \in WaitTargets[t], to \in Timeouts : WaitSynchronization1(c, t, o, to)
           \/ \E objs \in WaitLists[t], all \in BOOLEAN, to \in Timeouts :
                WaitSynchronizationN(c, t, objs, all, to)
  BY <1>1, WaitCallArbiter
<1>2. CASE \/ \E e \in Events : SignalEvent(c, t, e)
           \/ \E e \in Signals : ClearSignal(c, t, e)
           \/ \E s \in Semaphores, n \in ReleaseCounts : ReleaseSemaphore(c, t, s, n)
           \/ \E m \in Mutexes : ReleaseMutex(c, t, m)
           \/ \E tm \in Timers, immediate, repeat \in BOOLEAN : SetTimer(c, t, tm, immediate, repeat)
           \/ \E tm \in Timers : CancelTimer(c, t, tm)
           \/ \E u \in Threads, p \in NewPriorities : SetThreadPriority(c, t, u, p)
           \/ \E a \in Addresses, v \in MemoryValues :
                ArbitratePass(c, t, a, v) \/ ArbitrateSignal(c, t, a, v) \/ Store(c, t, a, v)
  BY <1>2, SignalArbiter
<1>3. CASE \/ \E to \in Timeouts : SleepThread(c, t, to)
           \/ \E new \in Threads, p \in NewPriorities : CreateThread(c, t, new, p)
           \/ ExitThread(c, t)
  BY <1>3, ThreadCallArbiter
<1>4. CASE \E a \in Addresses, v \in MemoryValues, dec \in BOOLEAN, to \in Timeouts \cup {"none"} :
             ArbitrateWait(c, t, a, v, dec, to)
  BY <1>4, ArbitrateWaitArbiter
<1> QED
  BY <1>1, <1>2, <1>3, <1>4 DEF SystemCall, NobodyTerminated

\* The loops that move no thread; a thread to be resumed is not arbitrating.
LEMMA ListLoopsArbiter ==
    ASSUME Inv, ArbiterOK,
           AddNext \/ AcquireNext \/ WakeNext \/ DetachNext \/ ReleaseNext \/ PriorityNext
    PROVE  ArbiterOK'
<1>0. k \in KernelState /\ k.kill = {}
  BY DEF Inv, TypeOK, ArbiterOK, NoKills
<1>1. CASE UNCHANGED <<k, status, wakeup_callback, wake_events, arbiter>>
  BY <1>1, QuietArbiter DEF NoKills, Resuming, ArbiterOK
<1>2. ASSUME UNCHANGED <<status, wakeup_callback, wake_events, arbiter>>, k'.kill = {},
             k.pc # "remove", k'.pc \notin {"remove", "terminate"}
      PROVE  ArbiterOK'
  BY <1>2, QuietCallArbiter DEF NoKills
<1>3. CASE AddNext
  <2>1. k'.pc \in {"add", "user"} /\ k'.kill = {} /\ k.pc = "add"
    BY <1>0, <1>3 DEF AddNext, ReturnToUser, UserMode, KernelState
  <2> QED
    BY <1>2, <1>3, <2>1 DEF AddNext
<1>4. CASE AcquireNext
  <2>1. CASE Abort("object unavailable!")
    BY <1>1, <2>1 DEF Abort
  <2>2. CASE /\ k' = [k EXCEPT !.rest = Tail(@)]
             /\ UNCHANGED <<status, waitVars, arbiterVars>>
    <3>1. k'.pc = "acquire" /\ k'.kill = {}
      BY <1>0, <1>4, <2>2 DEF AcquireNext, KernelState
    <3> QED
      BY <1>2, <1>4, <2>2, <3>1 DEF AcquireNext
  <2>3. CASE k.object = None /\ ReturnToUser /\ UNCHANGED <<status, waitVars, arbiterVars>>
    <3>1. k'.pc = "user" /\ k'.kill = {}
      BY <2>3 DEF ReturnToUser, UserMode
    <3> QED
      BY <1>2, <1>4, <2>3, <3>1 DEF AcquireNext
  <2>4. CASE /\ k.object # None
             /\ k' = [k EXCEPT !.pc = "remove", !.rest = wait_objects[k.thread]]
             /\ UNCHANGED <<status, waitVars, arbiterVars>>
    <3>1. k'.pc = "remove" /\ k'.thread = k.thread /\ k'.kill = {} /\ k.pc = "acquire"
      BY <1>0, <1>4, <2>4 DEF KernelState, AcquireNext
    <3>2. status[k.thread] # "WaitArb"
      BY <2>4, <3>1 DEF Inv, SubjectOK, WaitSynch
    <3> QED
      BY <2>4, <3>1, <3>2, QuietArbiter DEF NoKills, Resuming
  <2> QED
    BY <1>4, <2>1, <2>2, <2>3, <2>4 DEF AcquireNext
<1>5. CASE WakeNext
  <2>0. k.pc = "wake"
    BY <1>5 DEF WakeNext
  <2>1. CASE Abort("Inconsistent thread statuses in waiting_threads")
    BY <1>1, <2>1 DEF Abort
  <2>2. ASSUME NEW i \in 1 .. Len(waiting_threads[k.object]), WakeOne(i) PROVE ArbiterOK'
    <3>1. k'.pc = "acquire" /\ k'.kill = {}
      BY <1>0, <2>2 DEF WakeOne, KernelState
    <3> QED
      BY <1>2, <2>0, <2>2, <3>1 DEF WakeOne
  <2>3. CASE WakeDone
    <3>1. k'.pc \in {"user", "detach", "release"} /\ k'.kill = {}
      <4>1. CASE ReturnToUser
        BY <4>1 DEF ReturnToUser, UserMode
      <4>2. CASE \/ k' = [k EXCEPT !.pc = "detach", !.object = None, !.rest = wait_objects[k.stop]]
                 \/ k' = [k EXCEPT !.pc = "release", !.object = None]
        BY <1>0, <4>2 DEF KernelState
      <4> QED
        BY <2>3, <4>1, <4>2 DEF WakeDone
    <3> QED
      BY <1>2, <2>0, <2>3, <3>1 DEF WakeDone
  <2> QED
    BY <1>5, <2>1, <2>2, <2>3 DEF WakeNext
<1>6. CASE DetachNext
  <2>1. k'.pc \in {"detach", "release"} /\ k'.kill = {} /\ k.pc = "detach"
    BY <1>0, <1>6 DEF DetachNext, KernelState
  <2> QED
    BY <1>2, <1>6, <2>1 DEF DetachNext
<1>7. CASE ReleaseNext
  <2>1. k'.pc \in {"wake", "user"} /\ k'.kill = {} /\ k.pc = "release"
    BY <1>0, <1>7 DEF ReleaseNext, KernelState
  <2> QED
    BY <1>2, <1>7, <2>1 DEF ReleaseNext
<1>8. CASE PriorityNext
  <2>1. k'.pc \in {"priority", "user"} /\ k'.kill = {} /\ k.pc = "priority"
    BY <1>0, <1>8 DEF PriorityNext, ReturnToUser, UserMode, KernelState
  <2> QED
    BY <1>2, <1>8, <2>1 DEF PriorityNext
<1> QED
  BY <1>3, <1>4, <1>5, <1>6, <1>7, <1>8

\* ResumeFromWait of one thread.
LEMMA ResumeOne ==
    ASSUME Inv, NEW t \in Threads, ResumeFromWait(t)
    PROVE  /\ \A u \in Threads : u # t => status'[u] = status[u]
                                          /\ wakeup_callback'[u] = wakeup_callback[u]
           /\ \/ status[t] \in {"Ready", "Running", "Dead"} /\ UNCHANGED <<status, wakeup_callback>>
              \/ /\ status[t] \notin {"Ready", "Running", "Dead"}
                 /\ status'[t] = "Ready" /\ wakeup_callback'[t] = "null"
BY DEF ResumeFromWait, Inv, TypeOK

\* The thread that is resumed has left the arbiter's list.
LEMMA RemoveArbiter ==
    ASSUME Inv, ArbiterOK, RemoveNext PROVE ArbiterOK'
<1>0. k \in KernelState /\ k.kill = {} /\ k.pc = "remove" /\ k.thread \in Threads
  BY DEF Inv, TypeOK, ControlOK, KernelState, RemoveNext, ArbiterOK, NoKills
<1>1. CASE Abort("wakeup_callback == nullptr")
  BY <1>1, QuietArbiter DEF NoKills, Resuming, ArbiterOK, Abort
<1>2. CASE /\ k' = [k EXCEPT !.rest = Tail(@)]
           /\ UNCHANGED <<status, wakeup_callback, wake_events, arbiterVars>>
  <2>1. k'.pc = "remove" /\ k'.kill = {} /\ k'.thread = k.thread
    BY <1>0, <1>2 DEF KernelState
  <2> QED
    BY <1>0, <1>2, <2>1, QuietArbiter DEF NoKills, Resuming
<1>3. CASE /\ ResumeFromWait(k.thread)
           /\ IF k.object = None THEN ReturnToUser
              ELSE k' = [k EXCEPT !.pc = "wake", !.thread = None]
           /\ UNCHANGED <<wake_events, arbiterVars>>
  <2>0. PICK t \in Threads : t = k.thread
    BY <1>0
  <2>1. k'.pc \in {"user", "wake"} /\ k'.kill = {}
    <3>1. CASE ReturnToUser
      BY <3>1 DEF ReturnToUser, UserMode
    <3>2. CASE k' = [k EXCEPT !.pc = "wake", !.thread = None]
      BY <1>0, <3>2 DEF KernelState
    <3> QED
      BY <1>3, <3>1, <3>2
  <2>2. Unique(arbiter)' /\ \A u \in Threads : IsIn(u, arbiter)' <=> IsIn(u, arbiter)
    BY <1>3 DEF ArbiterOK, Unique, IsIn
  <2>3. /\ \A u \in Threads : u # t => status'[u] = status[u]
                                      /\ wakeup_callback'[u] = wakeup_callback[u]
        /\ \/ status[t] \in {"Ready", "Running", "Dead"} /\ UNCHANGED <<status, wakeup_callback>>
           \/ status'[t] = "Ready" /\ wakeup_callback'[t] = "null"
    BY <1>3, <2>0, ResumeOne
  <2>4. \A u \in Threads : u # t => LeftAlone(u)
    BY <1>0, <1>3, <2>0, <2>1, <2>2, <2>3 DEF LeftAlone, Resuming
  <2>5. ~IsIn(t, arbiter)
    BY <1>0, <2>0 DEF ArbiterOK, ListedOK, Resuming
  <2>6. CallbackOK(t)' /\ ListedOK(t)'
    <3>1. CASE status[t] \in {"Ready", "Running", "Dead"} /\ UNCHANGED <<status, wakeup_callback>>
      BY <1>3, <2>2, <2>5, <3>1 DEF ArbiterOK, CallbackOK, ListedOK
    <3>2. CASE status'[t] = "Ready" /\ wakeup_callback'[t] = "null"
      BY <2>2, <2>5, <3>2 DEF CallbackOK, ListedOK, WaitSynch
    <3> QED
      BY <2>3, <3>1, <3>2
  <2>7. NoKills'
    BY <2>1 DEF NoKills
  <2> QED
    BY <2>2, <2>4, <2>6, <2>7, ArbiterStep
<1> QED
  BY <1>1, <1>2, <1>3 DEF RemoveNext

\* A thread the arbiter resumes leaves its list.
LEMMA ArbitrateArbiter ==
    ASSUME Inv, ArbiterOK, ArbitrateNext PROVE ArbiterOK'
<1>0. k \in KernelState /\ k.kill = {} /\ k.pc = "arbitrate" /\ arbiter \in Seq(Threads)
  BY DEF Inv, TypeOK, ArbitrateNext, ArbiterOK, NoKills
<1>1. CASE \E message : Abort(message)
  BY <1>1, QuietArbiter DEF NoKills, Resuming, ArbiterOK, Abort
<1>2. ASSUME NEW i \in 1 .. Len(arbiter), ResumeFromWait(arbiter[i]), status[arbiter[i]] = "WaitArb",
             arbiter' = Without(arbiter, arbiter[i]), k' = [k EXCEPT !.count = @ - 1],
             UNCHANGED wake_events
      PROVE  ArbiterOK'
  <2>1. PICK t \in Threads : t = arbiter[i]
    BY <1>0
  <2>2. k'.pc = "arbitrate" /\ k'.kill = {}
    BY <1>0, <1>2 DEF KernelState
  <2>3. /\ Unique(Without(arbiter, t))
        /\ \A u : IsIn(u, Without(arbiter, t)) <=> IsIn(u, arbiter) /\ u # t
    BY <1>0, WithoutFacts DEF ArbiterOK
  <2>4. Unique(arbiter)' /\ \A u \in Threads : IsIn(u, arbiter)' <=> IsIn(u, arbiter) /\ u # t
    BY <1>2, <2>1, <2>3 DEF Unique, IsIn
  <2>5. ResumeFromWait(t) /\ status[t] = "WaitArb"
    BY <1>2, <2>1
  <2>6. \A u \in Threads : u # t => LeftAlone(u)
    BY <1>0, <1>2, <2>1, <2>2, <2>4, <2>5, ResumeOne DEF LeftAlone, Resuming
  <2>7. status'[t] = "Ready" /\ wakeup_callback'[t] = "null"
    BY <2>1, <2>5, ResumeOne
  <2>8. CallbackOK(t)' /\ ListedOK(t)'
    BY <2>1, <2>4, <2>7 DEF CallbackOK, ListedOK, WaitSynch
  <2> QED
    BY <2>2, <2>4, <2>6, <2>8, ArbiterStep DEF NoKills
<1>3. CASE ReturnToUser /\ UNCHANGED <<status, waitVars, arbiterVars>>
  <2>1. k'.pc = "user" /\ k'.kill = {}
    BY <1>3 DEF ReturnToUser, UserMode
  <2> QED
    BY <1>0, <1>3, <2>1, QuietCallArbiter DEF NoKills
<1> QED
  BY <1>1, <1>2, <1>3 DEF ArbitrateNext

\* A timeout takes an arbitrating thread off the list before it is resumed.
LEMMA ThreadWakeupArbiter ==
    ASSUME Inv, ArbiterOK, NEW t \in Threads, ThreadWakeupCallback(t) PROVE ArbiterOK'
<1>0. k.pc = "user" /\ t \in wake_events /\ arbiter \in Seq(Threads)
  BY DEF ThreadWakeupCallback, Idle, Inv, TypeOK
<1>1. CASE Abort("wakeup_callback_table.at")
  BY <1>1, QuietArbiter DEF NoKills, Resuming, ArbiterOK, Abort
<1>2. CASE /\ wake_events' = wake_events \ {t}
           /\ arbiter' = ArbiterAfterTimeout(t)
           /\ k' = [UserMode(CoreOf[t]) EXCEPT
                      !.pc = "remove", !.thread = t, !.rest = ObjectsToLeave(t)]
           /\ UNCHANGED <<status, wakeup_callback>>
  <2>1. k'.pc = "remove" /\ k'.thread = t /\ k'.kill = {}
    BY <1>2 DEF UserMode
  <2>2. /\ Unique(Without(arbiter, t))
        /\ \A u : IsIn(u, Without(arbiter, t)) <=> IsIn(u, arbiter) /\ u # t
    BY <1>0, WithoutFacts DEF ArbiterOK
  <2>3. /\ status[t] = "WaitArb" => arbiter' = Without(arbiter, t)
        /\ status[t] # "WaitArb" => arbiter' = arbiter /\ ~IsIn(t, arbiter)
    BY <1>0, <1>2 DEF ArbiterAfterTimeout, ArbiterOK, CallbackOK, ListedOK, WaitSynch
  <2>4. Unique(arbiter)' /\ \A u \in Threads : IsIn(u, arbiter)' <=> IsIn(u, arbiter) /\ u # t
    <3>1. CASE status[t] = "WaitArb"
      BY <2>2, <2>3, <3>1 DEF Unique, IsIn
    <3>2. CASE status[t] # "WaitArb"
      BY <2>3, <3>2 DEF Unique, IsIn, ArbiterOK
    <3> QED
      BY <3>1, <3>2
  <2>5. \A u \in Threads : u # t => LeftAlone(u)
    BY <1>0, <1>2, <2>1, <2>4 DEF LeftAlone, Resuming
  <2>6. CallbackOK(t)' /\ ListedOK(t)'
    BY <1>2, <2>1, <2>4 DEF ArbiterOK, CallbackOK, ListedOK, Resuming
  <2> QED
    BY <2>1, <2>4, <2>5, <2>6, ArbiterStep DEF NoKills
<1> QED
  BY <1>1, <1>2 DEF ThreadWakeupCallback

\* SwitchContext cancels the wakeup of the thread it starts.
LEMMA RescheduleArbiter ==
    ASSUME Inv, ArbiterOK, NEW c \in Cores, Reschedule(c) PROVE ArbiterOK'
<1>1. /\ Idle /\ UNCHANGED <<wakeup_callback, arbiter, k>> /\ None \notin Threads
  BY KernelConstants DEF Reschedule, WaitObjects
<1>2. PICK new \in Threads \cup {None} :
         SwitchTo(c, new) /\ (new # None => CoreOf[new] = c /\ status[new] \in {"Ready", "Running"})
  BY SwitchTarget
<1>3. /\ \A t \in Threads :
           status'[t] = IF t = new THEN "Running"
                        ELSE IF t = current_thread[c] /\ status[t] = "Running" THEN "Ready"
                        ELSE status[t]
      /\ wake_events' = wake_events \ {new}
  BY <1>2 DEF SwitchTo
<1>4. Unique(arbiter)' /\ NoKills' /\ \A t \in Threads : IsIn(t, arbiter)' <=> IsIn(t, arbiter)
  BY <1>1 DEF ArbiterOK, Unique, IsIn, NoKills
<1>5. ASSUME NEW t \in Threads PROVE CallbackOK(t)' /\ ListedOK(t)'
  BY <1>1, <1>2, <1>3, <1>4 DEF ArbiterOK, CallbackOK, ListedOK, Resuming, WaitSynch
<1> QED
  BY <1>4, <1>5, ArbiterStep

\* Every step.
LEMMA ArbiterKept ==
    ASSUME NobodyTerminated PROVE Inv /\ LocalOK /\ ArbiterOK /\ [Next]_vars => ArbiterOK'
<1> SUFFICES ASSUME Inv, LocalOK, ArbiterOK, [Next]_vars PROVE ArbiterOK'
  OBVIOUS
<1>1. CASE UNCHANGED vars
  BY <1>1, QuietArbiter DEF vars, NoKills, Resuming, ArbiterOK
<1>2. CASE \E c \in Cores, t \in Threads : SystemCall(c, t)
  BY <1>2, SystemCallArbiter
<1>3. CASE KernelLoop
  <2>1. ~TerminateNext
    BY DEF TerminateNext, ArbiterOK, NoKills
  <2> QED
    BY <1>3, <2>1, ListLoopsArbiter, RemoveArbiter, ArbitrateArbiter DEF KernelLoop
<1>4. CASE TimingEvent
  BY <1>4, SignalArbiter, ThreadWakeupArbiter DEF TimingEvent
<1>5. CASE \E c \in Cores : Reschedule(c)
  BY <1>5, RescheduleArbiter
<1> QED
  BY <1>1, <1>2, <1>3, <1>4, <1>5 DEF Next

\* At first nobody arbitrates.
LEMMA ArbiterInit == Init => ArbiterOK
<1> SUFFICES ASSUME Init PROVE ArbiterOK
  OBVIOUS
<1>1. k.pc = "user" /\ k.kill = {}
  BY DEF Init, UserMode
<1>2. \A t \in Threads : ~IsIn(t, arbiter)
  BY IsInEmpty DEF Init
<1>3. Unique(arbiter)
  BY DEF Init, Unique
<1>4. \A t \in Threads : CallbackOK(t) /\ status[t] # "WaitArb"
  BY DEF Init, ThreadsCreated, CallbackOK, WaitSynch
<1> QED
  BY <1>1, <1>2, <1>3, <1>4 DEF ArbiterOK, ListedOK, NoKills

\* ArbiterOK holds in every reachable state.
LEMMA ArbiterHolds == ASSUME NobodyTerminated PROVE Spec => [](Inv /\ LocalOK /\ ArbiterOK)
<1>1. SameCore
  BY DEF NobodyTerminated, SameCore
<1>2. Spec => [](Inv /\ LocalOK)
  BY <1>1, LocalHolds
<1>3. Inv /\ LocalOK /\ ArbiterOK /\ [Next]_vars => ArbiterOK'
  BY ArbiterKept
<1> QED
  BY <1>2, <1>3, ArbiterInit, PTL DEF Spec

(***************************************************************************)
(* Between calls a thread is on the address arbiter's list, once, exactly  *)
(* when it sleeps in an arbitration, whichever of signal and timeout ended *)
(* its earlier waits.  A thread whose process is terminated while it       *)
(* sleeps there would stay on the list.                                    *)
(***************************************************************************)
THEOREM ArbiterListIsExact == ASSUME NobodyTerminated PROVE Spec => []ArbiterListExact
<1>1. ArbiterOK => ArbiterListExact
  BY DEF ArbiterOK, ListedOK, Resuming, Unique, ArbiterListExact
<1> QED
  BY <1>1, ArbiterHolds, PTL

-----------------------------------------------------------------------------
(***************************************************************************)
(* No ASSERT is reached.  A list that names a OneShot event or timer twice *)
(* would find it reset at the second Acquire of a wait for all.            *)
(***************************************************************************)
OnceOnly(s) ==
    \A i, j \in 1 .. Len(s) :
        s[i] = s[j] /\ s[i] \in Signals /\ ResetType[s[i]] = "OneShot" => i = j

NoRepeatedSignals == \A t \in Threads : \A objs \in WaitLists[t] : OnceOnly(objs)

\* Semaphore::Acquire copes with an empty semaphore.
CanTake(o, t) == o \in Semaphores \/ ~ShouldWait(o, t)

\* What the "acquire" loop has still to take is there to be taken.
TakingOK ==
    k.pc = "acquire" =>
        OnceOnly(k.rest) /\ \A o \in WaitObjects : IsIn(o, k.rest) => CanTake(o, k.thread)

\* No thread waits twice for a OneShot signal.
LEMMA AskedOnce ==
    ASSUME NoRepeatedSignals, AskedOK, NEW t \in Threads PROVE OnceOnly(wait_objects[t])
<1>1. OnceOnly(<< >>) /\ \A o : OnceOnly(<<o>>)
  BY DEF OnceOnly
<1> QED
  BY <1>1 DEF AskedOK, Asked, NoRepeatedSignals

\* Taking the first object leaves the others there: a mutex is now the
\* thread's own, and only a OneShot signal is used up.
LEMMA TakeOne ==
    ASSUME Inv, TakingOK, k.pc = "acquire", k.rest # << >>,
           IF Head(k.rest) \in Mutexes
           THEN AcquireMutex(Head(k.rest), k.thread) /\ UNCHANGED <<signaled, available_count>>
           ELSE AcquireOther(Head(k.rest)) /\ UNCHANGED <<mutexVars, priorityVars, halted>>,
           k' = [k EXCEPT !.rest = Tail(@)], UNCHANGED status
    PROVE  TakingOK'
<1>0. k \in KernelState /\ k.rest \in Seq(WaitObjects) /\ k.thread \in Threads /\ k.thread # None
  BY KernelConstants DEF Inv, TypeOK, KernelState, ControlOK, WaitObjects
<1>1. /\ k'.rest = Tail(k.rest) /\ k'.thread = k.thread /\ Head(k.rest) \in WaitObjects
      /\ \A o : IsIn(o, Tail(k.rest)) => IsIn(o, k.rest)
  BY <1>0, IsInTail DEF KernelState
<1>2. /\ Len(Tail(k.rest)) = Len(k.rest) - 1 /\ Len(k.rest) \in Nat
      /\ \A i \in 1 .. Len(k.rest) - 1 : Tail(k.rest)[i] = k.rest[i + 1]
      /\ Head(k.rest) = k.rest[1]
  BY <1>0
<1>3. OnceOnly(k.rest)'
  <2>1. ASSUME NEW i \in 1 .. Len(k.rest) - 1, NEW j \in 1 .. Len(k.rest) - 1,
               k.rest[i + 1] = k.rest[j + 1], k.rest[i + 1] \in Signals,
               ResetType[k.rest[i + 1]] = "OneShot"
        PROVE  i = j
    <3>1. i + 1 \in 1 .. Len(k.rest) /\ j + 1 \in 1 .. Len(k.rest)
      BY <1>2
    <3>2. i + 1 = j + 1
      BY <2>1, <3>1 DEF TakingOK, OnceOnly
    <3> QED
      BY <3>2
  <2> QED
    BY <1>1, <1>2, <2>1 DEF OnceOnly
<1>4. ASSUME NEW o \in WaitObjects, IsIn(o, Tail(k.rest)) PROVE CanTake(o, k.thread)'
  <2>1. CanTake(o, k.thread)
    BY <1>1, <1>4 DEF TakingOK
  <2>2. CASE o \in Threads
    BY <1>1, <2>1, <2>2, KernelConstants
       DEF CanTake, ShouldWait, ThreadShouldWait, Signals
  <2>3. CASE o \in Semaphores
    BY <2>3 DEF CanTake
  <2>4. CASE o \in Mutexes
    <3>1. ~MutexShouldWait(o, k.thread) /\ o \notin Threads \cup Signals \cup Semaphores
      BY <2>1, <2>4, KernelConstants DEF CanTake, ShouldWait
    <3>2. ~MutexShouldWait(o, k.thread)'
      <4>1. CASE UNCHANGED <<lock_count, holding_thread>>
        BY <1>1, <3>1, <4>1 DEF MutexShouldWait
      <4>2. CASE Head(k.rest) \in Mutexes /\ AcquireMutex(Head(k.rest), k.thread)
        <5> DEFINE m == Head(k.rest)
        <5>1. /\ \A n \in Mutexes : n # m => lock_count'[n] = lock_count[n]
                                              /\ holding_thread'[n] = holding_thread[n]
              /\ lock_count[m] = 0 => holding_thread'[m] = k.thread
              /\ lock_count[m] # 0 => holding_thread'[m] = holding_thread[m]
          BY <4>2 DEF AcquireMutex, WithHolder, Inv, TypeOK
        <5>2. o = m => holding_thread'[m] = k.thread
          <6>1. lock_count[m] \in Nat
            BY <4>2 DEF Inv, TypeOK
          <6> QED
            BY <3>1, <5>1, <6>1 DEF MutexShouldWait
        <5> QED
          BY <1>1, <2>4, <3>1, <5>1, <5>2 DEF MutexShouldWait
      <4> QED
        BY <4>1, <4>2
    <3> QED
      BY <3>1, <3>2 DEF CanTake, ShouldWait
  <2>5. CASE o \in Signals
    <3>1. signaled[o] /\ o \notin Threads \cup Mutexes \cup Semaphores
      BY <2>1, <2>5, KernelConstants DEF CanTake, ShouldWait, SignalShouldWait
    <3>2. signaled'[o]
      <4>1. CASE o = Head(k.rest)
        <5>1. PICK i \in 1 .. Len(k.rest) - 1 : Tail(k.rest)[i] = o
          BY <1>2, <1>4 DEF IsIn
        <5>2. i + 1 \in 1 .. Len(k.rest) /\ 1 \in 1 .. Len(k.rest) /\ k.rest[i + 1] = k.rest[1]
              /\ i + 1 # 1
          BY <1>2, <4>1, <5>1
        <5>3. ResetType[o] # "OneShot"
          BY <1>2, <2>5, <4>1, <5>2 DEF TakingOK, OnceOnly
        <5> QED
          BY <2>5, <3>1, <4>1, <5>3 DEF AcquireOther, AcquireSignal
      <4>2. CASE o # Head(k.rest)
        BY <2>5, <3>1, <4>2 DEF AcquireOther, AcquireSignal, Inv, TypeOK
      <4> QED
        BY <4>1, <4>2
    <3> QED
      BY <3>1, <3>2 DEF CanTake, ShouldWait, SignalShouldWait
  <2> QED
    BY <2>2, <2>3, <2>4, <2>5 DEF WaitObjects, Signals
<1> QED
  BY <1>1, <1>3, <1>4 DEF TakingOK, IsIn, CanTake, ShouldWait, ThreadShouldWait, MutexShouldWait,
     SignalShouldWait, SemaphoreShouldWait

\* The "acquire" loop begins with objects that are all there.
LEMMA TakingBegins ==
    ASSUME NEW t, NEW objs, k'.thread = t, k'.rest = objs, OnceOnly(objs),
           \A o \in WaitObjects : IsIn(o, objs) => ~ShouldWait(o, t),
           UNCHANGED <<status, mutexVars, signaled, available_count>>
    PROVE  TakingOK'
<1>1. \A o \in WaitObjects : IsIn(o, k.rest)' => IsIn(o, objs)
  BY DEF IsIn
<1>2. OnceOnly(k.rest)'
  BY DEF OnceOnly
<1>3. \A o \in WaitObjects : ~ShouldWait(o, t) => CanTake(o, k.thread)'
  BY DEF CanTake, ShouldWait, ThreadShouldWait, MutexShouldWait, SignalShouldWait,
     SemaphoreShouldWait
<1> QED
  BY <1>1, <1>2, <1>3 DEF TakingOK

\* The waiting calls take what they found available.
LEMMA WaitCallTaking ==
    ASSUME NoRepeatedSignals, Inv, NEW c \in Cores, NEW t \in Threads
    PROVE  /\ \A o \in WaitTargets[t], to \in Timeouts : WaitSynchronization1(c, t, o, to) => TakingOK'
           /\ \A objs \in WaitLists[t], all \in BOOLEAN, to \in Timeouts :
                WaitSynchronizationN(c, t, objs, all, to) => TakingOK'
<1>0. \A o : OnceOnly(<<o>>)
  BY DEF OnceOnly
<1>1. ASSUME NEW objs, NEW mode, NEW to, SleepOn(c, t, objs, mode, to) PROVE TakingOK'
  BY <1>1 DEF SleepOn, UserMode, TakingOK
<1>2. ASSUME NEW objs, OnceOnly(objs), \A i \in 1 .. Len(objs) : ~ShouldWait(objs[i], t),
             AcquireNow(c, t, objs)
      PROVE  TakingOK'
  <2>1. k'.thread = t /\ k'.rest = objs
    BY <1>2 DEF AcquireNow, UserMode
  <2>2. \A o \in WaitObjects : IsIn(o, objs) => ~ShouldWait(o, t)
    BY <1>2 DEF IsIn
  <2> QED
    BY <1>2, <2>1, <2>2, TakingBegins DEF AcquireNow
<1>3. ASSUME NEW o, ~ShouldWait(o, t), AcquireNow(c, t, <<o>>) PROVE TakingOK'
  <2>1. \A i \in 1 .. Len(<<o>>) : ~ShouldWait(<<o>>[i], t)
    BY <1>3
  <2> QED
    BY <1>0, <1>2, <1>3, <2>1
<1>4. ASSUME NEW o \in WaitTargets[t], NEW to \in Timeouts, WaitSynchronization1(c, t, o, to)
      PROVE  TakingOK'
  BY <1>1, <1>3, <1>4 DEF WaitSynchronization1
<1>5. ASSUME NEW objs \in WaitLists[t], NEW all \in BOOLEAN, NEW to \in Timeouts,
             WaitSynchronizationN(c, t, objs, all, to)
      PROVE  TakingOK'
  <2>1. OnceOnly(objs)
    BY DEF NoRepeatedSignals
  <2> QED
    BY <1>1, <1>2, <1>3, <1>5, <2>1 DEF WaitSynchronizationN
<1> QED
  BY <1>4, <1>5

\* A thread that is ready to run finds all it waits for.
LEMMA WakeTaking ==
    ASSUME NoRepeatedSignals, Inv, AskedOK, WakeNext PROVE TakingOK'
<1>0. k \in KernelState /\ k.pc = "wake" /\ k.object \in WaitObjects
  BY DEF WakeNext, Inv, TypeOK, ControlOK, KernelState
<1>1. CASE Abort("Inconsistent thread statuses in waiting_threads")
  BY <1>0, <1>1 DEF Abort, TakingOK
<1>2. ASSUME NEW i \in 1 .. Len(waiting_threads[k.object]), HighestPriorityReady(k.object, i), WakeOne(i)
      PROVE  TakingOK'
  <2> DEFINE t == waiting_threads[k.object][i]
             objs == IF status[t] = "WaitSynchAll" THEN wait_objects[t] ELSE <<k.object>>
  <2>1. t \in Threads
    BY <1>0 DEF Inv, TypeOK
  <2>2. k'.thread = t /\ k'.rest = objs /\ UNCHANGED <<status, mutexVars, signaled, available_count>>
    BY <1>0, <1>2 DEF WakeOne, KernelState
  <2>3. OnceOnly(objs)
    BY <2>1, AskedOnce DEF OnceOnly
  <2>4. \A o \in WaitObjects : IsIn(o, objs) => ~ShouldWait(o, t)
    <3>1. ReadyToRun(k.object, t)
      BY <1>2 DEF HighestPriorityReady
    <3>2. CASE status[t] = "WaitSynchAll"
      BY <3>1, <3>2 DEF ReadyToRun, IsIn
    <3>3. CASE status[t] # "WaitSynchAll"
      BY <3>1, <3>3, IsInOne DEF ReadyToRun
    <3> QED
      BY <3>2, <3>3
  <2> HIDE DEF t, objs
  <2>5. PICK u, s : u = t /\ s = objs
    OBVIOUS
  <2> QED
    BY <2>2, <2>3, <2>4, <2>5, TakingBegins
<1>3. CASE WakeDone
  <2>1. CASE ReturnToUser
    BY <2>1 DEF ReturnToUser, UserMode, TakingOK
  <2>2. CASE \/ k' = [k EXCEPT !.pc = "detach", !.object = None, !.rest = wait_objects[k.stop]]
             \/ k' = [k EXCEPT !.pc = "release", !.object = None]
    <3>1. k'.pc # "acquire"
      BY <1>0, <2>2 DEF KernelState
    <3> QED
      BY <3>1 DEF TakingOK
  <2> QED
    BY <1>3, <2>1, <2>2 DEF WakeDone
<1> QED
  BY <1>1, <1>2, <1>3 DEF WakeNext

\* The loop over Acquire.
LEMMA AcquireTaking ==
    ASSUME Inv, TakingOK, AcquireNext PROVE TakingOK'
<1>0. k \in KernelState /\ k.pc = "acquire"
  BY DEF AcquireNext, Inv, TypeOK
<1>1. CASE Abort("object unavailable!")
  BY <1>1 DEF Abort, TakingOK, OnceOnly, IsIn, CanTake, ShouldWait, ThreadShouldWait,
     MutexShouldWait, SignalShouldWait, SemaphoreShouldWait
<1>2. CASE /\ k.rest # << >>
           /\ IF Head(k.rest) \in Mutexes
              THEN AcquireMutex(Head(k.rest), k.thread) /\ UNCHANGED <<signaled, available_count>>
              ELSE AcquireOther(Head(k.rest)) /\ UNCHANGED <<mutexVars, priorityVars, halted>>
           /\ k' = [k EXCEPT !.rest = Tail(@)] /\ UNCHANGED status
  BY <1>0, <1>2, TakeOne
<1>3. CASE IF k.object = None THEN ReturnToUser
           ELSE k' = [k EXCEPT !.pc = "remove", !.rest = wait_objects[k.thread]]
  <2>1. CASE ReturnToUser
    BY <2>1 DEF ReturnToUser, UserMode, TakingOK
  <2>2. CASE k' = [k EXCEPT !.pc = "remove", !.rest = wait_objects[k.thread]]
    <3>1. k'.pc # "acquire"
      BY <1>0, <2>2 DEF KernelState
    <3> QED
      BY <3>1 DEF TakingOK
  <2> QED
    BY <1>3, <2>1, <2>2
<1> QED
  BY <1>1, <1>2, <1>3 DEF AcquireNext

\* No other step leads to the "acquire" loop.
LEMMA OtherTaking ==
    ASSUME Inv, ArbiterOK,
           \/ AddNext \/ RemoveNext \/ DetachNext \/ ReleaseNext \/ PriorityNext \/ ArbitrateNext
           \/ TimingEvent \/ \E c \in Cores : Reschedule(c)
    PROVE  TakingOK'
<1>0. k \in KernelState
  BY DEF Inv, TypeOK
<1>1. ASSUME k'.pc # "acquire" PROVE TakingOK'
  BY <1>1 DEF TakingOK
<1>2. CASE ReturnToUser \/ \E c \in Cores : \E o : Wakes(c, o)
  <2>1. CASE ReturnToUser
    BY <1>1, <2>1 DEF ReturnToUser, UserMode
  <2>2. CASE \E c \in Cores : \E o : Wakes(c, o)
    BY <1>1, <2>2 DEF Wakes, UserMode
  <2> QED
    BY <1>2, <2>1, <2>2
<1>3. CASE UNCHANGED k /\ k.pc # "acquire"
  BY <1>1, <1>3
<1>4. CASE AddNext
  <2>1. CASE k' = [k EXCEPT !.rest = Tail(@)]
    BY <1>0, <1>1, <1>4, <2>1 DEF AddNext, KernelState
  <2> QED
    BY <1>2, <1>4, <2>1 DEF AddNext
<1>5. CASE RemoveNext
  <2>1. CASE k' = [k EXCEPT !.rest = Tail(@)] \/ k' = [k EXCEPT !.pc = "wake", !.thread = None]
    BY <1>0, <1>1, <1>5, <2>1 DEF RemoveNext, KernelState
  <2> QED
    BY <1>2, <1>3, <1>5, <2>1 DEF RemoveNext, Abort
<1>6. CASE DetachNext
  BY <1>0, <1>1, <1>6 DEF DetachNext, KernelState
<1>7. CASE ReleaseNext
  BY <1>0, <1>1, <1>7 DEF ReleaseNext, KernelState
<1>8. CASE PriorityNext
  <2>1. ASSUME NEW m \in k.mutexes, k' = [k EXCEPT !.mutexes = @ \ {m}] PROVE TakingOK'
    BY <1>0, <1>1, <1>8, <2>1 DEF PriorityNext, KernelState
  <2> QED
    BY <1>2, <1>8, <2>1 DEF PriorityNext
<1>9. CASE ArbitrateNext
  <2>1. CASE k' = [k EXCEPT !.count = @ - 1]
    BY <1>0, <1>1, <1>9, <2>1 DEF ArbitrateNext, KernelState
  <2> QED
    BY <1>2, <1>3, <1>9, <2>1 DEF ArbitrateNext, Abort
<1>10. CASE TimingEvent
  <2>1. ASSUME NEW t \in Threads, ThreadWakeupCallback(t) PROVE TakingOK'
    <3>1. CASE k' = [UserMode(CoreOf[t]) EXCEPT
                       !.pc = "remove", !.thread = t, !.rest = ObjectsToLeave(t)]
      BY <1>1, <3>1 DEF UserMode
    <3> QED
      BY <1>3, <2>1, <3>1 DEF ThreadWakeupCallback, Abort, Idle
  <2> QED
    BY <1>2, <1>10, <2>1 DEF TimingEvent, TimerCallback
<1>11. CASE \E c \in Cores : Reschedule(c)
  BY <1>3, <1>11 DEF Reschedule, Idle
<1> QED
  BY <1>4, <1>5, <1>6, <1>7, <1>8, <1>9, <1>10, <1>11

\* Every system call.
LEMMA SystemCallTaking ==
    ASSUME NobodyTerminated, NoRepeatedSignals, Inv, NEW c \in Cores, NEW t \in Threads,
           SystemCall(c, t)
    PROVE  TakingOK'
<1>1. CASE \/ \E o \in WaitTargets[t], to \in Timeouts : WaitSynchronization1(c, t, o, to)
           \/ \E objs \in WaitLists[t], all \in BOOLEAN, to \in Timeouts :
                WaitSynchronizationN(c, t, objs, all, to)
  BY <1>1, WaitCallTaking
<1>2. CASE UNCHANGED k /\ k.pc = "user"
  BY <1>2 DEF TakingOK
<1>3. CASE \/ \E d \in Cores : \E o : Wakes(d, o)
           \/ \E d \in Cores : \E u : k' = [UserMode(d) EXCEPT !.pc = "priority", !.mutexes = u]
           \/ \E d \in Cores : \E a, v :
                 k' = [UserMode(d) EXCEPT !.pc = "arbitrate", !.address = a, !.count = v]
           \/ k' = [UserMode(c) EXCEPT !.pc = "wake", !.object = t, !.stop = t]
  <2>1. k'.pc # "acquire"
    BY <1>3 DEF Wakes, UserMode
  <2> QED
    BY <2>1 DEF TakingOK
<1>4. CASE \/ \E e \in Events : SignalEvent(c, t, e)
           \/ \E e \in Signals : ClearSignal(c, t, e)
           \/ \E s \in Semaphores, n \in ReleaseCounts : ReleaseSemaphore(c, t, s, n)
           \/ \E m \in Mutexes : ReleaseMutex(c, t, m)
           \/ \E tm \in Timers, immediate, repeat \in BOOLEAN : SetTimer(c, t, tm, immediate, repeat)
           \/ \E tm \in Timers : CancelTimer(c, t, tm)
  <2>1. (UNCHANGED k /\ k.pc = "user") \/ \E o : Wakes(c, o)
    BY <1>4 DEF SignalEvent, ClearSignal, ReleaseSemaphore, ReleaseMutex, SetTimer, CancelTimer,
       Executes, Idle
  <2> QED
    BY <1>2, <1>3, <2>1
<1>5. CASE \/ \E to \in Timeouts : SleepThread(c, t, to)
           \/ \E a \in Addresses, v \in MemoryValues, dec \in BOOLEAN, to \in Timeouts \cup {"none"} :
                ArbitrateWait(c, t, a, v, dec, to)
           \/ \E new \in Threads, p \in NewPriorities : CreateThread(c, t, new, p)
           \/ \E a \in Addresses, v \in MemoryValues : ArbitratePass(c, t, a, v) \/ Store(c, t, a, v)
  <2>1. UNCHANGED k /\ k.pc = "user"
    BY <1>5 DEF SleepThread, ArbitrateWait, CreateThread, ArbitratePass, Store, Executes, Idle
  <2> QED
    BY <1>2, <2>1
<1>6. CASE \/ \E a \in Addresses, v \in MemoryValues : ArbitrateSignal(c, t, a, v)
           \/ \E u \in Threads, p \in NewPriorities : SetThreadPriority(c, t, u, p)
           \/ ExitThread(c, t)
  BY <1>3, <1>6 DEF ArbitrateSignal, SetThreadPriority, ExitThread, Stop
<1> QED
  BY <1>1, <1>4, <1>5, <1>6 DEF SystemCall, NobodyTerminated

\* Every step.
LEMMA TakingKept ==
    ASSUME NobodyTerminated, NoRepeatedSignals
    PROVE  Inv /\ AskedOK /\ ArbiterOK /\ TakingOK /\ [Next]_vars => TakingOK'
<1> SUFFICES ASSUME Inv, AskedOK, ArbiterOK, TakingOK, [Next]_vars PROVE TakingOK'
  OBVIOUS
<1>1. CASE UNCHANGED vars
  BY <1>1 DEF vars, TakingOK, OnceOnly, IsIn, CanTake, ShouldWait, ThreadShouldWait,
     MutexShouldWait, SignalShouldWait, SemaphoreShouldWait
<1>2. ~TerminateNext
  BY DEF TerminateNext, ArbiterOK, NoKills
<1> QED
  BY <1>1, <1>2, SystemCallTaking, WakeTaking, AcquireTaking, OtherTaking DEF Next, KernelLoop

\* Each ASSERT, at the place where it stands.
LEMMA AssertsHold ==
    ASSUME NobodyTerminated, NoSelfWait, Inv, LocalOK, ArbiterOK, AskedOK, TakingOK,
           NoAssertFails, [Next]_vars
    PROVE  NoAssertFails'
<1>0. k \in KernelState /\ arbiter \in Seq(Threads)
  BY DEF Inv, TypeOK
<1>1. CASE UNCHANGED failed
  BY <1>1 DEF NoAssertFails
<1>2. ASSUME NEW c \in Cores, NEW t \in Threads, SystemCall(c, t) PROVE UNCHANGED failed
  BY <1>2 DEF SystemCall, NobodyTerminated, WaitSynchronization1, WaitSynchronizationN, SleepOn,
     AcquireNow, SignalEvent, ClearSignal, ReleaseSemaphore, ReleaseMutex, SetTimer, CancelTimer,
     SleepThread, ArbitrateWait, ArbitratePass, ArbitrateSignal, Store, CreateThread,
     SetThreadPriority, ExitThread, Stop
<1>3. CASE AcquireNext
  <2>1. k.rest # << >> => Head(k.rest) \in WaitObjects /\ IsIn(Head(k.rest), k.rest)
    <3>1. k.rest \in Seq(WaitObjects)
      BY <1>0 DEF KernelState
    <3> QED
      BY <3>1, IsInTail
  <2>2. k.rest # << >> => Head(k.rest) \in Semaphores \/ ~ShouldWait(Head(k.rest), k.thread)
    BY <1>3, <2>1 DEF AcquireNext, TakingOK, CanTake
  <2> QED
    BY <1>1, <1>3, <2>2 DEF AcquireNext
<1>4. CASE WakeNext
  <2>1. WaitersConsistent(k.object)
    BY <1>4, ListedAreAsleep DEF WakeNext
  <2> QED
    BY <1>1, <1>4, <2>1 DEF WakeNext, WakeOne, WakeDone
<1>5. CASE RemoveNext
  <2>1. k.thread \in Threads /\ Alive(k.thread)
    BY <1>0, <1>5 DEF RemoveNext, Inv, ControlOK, KernelState, LocalOK, HereOK
  <2>2. status[k.thread] = "Ready" => wakeup_callback[k.thread] = "null"
    BY <2>1 DEF ArbiterOK, CallbackOK
  <2>3. status[k.thread] \notin WaitSynch => wait_objects[k.thread] = << >>
    <3>1. StopsEarly => k.thread # k.stop
      BY <2>1 DEF StopsEarly, Inv, SubjectOK, Alive
    <3> QED
      BY <2>1, <3>1 DEF Inv, SleepersOK
  <2>4. CanResume(k.thread)
    BY <2>2, <2>3 DEF CanResume
  <2> QED
    BY <1>1, <1>5, <2>4 DEF RemoveNext
<1>6. CASE ArbitrateNext
  <2>1. k.pc = "arbitrate" /\ k.stop = None
    BY <1>6 DEF ArbitrateNext, Inv, ControlOK
  <2>2. ASSUME NEW i \in 1 .. Len(arbiter)
        PROVE  status[arbiter[i]] = "WaitArb" /\ wait_objects[arbiter[i]] = << >>
    <3>1. arbiter[i] \in Threads /\ IsIn(arbiter[i], arbiter)
      BY <1>0 DEF IsIn
    <3>2. status[arbiter[i]] = "WaitArb"
      BY <3>1 DEF ArbiterOK, ListedOK
    <3> QED
      BY <2>1, <3>1, <3>2 DEF Inv, SleepersOK, StopsEarly, WaitSynch
  <2> QED
    BY <1>1, <1>6, <2>2 DEF ArbitrateNext
<1>7. ASSUME NEW t \in Threads, ThreadWakeupCallback(t) PROVE UNCHANGED failed
  <2>1. t \in thread_list
    BY <1>7 DEF ThreadWakeupCallback, LocalOK, LivesOK
  <2> QED
    BY <1>7, <2>1 DEF ThreadWakeupCallback
<1>8. CASE AddNext \/ DetachNext \/ ReleaseNext \/ TerminateNext \/ PriorityNext
  BY <1>1, <1>8 DEF AddNext, DetachNext, ReleaseNext, TerminateNext, PriorityNext, Stop
<1>9. CASE \E c \in Cores : (\E tm \in Timers : TimerCallback(c, tm)) \/ Reschedule(c)
  BY <1>1, <1>9 DEF TimerCallback, Reschedule
<1> QED
  BY <1>1, <1>2, <1>3, <1>4, <1>5, <1>6, <1>7, <1>8, <1>9 DEF Next, KernelLoop, TimingEvent, vars

(***************************************************************************)
(* No ASSERT of the kernel's waits, wakeups, timeouts and arbitrations is  *)
(* reached, by any number of threads and objects in any order of calls:    *)
(* as long as no process is terminated, no thread waits for itself and no  *)
(* list of a wait names a OneShot signal twice.  Each of the three would   *)
(* reach one.                                                              *)
(***************************************************************************)
THEOREM AssertsNeverFail ==
    ASSUME NobodyTerminated, NoSelfWait, NoRepeatedSignals
    PROVE  Spec => []NoAssertFails
<1>1. Inv /\ AskedOK /\ ArbiterOK /\ TakingOK /\ [Next]_vars => TakingOK'
  BY TakingKept
<1>2. /\ Inv /\ LocalOK /\ ArbiterOK /\ AskedOK /\ TakingOK /\ NoAssertFails /\ [Next]_vars
      => NoAssertFails'
  BY AssertsHold
<1>3. Init => TakingOK /\ NoAssertFails
  BY DEF Init, UserMode, TakingOK, NoAssertFails
<1>4. Spec => [](Inv /\ LocalOK /\ ArbiterOK)
  BY ArbiterHolds
<1> QED
  BY <1>1, <1>2, <1>3, <1>4, AskedHolds, PTL DEF Spec
=============================================================================
