-------------------------- MODULE KernelSyncProofs --------------------------
(***************************************************************************)
(* What holds of the kernel's threads, waiting lists and mutexes for any   *)
(* number of threads, objects, cores and processes, whatever they call and *)
(* whoever is terminated when.                                             *)
(***************************************************************************)
EXTENDS KernelSync, TLAPS

Unique(s) == \A i, j \in 1 .. Len(s) : s[i] = s[j] => i = j

\* Nothing is on an empty list.
LEMMA IsInEmpty ==
    ASSUME NEW x PROVE ~IsIn(x, << >>)
BY DEF IsIn

\* A list of one object holds that object.
LEMMA IsInOne ==
    ASSUME NEW x, NEW y PROVE IsIn(x, <<y>>) <=> x = y
BY DEF IsIn

\* What is on a list is its head or on its tail.
LEMMA IsInTail ==
    ASSUME NEW S, NEW s \in Seq(S), s # << >>
    PROVE  /\ Head(s) \in S /\ Tail(s) \in Seq(S)
           /\ \A x : IsIn(x, s) <=> x = Head(s) \/ IsIn(x, Tail(s))
<1>1. Len(s) \in Nat /\ Len(s) > 0 /\ Head(s) = s[1] /\ Head(s) \in S /\ Tail(s) \in Seq(S)
  OBVIOUS
<1>2. Len(Tail(s)) = Len(s) - 1 /\ \A i \in 1 .. Len(s) - 1 : Tail(s)[i] = s[i + 1]
  BY <1>1
<1>3. ASSUME NEW x, IsIn(x, s), x # Head(s) PROVE IsIn(x, Tail(s))
  <2>1. PICK i \in 1 .. Len(s) : s[i] = x
    BY <1>3 DEF IsIn
  <2>2. i - 1 \in 1 .. Len(Tail(s)) /\ Tail(s)[i - 1] = x
    BY <1>1, <1>2, <1>3, <2>1
  <2> QED
    BY <2>2 DEF IsIn
<1>4. ASSUME NEW x, IsIn(x, Tail(s)) PROVE IsIn(x, s)
  <2>1. PICK i \in 1 .. Len(Tail(s)) : Tail(s)[i] = x
    BY <1>4 DEF IsIn
  <2>2. i + 1 \in 1 .. Len(s) /\ s[i + 1] = x
    BY <1>1, <1>2, <2>1
  <2> QED
    BY <2>2 DEF IsIn
<1>5. IsIn(Head(s), s)
  BY <1>1 DEF IsIn
<1> QED
  BY <1>1, <1>3, <1>4, <1>5

\* What is on a list of elements of S is an element of S.
LEMMA IsInElement ==
    ASSUME NEW S, NEW s \in Seq(S), NEW x, IsIn(x, s) PROVE x \in S
BY DEF IsIn

\* push_back adds the one element, and keeps a list free of repetitions.
LEMMA AppendFacts ==
    ASSUME NEW S, NEW s \in Seq(S), NEW x \in S
    PROVE  /\ Append(s, x) \in Seq(S)
           /\ \A y : IsIn(y, Append(s, x)) <=> IsIn(y, s) \/ y = x
           /\ Unique(s) /\ ~IsIn(x, s) => Unique(Append(s, x))
<1>1. /\ Append(s, x) \in Seq(S) /\ Len(s) \in Nat /\ Len(Append(s, x)) = Len(s) + 1
      /\ Append(s, x)[Len(s) + 1] = x
      /\ \A i \in 1 .. Len(s) : Append(s, x)[i] = s[i]
  OBVIOUS
<1>2. ASSUME NEW y, IsIn(y, Append(s, x)), y # x PROVE IsIn(y, s)
  BY <1>1, <1>2 DEF IsIn
<1>3. ASSUME NEW y, IsIn(y, s) \/ y = x PROVE IsIn(y, Append(s, x))
  BY <1>1, <1>3 DEF IsIn
<1>4. ASSUME Unique(s), ~IsIn(x, s) PROVE Unique(Append(s, x))
  BY <1>1, <1>4 DEF IsIn, Unique
<1> QED
  BY <1>1, <1>2, <1>3, <1>4

\* find and erase takes the element off a list without repetitions.
LEMMA WithoutFacts ==
    ASSUME NEW S, NEW s \in Seq(S), Unique(s), NEW x
    PROVE  /\ Without(s, x) \in Seq(S)
           /\ Unique(Without(s, x))
           /\ \A y : IsIn(y, Without(s, x)) <=> IsIn(y, s) /\ y # x
<1>1. CASE ~IsIn(x, s)
  BY <1>1 DEF Without
<1>2. CASE IsIn(x, s)
  <2> DEFINE First(i) == s[i] = x /\ \A j \in 1 .. Len(s) : s[j] = x => i <= j
             f == CHOOSE i \in 1 .. Len(s) : First(i)
             w == [j \in 1 .. Len(s) - 1 |-> IF j < f THEN s[j] ELSE s[j + 1]]
  <2>1. Without(s, x) = w
    BY <1>2 DEF Without
  <2>2. \E i \in 1 .. Len(s) : First(i)
    BY <1>2 DEF IsIn, Unique
  <2>3. f \in 1 .. Len(s) /\ s[f] = x
    BY <2>2
  <2>4. Len(s) \in Nat /\ Len(s) > 0
    BY <2>3
  <2> HIDE DEF f
  <2>5. w \in Seq(S) /\ Len(w) = Len(s) - 1
    <3>1. \A j \in 1 .. Len(s) - 1 : w[j] \in S
      BY <2>3, <2>4
    <3>2. Len(s) - 1 \in Nat
      BY <2>4
    <3> QED
      BY <3>1, <3>2
  <2>6. \A j \in 1 .. Len(w) : w[j] = IF j < f THEN s[j] ELSE s[j + 1]
    BY <2>5
  <2> HIDE DEF w
  <2>7. Unique(w)
    BY <2>3, <2>4, <2>5, <2>6 DEF Unique
  <2>8. ASSUME NEW y, IsIn(y, w) PROVE IsIn(y, s) /\ y # x
    BY <2>3, <2>4, <2>5, <2>6, <2>8 DEF Unique, IsIn
  <2>9. ASSUME NEW y, IsIn(y, s), y # x PROVE IsIn(y, w)
    <3>1. PICK i \in 1 .. Len(s) : s[i] = y
      BY <2>9 DEF IsIn
    <3>2. i # f
      BY <3>1, <2>3, <2>9
    <3>3. CASE i < f
      BY <3>1, <3>3, <2>3, <2>4, <2>5, <2>6 DEF IsIn
    <3>4. CASE i > f
      <4>1. i - 1 \in 1 .. Len(w) /\ w[i - 1] = y
        BY <3>1, <3>4, <2>3, <2>4, <2>5, <2>6
      <4> QED
        BY <4>1 DEF IsIn
    <3> QED
      BY <3>1, <3>2, <3>3, <3>4, <2>3
  <2> QED
    BY <2>1, <2>5, <2>7, <2>8, <2>9
<1> QED
  BY <1>1, <1>2
-----------------------------------------------------------------------------
(***************************************************************************)
(* The inductive invariant.                                                *)
(***************************************************************************)
\* Where Thread::Stop is: it wakes the threads that joined the stopped one and
\* takes it off its waiting lists, then it releases the thread's mutexes.
StopsEarly == k.stop # None /\ (k.object = k.stop \/ k.pc = "detach")
StopsLate == k.stop # None /\ k.object # k.stop /\ k.pc # "detach"

\* Which fields of k are set in which loop.
ControlOK ==
    /\ k.pc \in {"user", "add", "terminate", "priority", "arbitrate"} =>
         k.stop = None /\ k.object = None
    /\ k.pc \in {"detach", "release"} => k.stop # None /\ k.object = None
    /\ k.pc \in {"add", "acquire", "remove"} <=> k.thread # None
    /\ k.pc = "wake" => k.object # None
    /\ k.pc \in {"acquire", "remove"} /\ k.object = None => k.stop = None
    /\ k.kill # {} => k.pc = "terminate" \/ k.stop # None
    /\ k.stop # None => k.object \in Mutexes \cup {k.stop, None}
    /\ k.mutexes # {} => k.pc = "priority" \/ StopsLate

\* A core's current thread belongs to it, and as long as the core is not
\* halted the thread has not gone to sleep.
CoresOK ==
    \A c \in Cores : current_thread[c] # None =>
        /\ CoreOf[current_thread[c]] = c
        /\ ~halted[c] => status[current_thread[c]] \in {"Running", "Dead"}

RunningOK ==
    \A t \in Threads : status[t] = "Running" => current_thread[CoreOf[t]] = t

\* The thread a loop is about.
SubjectOK ==
    /\ k.pc \in {"acquire", "remove"} /\ k.object # None => status[k.thread] \in WaitSynch
    /\ k.pc = "acquire" /\ k.object = None => status[k.thread] \in {"Running", "Dead"}
    /\ k.pc = "add" => status[k.thread] \in WaitSynch
    /\ k.stop # None => status[k.stop] = "Dead"

\* Only sleeping threads, and one that is being stopped, have wait objects.
SleepersOK ==
    \A t \in Threads : wait_objects[t] # << >> =>
        status[t] \in WaitSynch \/ (t = k.stop /\ StopsEarly)

ListsUnique == \A o \in WaitObjects : Unique(waiting_threads[o])

\* The threads whose waiting lists are being changed.
Leaves(t) == (k.pc = "remove" /\ t = k.thread) \/ (k.pc = "detach" /\ t = k.stop)
Enters(t) == k.pc = "add" /\ t = k.thread

\* A thread is on the lists of its wait objects and on no others, but for the
\* objects a loop has not reached or has already dealt with.
ListsOK ==
    \A t \in Threads, o \in WaitObjects :
        /\ IsIn(t, waiting_threads[o]) => IsIn(o, wait_objects[t])
        /\ IsIn(t, waiting_threads[o]) /\ Leaves(t) => IsIn(o, k.rest)
        /\ IsIn(o, wait_objects[t]) /\ ~Leaves(t) =>
             IsIn(t, waiting_threads[o]) \/ (Enters(t) /\ IsIn(o, k.rest))
        /\ Enters(t) /\ IsIn(o, k.rest) => IsIn(o, wait_objects[t])

\* MutexOwnership, with what ReleaseThreadMutexes has still to release.
MutexesOK ==
    \A m \in Mutexes :
        /\ lock_count[m] > 0 <=> holding_thread[m] # None
        /\ \A t \in Threads :
             /\ holding_thread[m] = t => m \in held_mutexes[t]
             /\ m \in held_mutexes[t] => holding_thread[m] = t \/ (t = k.stop /\ StopsLate)
        /\ StopsLate => (holding_thread[m] = k.stop <=> m \in k.mutexes)

\* While a timer's waiters are woken, its next event is not yet scheduled.
TimersOK ==
    \A tm \in Timers : timer_events[tm] <= 1 /\ (k.object = tm => timer_events[tm] = 0)

Inv ==
    /\ TypeOK /\ ControlOK /\ CoresOK /\ RunningOK /\ SubjectOK /\ SleepersOK
    /\ ListsUnique /\ ListsOK /\ MutexesOK /\ TimersOK

USE DEF priorityVars, mutexVars, signalVars, waitVars, arbiterVars, processVars, coreVars

\* The loops there are.
LEMMA LoopNames ==
    /\ "user" \in Loops /\ "add" \in Loops /\ "acquire" \in Loops /\ "wake" \in Loops
    /\ "remove" \in Loops /\ "detach" \in Loops /\ "release" \in Loops
    /\ "terminate" \in Loops /\ "priority" \in Loops /\ "arbitrate" \in Loops
BY DEF Loops

\* The kernel between calls is a kernel state.
LEMMA UserModeType == ASSUME NEW c \in Cores PROVE UserMode(c) \in KernelState
BY DEF KernelState, UserMode, Loops

\* The call of WakeupAllWaitingThreads sets the fields of k it needs.
LEMMA WakesControl ==
    ASSUME NEW c \in Cores, NEW o \in WaitObjects, Wakes(c, o)
    PROVE  /\ k' \in KernelState
           /\ k'.pc = "wake" /\ k'.core = c /\ k'.thread = None /\ k'.object = o
           /\ k'.stop = None /\ k'.mutexes = {} /\ k'.kill = {}
<1>1. UserMode(c) \in KernelState /\ "wake" \in Loops
  BY LoopNames, UserModeType
<1>2. k' \in KernelState
  BY <1>1 DEF KernelState, Wakes
<1> QED
  BY <1>2 DEF Wakes, UserMode

(***************************************************************************)
(* A call, between calls, that touches no waiting list, and after which    *)
(* the kernel is in no loop about a thread.                                *)
(***************************************************************************)
LEMMA CallKeeps ==
    ASSUME Inv, Idle, TypeOK',
           UNCHANGED <<wait_objects, waiting_threads, current_thread>>,
           \A c \in Cores : ~halted'[c] => ~halted[c],
           \A u \in Threads :
               \/ status'[u] = status[u]
               \/ /\ status[u] \notin WaitSynch /\ status'[u] # "Running"
                  /\ \A c \in Cores : current_thread[c] = u => halted'[c],
           k'.pc \in {"user", "wake", "terminate", "priority", "arbitrate"},
           k'.stop = None, k'.thread = None,
           k'.pc = "wake" <=> k'.object # None,
           k'.kill # {} => k'.pc = "terminate",
           k'.mutexes # {} => k'.pc = "priority"
    PROVE  /\ ControlOK' /\ CoresOK' /\ RunningOK' /\ SubjectOK' /\ SleepersOK'
           /\ ListsUnique' /\ ListsOK'
           /\ UNCHANGED mutexVars => MutexesOK'
<1> USE DEF Inv
<1>0. k.stop = None /\ k.object = None /\ k.thread = None /\ k.pc = "user"
  BY DEF Idle, ControlOK
<1>1. ControlOK'
  BY DEF ControlOK, StopsLate
<1>2. CoresOK'
  <2>1. \A c \in Cores : current_thread[c] # None => current_thread[c] \in Threads
    BY DEF TypeOK
  <2> QED
    BY <2>1 DEF CoresOK
<1>3. RunningOK'
  BY DEF RunningOK
<1>4. SubjectOK'
  BY DEF SubjectOK
<1>5. SleepersOK'
  BY <1>0 DEF SleepersOK, StopsEarly
<1>6. ListsUnique'
  BY DEF ListsUnique, Unique
<1>7. ListsOK'
  BY <1>0 DEF ListsOK, Leaves, Enters
<1>8. UNCHANGED mutexVars => MutexesOK'
  BY <1>0 DEF MutexesOK, StopsLate
<1> QED
  BY <1>1, <1>2, <1>3, <1>4, <1>5, <1>6, <1>7, <1>8

\* Signals, semaphores and timers wake the waiters of their object.
LEMMA WakingCallKeeps ==
    ASSUME Inv, Idle, NEW c \in Cores, NEW o \in Signals \cup Semaphores, Wakes(c, o),
           signaled' \in [Signals -> BOOLEAN], available_count' \in [Semaphores -> Int32],
           timer_events' \in [Timers -> Nat], periodic' \in [Timers -> BOOLEAN],
           \A tm \in Timers : timer_events'[tm] <= 1 /\ (o = tm => timer_events'[tm] = 0),
           UNCHANGED <<status, priorityVars, mutexVars, waitVars, arbiterVars, processVars,
                       coreVars, failed>>
    PROVE  Inv'
<1>1. o \in WaitObjects /\ o # None
  BY KernelConstants DEF WaitObjects, Signals
<1>2. /\ k' \in KernelState
      /\ k'.pc = "wake" /\ k'.thread = None /\ k'.object = o
      /\ k'.stop = None /\ k'.mutexes = {} /\ k'.kill = {}
  BY <1>1, WakesControl
<1>3. TypeOK'
  BY <1>2 DEF Inv, TypeOK
<1>4. TimersOK'
  BY <1>2 DEF TimersOK
<1> QED
  BY <1>1, <1>2, <1>3, <1>4, CallKeeps DEF Inv

\* SignalEvent wakes the event's waiters.
LEMMA SignalEventKeeps ==
    ASSUME Inv, NEW c \in Cores, NEW t \in Threads, NEW e \in Events, SignalEvent(c, t, e)
    PROVE  Inv'
<1>1. Idle /\ e \in Signals /\ \A tm \in Timers : e # tm
  BY KernelConstants DEF SignalEvent, Executes, Signals
<1>2. signaled' \in [Signals -> BOOLEAN]
  BY DEF SignalEvent, Inv, TypeOK
<1>3. UNCHANGED <<timer_events, available_count, periodic>> /\ \A tm \in Timers : timer_events[tm] <= 1
  BY DEF SignalEvent, Inv, TimersOK
<1>6. /\ signaled' \in [Signals -> BOOLEAN] /\ available_count' \in [Semaphores -> Int32]
      /\ timer_events' \in [Timers -> Nat] /\ periodic' \in [Timers -> BOOLEAN]
  BY <1>2, <1>3 DEF Inv, TypeOK
<1>7. /\ Wakes(c, e)
      /\ UNCHANGED <<status, priorityVars, mutexVars, waitVars, arbiterVars, processVars,
                     coreVars, failed>>
  BY DEF SignalEvent
<1> QED
  BY <1>1, <1>3, <1>6, <1>7, WakingCallKeeps

\* A sum of two 32-bit counts wraps into 32 bits.
LEMMA WrapType ==
    ASSUME NEW x \in Int, x < 2 * S32, x >= -2 * S32 PROVE Wrap(x) \in Int32
BY KernelConstants DEF Wrap, Int32

\* ReleaseSemaphore wakes the semaphore's waiters.
LEMMA ReleaseSemaphoreKeeps ==
    ASSUME Inv, NEW c \in Cores, NEW t \in Threads, NEW s \in Semaphores, NEW n \in ReleaseCounts,
           ReleaseSemaphore(c, t, s, n)
    PROVE  Inv'
<1>1. Idle /\ \A tm \in Timers : s # tm
  BY KernelConstants DEF ReleaseSemaphore, Executes, Signals
<1>2. available_count[s] \in Int32 /\ n \in Int32
  BY CallConstants DEF Inv, TypeOK
<1>3. Wrap(available_count[s] + n) \in Int32
  BY <1>2, WrapType, KernelConstants DEF Int32
<1>4. available_count' \in [Semaphores -> Int32]
  BY <1>3 DEF ReleaseSemaphore, Inv, TypeOK
<1>5. UNCHANGED <<timer_events, signaled, periodic>> /\ \A tm \in Timers : timer_events[tm] <= 1
  BY DEF ReleaseSemaphore, Inv, TimersOK
<1>6. /\ signaled' \in [Signals -> BOOLEAN] /\ available_count' \in [Semaphores -> Int32]
      /\ timer_events' \in [Timers -> Nat] /\ periodic' \in [Timers -> BOOLEAN]
  BY <1>4, <1>5 DEF Inv, TypeOK
<1>7. /\ Wakes(c, s)
      /\ UNCHANGED <<status, priorityVars, mutexVars, waitVars, arbiterVars, processVars,
                     coreVars, failed>>
  BY DEF ReleaseSemaphore
<1> QED
  BY <1>1, <1>5, <1>6, <1>7, WakingCallKeeps

\* TimerCallback consumes the timer's only event.
LEMMA TimerCallbackKeeps ==
    ASSUME Inv, NEW c \in Cores, NEW tm \in Timers, TimerCallback(c, tm)
    PROVE  Inv'
<1>1. tm \in Signals /\ Idle
  BY DEF Signals, TimerCallback
<1>2. timer_events[tm] = 1 /\ timer_events \in [Timers -> Nat]
  BY DEF Inv, TypeOK, TimersOK, TimerCallback
<1>3. /\ timer_events' \in [Timers -> Nat] /\ timer_events'[tm] = 0
      /\ \A u \in Timers : timer_events'[u] <= 1
  BY <1>2 DEF Inv, TimersOK, TimerCallback
<1>4. signaled' \in [Signals -> BOOLEAN]
  BY DEF TimerCallback, Inv, TypeOK
<1> QED
  BY <1>1, <1>3, <1>4, WakingCallKeeps DEF TimerCallback, Inv, TypeOK

\* A call that changes only signals, semaphores, timers, arbitrated words and
\* the arbiter's list, and returns.
LEMMA ReturningCallKeeps ==
    ASSUME Inv, Idle, TypeOK', TimersOK',
           UNCHANGED <<status, mutexVars, wait_objects, waiting_threads, current_thread, k>>,
           \A c \in Cores : ~halted'[c] => ~halted[c]
    PROVE  Inv'
<1>1. /\ k.pc = "user" /\ k.stop = None /\ k.thread = None /\ k.object = None
      /\ k.kill = {} /\ k.mutexes = {}
  BY DEF Inv, ControlOK, Idle, StopsLate
<1> QED
  BY <1>1, CallKeeps DEF Inv

\* ClearEvent and ClearTimer only reset the signal.
LEMMA ClearSignalKeeps ==
    ASSUME Inv, NEW c \in Cores, NEW t \in Threads, NEW e \in Signals, ClearSignal(c, t, e)
    PROVE  Inv'
<1>1. TypeOK'
  BY DEF Inv, TypeOK, ClearSignal
<1> QED
  BY <1>1, ReturningCallKeeps DEF Inv, TimersOK, ClearSignal, Executes

\* Timer::Set leaves one event, or none while the waiters are woken.
LEMMA SetTimerKeeps ==
    ASSUME Inv, NEW c \in Cores, NEW t \in Threads, NEW tm \in Timers, NEW immediate \in BOOLEAN,
           NEW repeat \in BOOLEAN, SetTimer(c, t, tm, immediate, repeat)
    PROVE  Inv'
<1>1. tm \in Signals /\ Idle
  BY DEF Signals, SetTimer, Executes
<1>2. timer_events \in [Timers -> Nat]
  BY DEF Inv, TypeOK
<1>3. periodic' \in [Timers -> BOOLEAN]
  BY DEF SetTimer, Inv, TypeOK
<1>4. CASE immediate
  <2>1. /\ timer_events' \in [Timers -> Nat] /\ timer_events'[tm] = 0
        /\ \A u \in Timers : timer_events'[u] <= 1
    BY <1>2, <1>4 DEF SetTimer, Cancelled, Inv, TimersOK
  <2>2. signaled' \in [Signals -> BOOLEAN] /\ Wakes(c, tm)
    BY <1>4 DEF SetTimer, Inv, TypeOK
  <2> QED
    BY <1>1, <1>3, <2>1, <2>2, WakingCallKeeps DEF SetTimer, Inv, TypeOK
<1>5. CASE ~immediate
  <2>1. /\ timer_events' \in [Timers -> Nat]
        /\ \A u \in Timers : timer_events'[u] <= 1
    BY <1>2, <1>5 DEF SetTimer, Cancelled, Inv, TimersOK
  <2>2. k.object = None /\ UNCHANGED k /\ None \notin Timers
    BY <1>1, <1>5, KernelConstants DEF SetTimer, Inv, ControlOK, Idle, WaitObjects
  <2>3. TimersOK'
    BY <2>1, <2>2 DEF TimersOK
  <2>4. TypeOK'
    BY <1>3, <1>5, <2>1 DEF SetTimer, Inv, TypeOK
  <2> QED
    BY <1>1, <1>5, <2>3, <2>4, ReturningCallKeeps DEF SetTimer
<1> QED
  BY <1>4, <1>5

\* Timer::Cancel leaves no event.
LEMMA CancelTimerKeeps ==
    ASSUME Inv, NEW c \in Cores, NEW t \in Threads, NEW tm \in Timers, CancelTimer(c, t, tm)
    PROVE  Inv'
<1>1. TypeOK' /\ TimersOK'
  BY DEF CancelTimer, Cancelled, Inv, TypeOK, TimersOK
<1> QED
  BY <1>1, ReturningCallKeeps DEF CancelTimer, Executes

\* A store to an arbitrated word changes nothing of the kernel.
LEMMA StoreKeeps ==
    ASSUME Inv, NEW c \in Cores, NEW t \in Threads, NEW a \in Addresses, NEW v \in MemoryValues,
           Store(c, t, a, v)
    PROVE  Inv'
<1>1. TypeOK'
  BY CallConstants DEF Store, Inv, TypeOK
<1> QED
  BY <1>1, ReturningCallKeeps DEF Inv, TimersOK, Store, Executes

\* An arbitration that does not wait only reschedules.
LEMMA ArbitratePassKeeps ==
    ASSUME Inv, NEW c \in Cores, NEW t \in Threads, NEW a, NEW v, ArbitratePass(c, t, a, v)
    PROVE  Inv'
<1>1. halted' \in [Cores -> BOOLEAN] /\ \A d \in Cores : ~halted'[d] => ~halted[d]
  BY DEF ArbitratePass, Halt, Inv, TypeOK
<1>2. TypeOK'
  BY <1>1 DEF ArbitratePass, Inv, TypeOK
<1> QED
  BY <1>1, <1>2, ReturningCallKeeps DEF Inv, TimersOK, ArbitratePass, Executes

\* The caller goes to sleep without wait objects.
LEMMA DozeKeeps ==
    ASSUME Inv, NEW c \in Cores, NEW t \in Threads, Executes(c, t), Halt(c), TypeOK',
           NEW s \in {"WaitSleep", "WaitArb"}, status' = [status EXCEPT ![t] = s],
           UNCHANGED <<mutexVars, timer_events, wait_objects, waiting_threads, current_thread, k>>
    PROVE  Inv'
<1>1. /\ k.pc = "user" /\ k.stop = None /\ k.thread = None /\ k.object = None
      /\ k.kill = {} /\ k.mutexes = {}
  BY DEF Inv, ControlOK, Executes, Idle, StopsLate
<1>2. halted' = [halted EXCEPT ![c] = TRUE] /\ halted \in [Cores -> BOOLEAN]
  BY DEF Halt, Inv, TypeOK
<1>3. current_thread[c] = t /\ ~halted[c] /\ t # None
  BY KernelConstants DEF Executes, WaitObjects
<1>4. CoreOf[t] = c /\ status[t] \in {"Running", "Dead"}
  BY <1>3 DEF Inv, CoresOK
<1>5. \A d \in Cores : current_thread[d] = t => d = c
  BY <1>3, <1>4 DEF Inv, CoresOK
<1>6. \A u \in Threads :
        \/ status'[u] = status[u]
        \/ /\ status[u] \notin WaitSynch /\ status'[u] # "Running"
           /\ \A d \in Cores : current_thread[d] = u => halted'[d]
  BY <1>2, <1>4, <1>5 DEF Inv, TypeOK, WaitSynch
<1>7. \A d \in Cores : ~halted'[d] => ~halted[d]
  BY <1>2
<1>8. TimersOK'
  BY <1>1 DEF Inv, TimersOK
<1> QED
  BY <1>1, <1>6, <1>7, <1>8, CallKeeps DEF Inv, Executes

\* SleepThread puts the caller to sleep on no object.
LEMMA SleepThreadKeeps ==
    ASSUME Inv, NEW c \in Cores, NEW t \in Threads, NEW timeout, SleepThread(c, t, timeout)
    PROVE  Inv'
<1>1. status' \in [Threads -> Statuses] /\ wake_events' \in SUBSET Threads
  BY DEF SleepThread, Inv, TypeOK, Statuses
<1>2. halted' \in [Cores -> BOOLEAN]
  BY DEF SleepThread, Halt, Inv, TypeOK
<1>3. TypeOK'
  BY <1>1, <1>2 DEF SleepThread, Inv, TypeOK
<1> QED
  BY <1>3, DozeKeeps DEF SleepThread

\* A waiting arbitration puts the caller to sleep on no object.
LEMMA ArbitrateWaitKeeps ==
    ASSUME Inv, NEW c \in Cores, NEW t \in Threads, NEW a \in Addresses, NEW v, NEW decrement,
           NEW timeout, ArbitrateWait(c, t, a, v, decrement, timeout)
    PROVE  Inv'
<1>1. status' \in [Threads -> Statuses] /\ wake_events' \in SUBSET Threads
  BY DEF ArbitrateWait, Inv, TypeOK, Statuses
<1>2. halted' \in [Cores -> BOOLEAN]
  BY DEF ArbitrateWait, Halt, Inv, TypeOK
<1>3. wakeup_callback' \in [Threads -> {"null", "sync", "arbiter"}]
  BY DEF ArbitrateWait, Inv, TypeOK
<1>4. wait_address' \in [Threads -> Addresses \cup {None}] /\ arbiter' \in Seq(Threads)
  BY DEF ArbitrateWait, Inv, TypeOK
<1>5. memory' \in [Addresses -> Int32]
  <2>1. memory[a] \in Int32
    BY DEF Inv, TypeOK
  <2>2. Wrap(memory[a] - 1) \in Int32
    BY <2>1, WrapType, KernelConstants DEF Int32
  <2> QED
    BY <2>2 DEF ArbitrateWait, Inv, TypeOK
<1>6. TypeOK'
  BY <1>1, <1>2, <1>3, <1>4, <1>5 DEF ArbitrateWait, Inv, TypeOK
<1> QED
  BY <1>6, DozeKeeps DEF ArbitrateWait

\* A signalling arbitration starts the loop over the arbiter's threads.
LEMMA ArbitrateSignalKeeps ==
    ASSUME Inv, NEW c \in Cores, NEW t \in Threads, NEW a \in Addresses, NEW v \in MemoryValues,
           ArbitrateSignal(c, t, a, v)
    PROVE  Inv'
<1>1. UserMode(c) \in KernelState /\ "arbitrate" \in Loops /\ v \in Int
  BY LoopNames, UserModeType, CallConstants, KernelConstants DEF Int32
<1>2. k' = [UserMode(c) EXCEPT !.pc = "arbitrate", !.address = a, !.count = v]
  BY DEF ArbitrateSignal
<1>3. k' \in KernelState
  BY <1>1, <1>2 DEF KernelState
<1>4. /\ k'.pc = "arbitrate" /\ k'.thread = None /\ k'.object = None /\ k'.stop = None
      /\ k'.mutexes = {} /\ k'.kill = {}
  BY <1>2 DEF UserMode
<1>5. TypeOK'
  BY <1>3 DEF ArbitrateSignal, Inv, TypeOK
<1>6. TimersOK'
  BY <1>4, KernelConstants DEF ArbitrateSignal, Inv, TimersOK, WaitObjects
<1> QED
  BY <1>4, <1>5, <1>6, CallKeeps DEF ArbitrateSignal, Executes, Inv

\* CreateThread makes an unborn thread ready.
LEMMA CreateThreadKeeps ==
    ASSUME Inv, NEW c \in Cores, NEW t \in Threads, NEW new \in Threads, NEW p \in NewPriorities,
           CreateThread(c, t, new, p)
    PROVE  Inv'
<1>1. status' \in [Threads -> Statuses] /\ p \in Priorities
  BY CallConstants DEF CreateThread, Inv, TypeOK, Statuses
<1>2. halted' \in [Cores -> BOOLEAN] /\ \A d \in Cores : ~halted'[d] => ~halted[d]
  BY DEF CreateThread, Halt, Inv, TypeOK
<1>3. /\ nominal_priority' \in [Threads -> Priorities]
      /\ current_priority' \in [Threads -> Priorities]
      /\ thread_list' \in SUBSET Threads
  BY <1>1 DEF CreateThread, Inv, TypeOK
<1>4. TypeOK'
  BY <1>1, <1>2, <1>3 DEF CreateThread, Inv, TypeOK
<1>5. /\ k.pc = "user" /\ k.stop = None /\ k.thread = None /\ k.object = None
      /\ k.kill = {} /\ k.mutexes = {}
  BY DEF Inv, ControlOK, CreateThread, Executes, Idle, StopsLate
<1>6. \A d \in Cores : current_thread[d] = new => halted'[d]
  <2>1. \A d \in Cores : current_thread[d] = new => halted[d]
    BY KernelConstants DEF Inv, CoresOK, CreateThread, WaitObjects
  <2> QED
    BY <2>1, <1>2 DEF CreateThread, Halt, Inv, TypeOK
<1>7. \A u \in Threads :
        \/ status'[u] = status[u]
        \/ /\ status[u] \notin WaitSynch /\ status'[u] # "Running"
           /\ \A d \in Cores : current_thread[d] = u => halted'[d]
  BY <1>6 DEF CreateThread, Inv, TypeOK, WaitSynch
<1>8. TimersOK'
  BY <1>5 DEF CreateThread, Inv, TimersOK
<1> QED
  BY <1>2, <1>4, <1>5, <1>7, <1>8, CallKeeps DEF Inv, CreateThread, Executes

\* SetThreadPriority starts the loop over the pending mutexes.
LEMMA SetThreadPriorityKeeps ==
    ASSUME Inv, NEW c \in Cores, NEW t \in Threads, NEW u \in Threads, NEW p \in NewPriorities,
           SetThreadPriority(c, t, u, p)
    PROVE  Inv'
<1>1. UserMode(c) \in KernelState /\ "priority" \in Loops /\ p \in Priorities
  BY LoopNames, UserModeType, CallConstants
<1>2. PendingMutexes(u) \in SUBSET Mutexes
  BY DEF PendingMutexes
<1>3. k' = [UserMode(c) EXCEPT !.pc = "priority", !.mutexes = PendingMutexes(u)]
  BY DEF SetThreadPriority
<1>4. k' \in KernelState
  BY <1>1, <1>2, <1>3 DEF KernelState
<1>5. /\ k'.pc = "priority" /\ k'.thread = None /\ k'.object = None /\ k'.stop = None
      /\ k'.kill = {}
  BY <1>3 DEF UserMode
<1>6. halted' \in [Cores -> BOOLEAN] /\ \A d \in Cores : ~halted'[d] => ~halted[d]
  BY DEF SetThreadPriority, Halt, Inv, TypeOK
<1>7. /\ nominal_priority' \in [Threads -> Priorities]
      /\ current_priority' \in [Threads -> Priorities]
  BY <1>1 DEF SetThreadPriority, Inv, TypeOK
<1>8. TypeOK'
  BY <1>4, <1>6, <1>7 DEF SetThreadPriority, Inv, TypeOK
<1>9. TimersOK'
  BY <1>5, KernelConstants DEF SetThreadPriority, Inv, TimersOK, WaitObjects
<1> QED
  BY <1>5, <1>6, <1>8, <1>9, CallKeeps DEF Inv, SetThreadPriority, Executes

\* An ASSERT that fails leaves everything as it is.
LEMMA AbortKeeps ==
    ASSUME Inv, NEW message \in Asserts, Abort(message)
    PROVE  Inv'
<1>1. TypeOK'
  BY DEF Inv, TypeOK, Abort
<1>2. ControlOK' /\ CoresOK' /\ RunningOK' /\ SubjectOK' /\ TimersOK'
  BY DEF Inv, Abort, ControlOK, CoresOK, RunningOK, SubjectOK, TimersOK, StopsLate
<1>3. SleepersOK' /\ ListsUnique' /\ ListsOK' /\ MutexesOK'
  BY DEF Inv, Abort, SleepersOK, ListsUnique, Unique, ListsOK, MutexesOK, StopsLate, StopsEarly,
         Leaves, Enters
<1> QED
  BY <1>1, <1>2, <1>3 DEF Inv

\* TerminateProcess starts the loop over the process's threads.
LEMMA TerminateProcessKeeps ==
    ASSUME Inv, NEW c \in Cores, NEW t \in Threads, NEW p \in Terminated, TerminateProcess(c, t, p)
    PROVE  Inv'
<1>1. CASE p \in exited
  <2>1. Abort("Process has already exited")
    BY <1>1 DEF TerminateProcess
  <2>2. "Process has already exited" \in Asserts
    BY DEF Asserts
  <2> QED
    BY <2>1, <2>2, AbortKeeps
<1>2. CASE p \notin exited
  <2>1. UserMode(c) \in KernelState /\ "terminate" \in Loops /\ p \in Processes
    BY LoopNames, UserModeType, CallConstants
  <2> DEFINE kill == {u \in thread_list : OwnerOf[u] = p}
  <2>2. kill \in SUBSET Threads
    BY DEF Inv, TypeOK
  <2>3. k' = [UserMode(c) EXCEPT !.pc = "terminate", !.kill = kill]
    BY <1>2 DEF TerminateProcess
  <2> HIDE DEF kill
  <2>4. k' \in KernelState
    BY <2>1, <2>2, <2>3 DEF KernelState
  <2>5. /\ k'.pc = "terminate" /\ k'.thread = None /\ k'.object = None /\ k'.stop = None
        /\ k'.mutexes = {}
    BY <2>3 DEF UserMode
  <2>6. TypeOK'
    BY <1>2, <2>1, <2>4 DEF TerminateProcess, Inv, TypeOK
  <2>7. TimersOK'
    BY <1>2, <2>5, KernelConstants DEF TerminateProcess, Inv, TimersOK, WaitObjects
  <2> QED
    BY <1>2, <2>5, <2>6, <2>7, CallKeeps DEF Inv, TerminateProcess, Executes
<1> QED
  BY <1>1, <1>2


\* The thread a core executes waits for nothing.
LEMMA CallerFacts ==
    ASSUME Inv, NEW c \in Cores, NEW t \in Threads, Executes(c, t)
    PROVE  /\ k.pc = "user" /\ k.stop = None /\ k.thread = None /\ k.object = None
           /\ k.kill = {} /\ k.mutexes = {}
           /\ t # None /\ CoreOf[t] = c /\ status[t] \in {"Running", "Dead"}
           /\ current_thread[c] = t /\ \A d \in Cores : current_thread[d] = t => d = c
           /\ wait_objects[t] = << >> /\ \A o \in WaitObjects : ~IsIn(t, waiting_threads[o])
<1>1. /\ k.pc = "user" /\ k.stop = None /\ k.thread = None /\ k.object = None
      /\ k.kill = {} /\ k.mutexes = {}
  BY DEF Inv, ControlOK, Executes, Idle, StopsLate
<1>2. current_thread[c] = t /\ ~halted[c] /\ t # None
  BY KernelConstants DEF Executes, WaitObjects
<1>3. CoreOf[t] = c /\ status[t] \in {"Running", "Dead"}
  BY <1>2 DEF Inv, CoresOK
<1>4. \A d \in Cores : current_thread[d] = t => d = c
  BY <1>2, <1>3 DEF Inv, CoresOK
<1>5. wait_objects[t] = << >>
  BY <1>1, <1>3 DEF Inv, SleepersOK, StopsEarly, WaitSynch
<1>6. \A o \in WaitObjects : ~IsIn(t, waiting_threads[o])
  BY <1>5, IsInEmpty DEF Inv, ListsOK
<1> QED
  BY <1>1, <1>2, <1>3, <1>4, <1>5, <1>6

\* The caller sleeps; the "add" loop has all its lists still to do.
LEMMA SleepOnKeeps ==
    ASSUME Inv, NEW c \in Cores, NEW t \in Threads, Executes(c, t),
           NEW objs \in Seq(WaitObjects), NEW mode \in WaitSynch, NEW timeout,
           SleepOn(c, t, objs, mode, timeout)
    PROVE  Inv'
<1>0. /\ k.pc = "user" /\ k.stop = None /\ k.thread = None /\ k.object = None
      /\ t # None /\ CoreOf[t] = c /\ status[t] \in {"Running", "Dead"}
      /\ current_thread[c] = t /\ \A d \in Cores : current_thread[d] = t => d = c
      /\ wait_objects[t] = << >> /\ \A o \in WaitObjects : ~IsIn(t, waiting_threads[o])
  BY CallerFacts
<1>1. UserMode(c) \in KernelState /\ "add" \in Loops
  BY LoopNames, UserModeType
<1>2. k' = [UserMode(c) EXCEPT !.pc = "add", !.thread = t, !.rest = objs]
  BY DEF SleepOn
<1>3. k' \in KernelState
  BY <1>1, <1>2 DEF KernelState
<1>4. /\ k'.pc = "add" /\ k'.thread = t /\ k'.object = None /\ k'.stop = None
      /\ k'.mutexes = {} /\ k'.kill = {} /\ k'.rest = objs
  BY <1>2 DEF UserMode
<1>5. status' \in [Threads -> Statuses] /\ wait_objects' \in [Threads -> Seq(WaitObjects)]
  BY DEF SleepOn, Inv, TypeOK, Statuses
<1>6. /\ wakeup_callback' \in [Threads -> {"null", "sync", "arbiter"}]
      /\ wake_events' \in SUBSET Threads /\ halted' \in [Cores -> BOOLEAN]
  BY DEF SleepOn, Halt, Inv, TypeOK
<1>7. TypeOK'
  BY <1>3, <1>5, <1>6 DEF SleepOn, Inv, TypeOK
<1>8. ControlOK'
  BY <1>0, <1>4 DEF ControlOK, StopsLate
<1>9. /\ \A u \in Threads : status'[u] = IF u = t THEN mode ELSE status[u]
      /\ \A u \in Threads : wait_objects'[u] = IF u = t THEN objs ELSE wait_objects[u]
      /\ \A d \in Cores : halted'[d] = IF d = c THEN TRUE ELSE halted[d]
      /\ mode # "Running" /\ mode # "Dead"
  BY DEF SleepOn, Halt, Inv, TypeOK, WaitSynch
<1>10. CoresOK'
  <2>1. \A d \in Cores : current_thread[d] # None => current_thread[d] \in Threads
    BY DEF Inv, TypeOK
  <2>2. UNCHANGED current_thread
    BY DEF SleepOn
  <2>3. \A d \in Cores : current_thread[d] # None /\ current_thread[d] # t =>
          /\ CoreOf[current_thread[d]] = d
          /\ ~halted'[d] => status'[current_thread[d]] \in {"Running", "Dead"}
    BY <2>1, <1>0, <1>9 DEF Inv, CoresOK
  <2>4. \A d \in Cores : current_thread[d] = t => CoreOf[t] = d /\ halted'[d]
    BY <1>0, <1>9
  <2> QED
    BY <2>2, <2>3, <2>4 DEF CoresOK
<1>11. RunningOK'
  BY <1>9 DEF Inv, RunningOK, SleepOn
<1>12. SubjectOK'
  BY <1>4, <1>9 DEF SubjectOK
<1>13. SleepersOK'
  BY <1>0, <1>9 DEF Inv, SleepersOK, StopsEarly
<1>14. ListsUnique'
  BY DEF Inv, ListsUnique, Unique, SleepOn
<1>15. ListsOK'
  BY <1>0, <1>4, <1>9 DEF Inv, ListsOK, Leaves, Enters, SleepOn
<1>16. MutexesOK'
  BY <1>0, <1>4 DEF Inv, MutexesOK, StopsLate, SleepOn
<1>17. TimersOK'
  BY <1>0, <1>4 DEF Inv, TimersOK, SleepOn
<1> QED
  BY <1>7, <1>8, <1>10, <1>11, <1>12, <1>13, <1>14, <1>15, <1>16, <1>17 DEF Inv

\* The caller stays awake and takes the objects in the "acquire" loop.
LEMMA AcquireNowKeeps ==
    ASSUME Inv, NEW c \in Cores, NEW t \in Threads, Executes(c, t),
           NEW objs \in Seq(WaitObjects), AcquireNow(c, t, objs)
    PROVE  Inv'
<1>0. /\ k.pc = "user" /\ k.stop = None /\ k.thread = None /\ k.object = None
      /\ t # None /\ status[t] \in {"Running", "Dead"}
  BY CallerFacts
<1>1. UserMode(c) \in KernelState /\ "acquire" \in Loops
  BY LoopNames, UserModeType
<1>2. k' = [UserMode(c) EXCEPT !.pc = "acquire", !.thread = t, !.rest = objs]
  BY DEF AcquireNow
<1>3. k' \in KernelState
  BY <1>1, <1>2 DEF KernelState
<1>4. /\ k'.pc = "acquire" /\ k'.thread = t /\ k'.object = None /\ k'.stop = None
      /\ k'.mutexes = {} /\ k'.kill = {}
  BY <1>2 DEF UserMode
<1>5. TypeOK'
  BY <1>3 DEF AcquireNow, Inv, TypeOK
<1>6. ControlOK'
  BY <1>0, <1>4 DEF ControlOK, StopsLate
<1>7. CoresOK' /\ RunningOK' /\ SubjectOK' /\ TimersOK'
  BY <1>0, <1>4 DEF Inv, CoresOK, RunningOK, SubjectOK, TimersOK, AcquireNow
<1>8. SleepersOK' /\ ListsUnique' /\ MutexesOK'
  BY <1>0, <1>4 DEF Inv, SleepersOK, StopsEarly, StopsLate, ListsUnique, Unique, MutexesOK, AcquireNow
<1>9. ListsOK'
  BY <1>0, <1>4 DEF Inv, ListsOK, Leaves, Enters, AcquireNow
<1> QED
  BY <1>5, <1>6, <1>7, <1>8, <1>9 DEF Inv

\* WaitSynchronization1 sleeps or takes its object.
LEMMA WaitSynchronization1Keeps ==
    ASSUME Inv, NEW c \in Cores, NEW t \in Threads, NEW o \in WaitTargets[t], NEW timeout,
           WaitSynchronization1(c, t, o, timeout)
    PROVE  Inv'
<1>1. <<o>> \in Seq(WaitObjects) /\ "WaitSynchAny" \in WaitSynch
  BY CallConstants DEF WaitSynch
<1>2. Executes(c, t)
  BY DEF WaitSynchronization1
<1>3. CASE SleepOn(c, t, <<o>>, "WaitSynchAny", timeout)
  BY <1>1, <1>2, <1>3, SleepOnKeeps
<1>4. CASE AcquireNow(c, t, <<o>>)
  BY <1>1, <1>2, <1>4, AcquireNowKeeps
<1> QED
  BY <1>3, <1>4 DEF WaitSynchronization1

\* WaitSynchronizationN sleeps, or takes all objects or the first it can.
LEMMA WaitSynchronizationNKeeps ==
    ASSUME Inv, NEW c \in Cores, NEW t \in Threads, NEW objs \in WaitLists[t],
           NEW wait_all \in BOOLEAN, NEW timeout,
           WaitSynchronizationN(c, t, objs, wait_all, timeout)
    PROVE  Inv'
<1>1. objs \in Seq(WaitObjects) /\ "WaitSynchAny" \in WaitSynch /\ "WaitSynchAll" \in WaitSynch
  BY CallConstants DEF WaitSynch
<1>2. Executes(c, t)
  BY DEF WaitSynchronizationN
<1>3. CASE \E mode \in WaitSynch : SleepOn(c, t, objs, mode, timeout)
  BY <1>1, <1>2, <1>3, SleepOnKeeps
<1>4. CASE AcquireNow(c, t, objs)
  BY <1>1, <1>2, <1>4, AcquireNowKeeps
<1>5. ASSUME NEW i \in 1 .. Len(objs), AcquireNow(c, t, <<objs[i]>>) PROVE Inv'
  <2>1. objs[i] \in WaitObjects
    BY <1>1
  <2>2. <<objs[i]>> \in Seq(WaitObjects)
    BY <2>1
  <2> QED
    BY <1>2, <1>5, <2>2, AcquireNowKeeps
<1> QED
  BY <1>1, <1>3, <1>4, <1>5 DEF WaitSynchronizationN

\* Thread::UpdatePriority assigns a priority.
LEMMA UpdatePriorityType ==
    ASSUME NEW t, NEW held, NEW mp, UpdatePriority(t, held, mp),
           current_priority \in [Threads -> Priorities]
    PROVE  current_priority' \in [Threads -> Priorities]
BY DEF UpdatePriority

\* Mutex::UpdatePriority assigns priorities.
LEMMA MutexUpdatePriorityType ==
    ASSUME NEW m, NEW W, MutexUpdatePriority(m, W),
           current_priority \in [Threads -> Priorities],
           mutex_priority \in [Mutexes -> Priorities]
    PROVE  /\ current_priority' \in [Threads -> Priorities]
           /\ mutex_priority' \in [Mutexes -> Priorities]
<1>1. CASE holding_thread[m] = None
  BY <1>1 DEF MutexUpdatePriority
<1>2. CASE holding_thread[m] # None
  <2>1. PICK b \in Priorities :
          /\ mutex_priority' = [mutex_priority EXCEPT ![m] = b]
          /\ IF b # mutex_priority[m]
             THEN UpdatePriority(holding_thread[m], held_mutexes[holding_thread[m]], mutex_priority')
             ELSE UNCHANGED current_priority
    BY <1>2 DEF MutexUpdatePriority
  <2> QED
    BY <2>1, UpdatePriorityType
<1> QED
  BY <1>1, <1>2

\* Adding a thread to one list, or taking it off one, keeps the lists.
LEMMA WaitingListsStep ==
    ASSUME Inv, NEW o \in WaitObjects, NEW t \in Threads
    PROVE  /\ AddWaitingThread(o, t) =>
                /\ waiting_threads' \in [WaitObjects -> Seq(Threads)] /\ ListsUnique'
                /\ \A u \in Threads, p \in WaitObjects :
                     IsIn(u, waiting_threads[p])' <=>
                        IsIn(u, waiting_threads[p]) \/ (u = t /\ p = o)
           /\ RemoveWaitingThread(o, t) =>
                /\ waiting_threads' \in [WaitObjects -> Seq(Threads)] /\ ListsUnique'
                /\ \A u \in Threads, p \in WaitObjects :
                     IsIn(u, waiting_threads[p])' <=>
                        IsIn(u, waiting_threads[p]) /\ ~(u = t /\ p = o)
           /\ AddWaitingThread(o, t) \/ RemoveWaitingThread(o, t) =>
                /\ current_priority' \in [Threads -> Priorities]
                /\ mutex_priority' \in [Mutexes -> Priorities]
<1>1. waiting_threads \in [WaitObjects -> Seq(Threads)] /\ waiting_threads[o] \in Seq(Threads)
  BY DEF Inv, TypeOK
<1>2. \A p \in WaitObjects : Unique(waiting_threads[p])
  BY DEF Inv, ListsUnique
<1>3. ASSUME AddWaitingThread(o, t)
      PROVE  /\ waiting_threads' \in [WaitObjects -> Seq(Threads)] /\ ListsUnique'
             /\ \A u \in Threads, p \in WaitObjects :
                  IsIn(u, waiting_threads[p])' <=>
                     IsIn(u, waiting_threads[p]) \/ (u = t /\ p = o)
  <2> DEFINE w == IF IsIn(t, waiting_threads[o]) THEN waiting_threads[o]
                  ELSE Append(waiting_threads[o], t)
  <2>1. w \in Seq(Threads) /\ Unique(w) /\ \A u : IsIn(u, w) <=> IsIn(u, waiting_threads[o]) \/ u = t
    BY <1>1, <1>2, AppendFacts
  <2>2. waiting_threads' = [waiting_threads EXCEPT ![o] = w]
    BY <1>3 DEF AddWaitingThread
  <2> HIDE DEF w
  <2>3. waiting_threads' \in [WaitObjects -> Seq(Threads)]
    BY <1>1, <2>1, <2>2
  <2>4. \A p \in WaitObjects : waiting_threads'[p] = IF p = o THEN w ELSE waiting_threads[p]
    BY <1>1, <2>2
  <2>5. ListsUnique'
    <3>1. \A p \in WaitObjects : Unique(waiting_threads'[p])
      BY <1>2, <2>1, <2>4
    <3> QED
      BY <3>1 DEF ListsUnique, Unique
  <2>6. \A u \in Threads, p \in WaitObjects :
           IsIn(u, waiting_threads'[p]) <=> IsIn(u, waiting_threads[p]) \/ (u = t /\ p = o)
    BY <2>1, <2>4
  <2> QED
    BY <2>3, <2>5, <2>6 DEF IsIn
<1>4. ASSUME RemoveWaitingThread(o, t)
      PROVE  /\ waiting_threads' \in [WaitObjects -> Seq(Threads)] /\ ListsUnique'
             /\ \A u \in Threads, p \in WaitObjects :
                  IsIn(u, waiting_threads[p])' <=>
                     IsIn(u, waiting_threads[p]) /\ ~(u = t /\ p = o)
  <2> DEFINE w == Without(waiting_threads[o], t)
  <2>1. w \in Seq(Threads) /\ Unique(w) /\ \A u : IsIn(u, w) <=> IsIn(u, waiting_threads[o]) /\ u # t
    BY <1>1, <1>2, WithoutFacts
  <2>2. waiting_threads' = [waiting_threads EXCEPT ![o] = w]
    BY <1>4 DEF RemoveWaitingThread
  <2> HIDE DEF w
  <2>3. waiting_threads' \in [WaitObjects -> Seq(Threads)]
    BY <1>1, <2>1, <2>2
  <2>4. \A p \in WaitObjects : waiting_threads'[p] = IF p = o THEN w ELSE waiting_threads[p]
    BY <1>1, <2>2
  <2>5. ListsUnique'
    <3>1. \A p \in WaitObjects : Unique(waiting_threads'[p])
      BY <1>2, <2>1, <2>4
    <3> QED
      BY <3>1 DEF ListsUnique, Unique
  <2>6. \A u \in Threads, p \in WaitObjects :
           IsIn(u, waiting_threads'[p]) <=> IsIn(u, waiting_threads[p]) /\ ~(u = t /\ p = o)
    BY <2>1, <2>4
  <2> QED
    BY <2>3, <2>5, <2>6 DEF IsIn
<1>5. ASSUME AddWaitingThread(o, t) \/ RemoveWaitingThread(o, t)
      PROVE  /\ current_priority' \in [Threads -> Priorities]
             /\ mutex_priority' \in [Mutexes -> Priorities]
  BY <1>5, MutexUpdatePriorityType DEF AddWaitingThread, RemoveWaitingThread, Inv, TypeOK
<1> QED
  BY <1>3, <1>4, <1>5

\* The kernel after the end of a call.
LEMMA ReturnFacts ==
    ASSUME Inv, ReturnToUser
    PROVE  /\ k' \in KernelState /\ ControlOK' /\ SubjectOK'
           /\ k'.pc = "user" /\ k'.core = k.core /\ k'.stop = None /\ k'.thread = None
           /\ k'.object = None /\ k'.kill = {} /\ k'.mutexes = {}
           /\ \A tm \in Timers : k'.object # tm
<1>1. k.core \in Cores
  BY DEF Inv, TypeOK, KernelState
<1>2. k' \in KernelState
  BY <1>1, UserModeType DEF ReturnToUser
<1>3. /\ k'.pc = "user" /\ k'.core = k.core /\ k'.stop = None /\ k'.thread = None
      /\ k'.object = None /\ k'.kill = {} /\ k'.mutexes = {}
  BY DEF ReturnToUser, UserMode
<1>4. ControlOK' /\ SubjectOK'
  BY <1>3 DEF ControlOK, SubjectOK, StopsLate
<1>5. \A tm \in Timers : k'.object # tm
  BY <1>3, KernelConstants DEF WaitObjects
<1> QED
  BY <1>2, <1>3, <1>4, <1>5

\* One round of the loop over AddWaitingThread.
LEMMA AddNextKeeps ==
    ASSUME Inv, AddNext PROVE Inv'
<1>0. /\ k \in KernelState /\ k.rest \in Seq(WaitObjects) /\ k.thread \in Threads
      /\ k.pc = "add" /\ k.stop = None /\ k.object = None /\ k.thread # None
      /\ status[k.thread] \in WaitSynch
  BY DEF AddNext, Inv, TypeOK, ControlOK, SubjectOK, KernelState
<1>1. CASE k.rest # << >>
  <2>1. /\ Head(k.rest) \in WaitObjects /\ Tail(k.rest) \in Seq(WaitObjects)
        /\ \A o : IsIn(o, k.rest) <=> o = Head(k.rest) \/ IsIn(o, Tail(k.rest))
    BY <1>0, <1>1, IsInTail
  <2>2. AddWaitingThread(Head(k.rest), k.thread) /\ k' = [k EXCEPT !.rest = Tail(k.rest)]
    BY <1>1 DEF AddNext
  <2>3. /\ waiting_threads' \in [WaitObjects -> Seq(Threads)] /\ ListsUnique'
        /\ \A u \in Threads, p \in WaitObjects :
             IsIn(u, waiting_threads[p])' <=>
                IsIn(u, waiting_threads[p]) \/ (u = k.thread /\ p = Head(k.rest))
        /\ current_priority' \in [Threads -> Priorities]
        /\ mutex_priority' \in [Mutexes -> Priorities]
    BY <1>0, <2>1, <2>2, WaitingListsStep
  <2>4. k' \in KernelState
    BY <1>0, <2>1, <2>2 DEF KernelState
  <2>5. /\ k'.rest = Tail(k.rest) /\ k'.pc = "add" /\ k'.stop = None /\ k'.object = None
        /\ k'.thread = k.thread /\ k'.kill = k.kill /\ k'.mutexes = k.mutexes
    BY <1>0, <2>2 DEF KernelState
  <2>6. TypeOK'
    BY <2>3, <2>4 DEF AddNext, Inv, TypeOK
  <2>7. ControlOK'
    BY <1>0, <2>5 DEF Inv, ControlOK, StopsLate
  <2>8. CoresOK' /\ RunningOK' /\ SubjectOK' /\ TimersOK'
    BY <1>0, <2>5 DEF Inv, CoresOK, RunningOK, SubjectOK, TimersOK, AddNext
  <2>9. SleepersOK' /\ MutexesOK'
    BY <1>0, <2>5 DEF Inv, SleepersOK, StopsEarly, StopsLate, MutexesOK, AddNext
  <2>10. ListsOK'
    <3>1. ASSUME NEW t \in Threads, NEW o \in WaitObjects
          PROVE  /\ IsIn(t, waiting_threads[o])' => IsIn(o, wait_objects[t])
                 /\ IsIn(o, wait_objects[t]) =>
                      IsIn(t, waiting_threads[o])' \/ (t = k.thread /\ IsIn(o, Tail(k.rest)))
                 /\ t = k.thread /\ IsIn(o, Tail(k.rest)) => IsIn(o, wait_objects[t])
      <4>1. IsIn(Head(k.rest), wait_objects[k.thread])
        BY <1>0, <2>1 DEF Inv, ListsOK, Enters
      <4> QED
        BY <1>0, <2>1, <2>3 DEF Inv, ListsOK, Leaves, Enters
    <3> QED
      BY <1>0, <2>5, <3>1 DEF ListsOK, Leaves, Enters, AddNext
  <2> QED
    BY <2>3, <2>6, <2>7, <2>8, <2>9, <2>10 DEF Inv
<1>2. CASE k.rest = << >>
  <2>1. ReturnToUser
    BY <1>2 DEF AddNext
  <2>2. /\ k' \in KernelState /\ ControlOK' /\ SubjectOK'
        /\ k'.pc = "user" /\ k'.stop = None /\ \A tm \in Timers : k'.object # tm
    BY <2>1, ReturnFacts
  <2>3. TypeOK'
    BY <1>2, <2>2 DEF AddNext, Inv, TypeOK
  <2>4. CoresOK' /\ RunningOK' /\ TimersOK' /\ ListsUnique'
    BY <1>2, <2>2 DEF Inv, CoresOK, RunningOK, TimersOK, ListsUnique, Unique, AddNext
  <2>5. SleepersOK' /\ MutexesOK'
    BY <1>0, <2>2 DEF Inv, SleepersOK, StopsEarly, StopsLate, MutexesOK, AddNext
  <2>6. \A o : ~IsIn(o, k.rest)
    BY <1>2, IsInEmpty
  <2>7. ListsOK'
    BY <1>0, <1>2, <2>2, <2>6 DEF Inv, ListsOK, Leaves, Enters, AddNext
  <2> QED
    BY <2>2, <2>3, <2>4, <2>5, <2>7 DEF Inv
<1> QED
  BY <1>1, <1>2

\* Mutex::Acquire keeps the ownership exact, for a new and an old holder.
LEMMA AcquireMutexKeeps ==
    ASSUME Inv, k.pc = "acquire", NEW m \in Mutexes, AcquireMutex(m, k.thread),
           k'.pc = "acquire", k'.stop = k.stop, k'.object = k.object, k'.thread = k.thread,
           k'.mutexes = k.mutexes
    PROVE  /\ lock_count' \in [Mutexes -> Nat]
           /\ holding_thread' \in [Mutexes -> Threads \cup {None}]
           /\ held_mutexes' \in [Threads -> SUBSET Mutexes]
           /\ nominal_priority' \in [Threads -> Priorities]
           /\ current_priority' \in [Threads -> Priorities]
           /\ mutex_priority' \in [Mutexes -> Priorities]
           /\ halted' \in [Cores -> BOOLEAN] /\ \A c \in Cores : ~halted'[c] => ~halted[c]
           /\ MutexesOK'
<1>0. /\ k \in KernelState /\ k.thread \in Threads /\ k.core \in Cores /\ k.thread # None
      /\ k.thread # k.stop
  BY DEF Inv, TypeOK, ControlOK, SubjectOK, KernelState, WaitSynch
<1>1. /\ lock_count \in [Mutexes -> Nat] /\ holding_thread \in [Mutexes -> Threads \cup {None}]
      /\ held_mutexes \in [Threads -> SUBSET Mutexes] /\ halted \in [Cores -> BOOLEAN]
      /\ nominal_priority \in [Threads -> Priorities]
      /\ current_priority \in [Threads -> Priorities]
      /\ mutex_priority \in [Mutexes -> Priorities]
  BY DEF Inv, TypeOK
<1>2. CASE lock_count[m] = 0
  <2>1. /\ mutex_priority' = [mutex_priority EXCEPT ![m] = current_priority[k.thread]]
        /\ held_mutexes' = [held_mutexes EXCEPT ![k.thread] = @ \cup {m}]
        /\ holding_thread' = [holding_thread EXCEPT ![m] = k.thread]
        /\ UpdatePriority(k.thread, held_mutexes'[k.thread], mutex_priority')
        /\ lock_count' = [lock_count EXCEPT ![m] = 1]
        /\ halted' = [halted EXCEPT ![k.core] = TRUE]
        /\ UNCHANGED nominal_priority
    BY <1>2 DEF AcquireMutex, WithHolder, PrepareReschedule
  <2>2. mutex_priority' \in [Mutexes -> Priorities] /\ current_priority' \in [Threads -> Priorities]
    BY <1>0, <1>1, <2>1, UpdatePriorityType
  <2>3. /\ lock_count' \in [Mutexes -> Nat]
        /\ holding_thread' \in [Mutexes -> Threads \cup {None}]
        /\ held_mutexes' \in [Threads -> SUBSET Mutexes]
        /\ halted' \in [Cores -> BOOLEAN] /\ \A c \in Cores : ~halted'[c] => ~halted[c]
    BY <1>0, <1>1, <2>1
  <2>4. /\ \A n \in Mutexes : lock_count'[n] = IF n = m THEN 1 ELSE lock_count[n]
        /\ \A n \in Mutexes : holding_thread'[n] = IF n = m THEN k.thread ELSE holding_thread[n]
        /\ \A t \in Threads, n \in Mutexes :
             n \in held_mutexes'[t] <=> n \in held_mutexes[t] \/ (t = k.thread /\ n = m)
    BY <1>0, <1>1, <2>1
  <2>5. holding_thread[m] = None /\ None \notin Threads
    BY <1>1, <1>2, KernelConstants DEF Inv, MutexesOK, WaitObjects
  <2>6. MutexesOK'
    <3>1. StopsLate' <=> StopsLate
      BY DEF StopsLate
    <3>2. StopsLate => m \notin k.mutexes
      BY <2>5 DEF Inv, MutexesOK, StopsLate
    <3>3. ASSUME NEW n \in Mutexes
          PROVE  /\ lock_count'[n] > 0 <=> holding_thread'[n] # None
                 /\ \A t \in Threads :
                      /\ holding_thread'[n] = t => n \in held_mutexes'[t]
                      /\ n \in held_mutexes'[t] =>
                           holding_thread'[n] = t \/ (t = k.stop /\ StopsLate)
                 /\ StopsLate => (holding_thread'[n] = k.stop <=> n \in k.mutexes)
      <4>1. CASE n = m
        BY <4>1, <1>0, <2>4, <2>5, <3>2 DEF Inv, MutexesOK
      <4>2. CASE n # m
        BY <4>2, <2>4 DEF Inv, MutexesOK
      <4> QED
        BY <4>1, <4>2
    <3> QED
      BY <3>1, <3>3 DEF MutexesOK
  <2> QED
    BY <1>1, <2>1, <2>2, <2>3, <2>6
<1>3. CASE lock_count[m] # 0
  <2>1. /\ lock_count' = [lock_count EXCEPT ![m] = @ + 1]
        /\ UNCHANGED <<holding_thread, held_mutexes, priorityVars, halted>>
    BY <1>3 DEF AcquireMutex
  <2>2. lock_count' \in [Mutexes -> Nat] /\ \A n \in Mutexes : lock_count'[n] > 0 <=> lock_count[n] > 0
    BY <1>1, <1>3, <2>1
  <2>3. MutexesOK'
    BY <2>1, <2>2 DEF Inv, MutexesOK, StopsLate
  <2> QED
    BY <1>1, <2>1, <2>2, <2>3
<1> QED
  BY <1>2, <1>3

\* Acquire of a signal or a semaphore keeps their types.
LEMMA AcquireOtherType ==
    ASSUME NEW o, AcquireOther(o), signaled \in [Signals -> BOOLEAN],
           available_count \in [Semaphores -> Int32]
    PROVE  signaled' \in [Signals -> BOOLEAN] /\ available_count' \in [Semaphores -> Int32]
<1>1. signaled' \in [Signals -> BOOLEAN]
  BY DEF AcquireOther, AcquireSignal
<1>2. available_count' \in [Semaphores -> Int32]
  BY KernelConstants DEF AcquireOther, AcquireSemaphore, Int32
<1> QED
  BY <1>1, <1>2

\* Between two objects of an acquire loop.
LEMMA AcquireStepKeeps ==
    ASSUME Inv, k.pc = "acquire", TypeOK', MutexesOK', UNCHANGED <<status, timer_events,
               wait_objects, waiting_threads, current_thread>>,
           \A c \in Cores : ~halted'[c] => ~halted[c],
           k' = [k EXCEPT !.rest = Tail(@)]
    PROVE  Inv'
<1>1. /\ k'.pc = "acquire" /\ k'.stop = k.stop /\ k'.object = k.object /\ k'.thread = k.thread
      /\ k'.mutexes = k.mutexes /\ k'.kill = k.kill
  BY DEF Inv, TypeOK, KernelState
<1>2. ControlOK'
  BY <1>1 DEF Inv, ControlOK, StopsLate
<1>3. CoresOK' /\ RunningOK' /\ SubjectOK' /\ TimersOK'
  BY <1>1 DEF Inv, CoresOK, RunningOK, SubjectOK, TimersOK
<1>4. SleepersOK' /\ ListsUnique'
  BY <1>1 DEF Inv, SleepersOK, StopsEarly, ListsUnique, Unique
<1>5. ListsOK'
  BY <1>1 DEF Inv, ListsOK, Leaves, Enters
<1> QED
  BY <1>2, <1>3, <1>4, <1>5 DEF Inv

\* One round of the loop over Acquire, and its end.
LEMMA AcquireNextKeeps ==
    ASSUME Inv, AcquireNext PROVE Inv'
<1>0. /\ k \in KernelState /\ k.rest \in Seq(WaitObjects) /\ k.thread \in Threads
      /\ k.pc = "acquire" /\ k.thread # None
  BY DEF AcquireNext, Inv, TypeOK, ControlOK, KernelState
<1>1. CASE Abort("object unavailable!")
  <2>1. "object unavailable!" \in Asserts
    BY DEF Asserts
  <2> QED
    BY <1>1, <2>1, AbortKeeps
<1>2. CASE /\ k.rest # << >>
           /\ IF Head(k.rest) \in Mutexes
              THEN /\ AcquireMutex(Head(k.rest), k.thread)
                   /\ UNCHANGED <<signaled, available_count>>
              ELSE /\ AcquireOther(Head(k.rest))
                   /\ UNCHANGED <<mutexVars, priorityVars, halted>>
           /\ k' = [k EXCEPT !.rest = Tail(@)]
           /\ UNCHANGED <<status, timer_events, periodic, waitVars, arbiterVars,
                          processVars, current_thread, failed>>
  <2>1. Tail(k.rest) \in Seq(WaitObjects)
    BY <1>0, <1>2, IsInTail
  <2>2. k' \in KernelState
    BY <1>0, <1>2, <2>1 DEF KernelState
  <2>3. /\ k'.pc = "acquire" /\ k'.stop = k.stop /\ k'.object = k.object /\ k'.thread = k.thread
        /\ k'.mutexes = k.mutexes
    BY <1>0, <1>2 DEF KernelState
  <2>4. CASE Head(k.rest) \in Mutexes
    <3>1. AcquireMutex(Head(k.rest), k.thread) /\ UNCHANGED <<signaled, available_count>>
      BY <1>2, <2>4
    <3>2. /\ lock_count' \in [Mutexes -> Nat]
          /\ holding_thread' \in [Mutexes -> Threads \cup {None}]
          /\ held_mutexes' \in [Threads -> SUBSET Mutexes]
          /\ nominal_priority' \in [Threads -> Priorities]
          /\ current_priority' \in [Threads -> Priorities]
          /\ mutex_priority' \in [Mutexes -> Priorities]
          /\ halted' \in [Cores -> BOOLEAN] /\ \A c \in Cores : ~halted'[c] => ~halted[c]
          /\ MutexesOK'
      BY <1>0, <2>3, <2>4, <3>1, AcquireMutexKeeps
    <3>3. TypeOK'
      BY <1>2, <2>2, <3>1, <3>2 DEF Inv, TypeOK
    <3> QED
      BY <1>0, <1>2, <3>2, <3>3, AcquireStepKeeps
  <2>5. CASE Head(k.rest) \notin Mutexes
    <3>1. AcquireOther(Head(k.rest)) /\ UNCHANGED <<mutexVars, priorityVars, halted>>
      BY <1>2, <2>5
    <3>2. signaled' \in [Signals -> BOOLEAN] /\ available_count' \in [Semaphores -> Int32]
      BY <3>1, AcquireOtherType DEF Inv, TypeOK
    <3>3. TypeOK'
      BY <1>2, <2>2, <3>1, <3>2 DEF Inv, TypeOK
    <3>4. MutexesOK'
      BY <2>3, <3>1, <1>0 DEF Inv, MutexesOK, StopsLate
    <3> QED
      BY <1>0, <1>2, <3>1, <3>3, <3>4, AcquireStepKeeps
  <2> QED
    BY <2>4, <2>5
<1>3. CASE /\ k.rest = << >>
           /\ IF k.object = None THEN ReturnToUser
              ELSE k' = [k EXCEPT !.pc = "remove", !.rest = wait_objects[k.thread]]
           /\ UNCHANGED <<status, priorityVars, mutexVars, signalVars, waitVars,
                          arbiterVars, processVars, coreVars, failed>>
  <2>1. CASE k.object = None
    <3>0. k.stop = None
      BY <1>0, <2>1 DEF Inv, ControlOK
    <3>1. /\ k' \in KernelState /\ ControlOK' /\ SubjectOK'
          /\ k'.pc = "user" /\ k'.stop = None /\ \A tm \in Timers : k'.object # tm
      BY <1>3, <2>1, ReturnFacts
    <3>2. TypeOK'
      BY <1>3, <3>1 DEF Inv, TypeOK
    <3>3. CoresOK' /\ RunningOK' /\ TimersOK' /\ ListsUnique'
      BY <1>3, <3>1 DEF Inv, CoresOK, RunningOK, TimersOK, ListsUnique, Unique
    <3>4. SleepersOK' /\ MutexesOK'
      BY <1>3, <3>0, <3>1 DEF Inv, SleepersOK, StopsEarly, StopsLate, MutexesOK
    <3>5. ListsOK'
      BY <1>0, <1>3, <3>1 DEF Inv, ListsOK, Leaves, Enters
    <3> QED
      BY <3>1, <3>2, <3>3, <3>4, <3>5 DEF Inv
  <2>2. CASE k.object # None
    <3>1. wait_objects[k.thread] \in Seq(WaitObjects) /\ "remove" \in Loops
      BY <1>0, LoopNames DEF Inv, TypeOK
    <3>2. k' = [k EXCEPT !.pc = "remove", !.rest = wait_objects[k.thread]]
      BY <1>3, <2>2
    <3>3. k' \in KernelState
      BY <1>0, <3>1, <3>2 DEF KernelState
    <3>4. /\ k'.pc = "remove" /\ k'.rest = wait_objects[k.thread] /\ k'.stop = k.stop
          /\ k'.object = k.object /\ k'.thread = k.thread /\ k'.mutexes = k.mutexes
          /\ k'.kill = k.kill
      BY <1>0, <3>2 DEF KernelState
    <3>5. TypeOK'
      BY <1>3, <3>3 DEF Inv, TypeOK
    <3>6. ControlOK'
      BY <1>0, <2>2, <3>4 DEF Inv, ControlOK, StopsLate
    <3>7. CoresOK' /\ RunningOK' /\ SubjectOK' /\ TimersOK' /\ ListsUnique'
      BY <1>0, <1>3, <2>2, <3>4 DEF Inv, CoresOK, RunningOK, SubjectOK, TimersOK, ListsUnique, Unique
    <3>8. SleepersOK' /\ MutexesOK'
      BY <1>0, <1>3, <3>4 DEF Inv, SleepersOK, StopsEarly, StopsLate, MutexesOK
    <3>9. ListsOK'
      BY <1>0, <1>3, <3>4 DEF Inv, ListsOK, Leaves, Enters
    <3> QED
      BY <3>5, <3>6, <3>7, <3>8, <3>9 DEF Inv
  <2> QED
    BY <2>1, <2>2
<1> QED
  BY <1>1, <1>2, <1>3 DEF AcquireNext

\* The end of the wake loop: a pulse resets, a periodic timer is scheduled.
LEMMA WakeDoneKeeps ==
    ASSUME Inv, k.pc = "wake", WakeDone PROVE Inv'
<1>0. k \in KernelState /\ k.object \in WaitObjects /\ k.object # None /\ k.thread = None
  BY DEF Inv, TypeOK, ControlOK, KernelState
<1>1. signaled' \in [Signals -> BOOLEAN]
  BY DEF WakeDone, Inv, TypeOK
<1>2. /\ timer_events' \in [Timers -> Nat]
      /\ \A tm \in Timers : timer_events'[tm] <= 1
  BY DEF WakeDone, Inv, TypeOK, TimersOK
<1>3. k' \in KernelState =>
        TypeOK' /\ CoresOK' /\ RunningOK' /\ ListsUnique'
  BY <1>1, <1>2 DEF WakeDone, Inv, TypeOK, CoresOK, RunningOK, ListsUnique, Unique
<1>4. None \notin Timers
  BY KernelConstants DEF WaitObjects
<1>5. CASE k.stop = None /\ ReturnToUser
  <2>1. /\ k' \in KernelState /\ ControlOK' /\ SubjectOK'
        /\ k'.pc = "user" /\ k'.stop = None /\ \A tm \in Timers : k'.object # tm
    BY <1>5, ReturnFacts
  <2>2. SleepersOK' /\ MutexesOK' /\ TimersOK'
    BY <1>2, <1>5, <2>1 DEF Inv, SleepersOK, StopsEarly, StopsLate, MutexesOK, TimersOK, WakeDone
  <2>3. ListsOK'
    BY <2>1 DEF Inv, ListsOK, Leaves, Enters, WakeDone
  <2> QED
    BY <1>3, <2>1, <2>2, <2>3 DEF Inv
<1>6. CASE /\ k.stop # None /\ k.stop = k.object
           /\ k' = [k EXCEPT !.pc = "detach", !.object = None, !.rest = wait_objects[k.stop]]
  <2>1. k.stop \in Threads /\ "detach" \in Loops
    BY <1>0, <1>6, LoopNames DEF KernelState
  <2>2. wait_objects[k.stop] \in Seq(WaitObjects)
    BY <2>1 DEF Inv, TypeOK
  <2>3. k' \in KernelState
    BY <1>0, <1>6, <2>1, <2>2 DEF KernelState
  <2>4. /\ k'.pc = "detach" /\ k'.object = None /\ k'.rest = wait_objects[k.stop]
        /\ k'.stop = k.stop /\ k'.thread = None /\ k'.mutexes = k.mutexes /\ k'.kill = k.kill
    BY <1>0, <1>6 DEF KernelState
  <2>5. StopsEarly /\ StopsEarly' /\ ~StopsLate /\ ~StopsLate' /\ k.mutexes = {}
    BY <1>6, <2>4 DEF StopsEarly, StopsLate, Inv, ControlOK
  <2>6. ControlOK' /\ SubjectOK'
    BY <1>6, <2>4, <2>5 DEF ControlOK, SubjectOK, Inv, WakeDone
  <2>7. SleepersOK' /\ MutexesOK' /\ TimersOK'
    BY <1>2, <1>4, <2>4, <2>5 DEF Inv, SleepersOK, MutexesOK, TimersOK, WakeDone
  <2>8. ListsOK'
    BY <2>4 DEF Inv, ListsOK, Leaves, Enters, WakeDone
  <2> QED
    BY <1>3, <2>3, <2>6, <2>7, <2>8 DEF Inv
<1>7. CASE /\ k.stop # None /\ k.stop # k.object
           /\ k' = [k EXCEPT !.pc = "release", !.object = None]
  <2>1. "release" \in Loops
    BY LoopNames
  <2>2. k' \in KernelState
    BY <1>0, <1>7, <2>1 DEF KernelState
  <2>3. /\ k'.pc = "release" /\ k'.object = None /\ k'.stop = k.stop /\ k'.thread = None
        /\ k'.mutexes = k.mutexes /\ k'.kill = k.kill
    BY <1>0, <1>7 DEF KernelState
  <2>4. ~StopsEarly /\ ~StopsEarly' /\ StopsLate /\ StopsLate'
    BY <1>7, <2>3 DEF StopsEarly, StopsLate
  <2>5. ControlOK' /\ SubjectOK'
    BY <1>7, <2>3, <2>4 DEF ControlOK, SubjectOK, Inv, WakeDone
  <2>6. SleepersOK' /\ MutexesOK' /\ TimersOK'
    BY <1>2, <1>4, <2>3, <2>4 DEF Inv, SleepersOK, MutexesOK, TimersOK, WakeDone
  <2>7. ListsOK'
    BY <2>3 DEF Inv, ListsOK, Leaves, Enters, WakeDone
  <2> QED
    BY <1>3, <2>2, <2>5, <2>6, <2>7 DEF Inv
<1> QED
  BY <1>5, <1>6, <1>7 DEF WakeDone

\* One round of WakeupAllWaitingThreads.
LEMMA WakeNextKeeps ==
    ASSUME Inv, WakeNext PROVE Inv'
<1>0. k \in KernelState /\ k.pc = "wake" /\ k.object \in WaitObjects /\ k.object # None
  BY DEF WakeNext, Inv, TypeOK, ControlOK, KernelState
<1>1. CASE Abort("Inconsistent thread statuses in waiting_threads")
  <2>1. "Inconsistent thread statuses in waiting_threads" \in Asserts
    BY DEF Asserts
  <2> QED
    BY <1>1, <2>1, AbortKeeps
<1>2. ASSUME WaitersConsistent(k.object), NEW i \in 1 .. Len(waiting_threads[k.object]), WakeOne(i)
      PROVE  Inv'
  <2> DEFINE t == waiting_threads[k.object][i]
             rest == IF status[t] = "WaitSynchAll" THEN wait_objects[t] ELSE <<k.object>>
  <2>1. waiting_threads[k.object] \in Seq(Threads)
    BY <1>0 DEF Inv, TypeOK
  <2>2. t \in Threads /\ IsIn(t, waiting_threads[k.object])
    BY <2>1 DEF IsIn
  <2>3. status[t] \in WaitSynch /\ t # None
    BY <1>2, <2>2, KernelConstants DEF WaitersConsistent, Waiters, WaitObjects
  <2>4. <<k.object>> \in Seq(WaitObjects)
    BY <1>0
  <2>5. rest \in Seq(WaitObjects) /\ "acquire" \in Loops
    BY <2>2, <2>4, LoopNames DEF Inv, TypeOK
  <2>6. k' = [k EXCEPT !.pc = "acquire", !.thread = t, !.rest = rest]
    BY <1>2 DEF WakeOne
  <2> HIDE DEF t, rest
  <2>7. k' \in KernelState
    BY <1>0, <2>2, <2>5, <2>6 DEF KernelState
  <2>8. /\ k'.pc = "acquire" /\ k'.thread = t /\ k'.object = k.object /\ k'.stop = k.stop
        /\ k'.mutexes = k.mutexes /\ k'.kill = k.kill
    BY <1>0, <2>6 DEF KernelState
  <2>9. TypeOK'
    BY <1>2, <2>7 DEF WakeOne, Inv, TypeOK
  <2>10. ControlOK'
    BY <1>0, <2>3, <2>8 DEF Inv, ControlOK, StopsLate
  <2>11. CoresOK' /\ RunningOK' /\ SubjectOK' /\ TimersOK' /\ ListsUnique'
    BY <1>0, <1>2, <2>3, <2>8
       DEF WakeOne, Inv, CoresOK, RunningOK, SubjectOK, TimersOK, ListsUnique, Unique
  <2>12. SleepersOK' /\ MutexesOK'
    BY <1>0, <1>2, <2>8 DEF WakeOne, Inv, SleepersOK, StopsEarly, StopsLate, MutexesOK
  <2>13. ListsOK'
    BY <1>0, <1>2, <2>8 DEF WakeOne, Inv, ListsOK, Leaves, Enters
  <2> QED
    BY <2>9, <2>10, <2>11, <2>12, <2>13 DEF Inv
<1> QED
  BY <1>0, <1>1, <1>2, WakeDoneKeeps DEF WakeNext

\* Thread::ResumeFromWait of a thread that is on no waiting list.
LEMMA ResumeFacts ==
    ASSUME Inv, NEW t \in Threads, ResumeFromWait(t), UNCHANGED current_thread
    PROVE  /\ status' \in [Threads -> Statuses] /\ halted' \in [Cores -> BOOLEAN]
           /\ wakeup_callback' \in [Threads -> {"null", "sync", "arbiter"}]
           /\ CoresOK' /\ RunningOK'
           /\ \A u \in Threads : u # t \/ status[u] = "Dead" => status'[u] = status[u]
           /\ status'[t] \in {"Ready", "Running", "Dead"}
<1>0. /\ status \in [Threads -> Statuses] /\ halted \in [Cores -> BOOLEAN] /\ k.core \in Cores
      /\ wakeup_callback \in [Threads -> {"null", "sync", "arbiter"}]
      /\ \A c \in Cores : current_thread[c] # None => current_thread[c] \in Threads
  BY DEF Inv, TypeOK, KernelState
<1>1. CASE status[t] \in {"Ready", "Running", "Dead"}
  <2>1. UNCHANGED <<status, wakeup_callback, halted>>
    BY <1>1 DEF ResumeFromWait
  <2> QED
    BY <1>0, <1>1, <2>1 DEF Inv, CoresOK, RunningOK
<1>2. CASE status[t] \notin {"Ready", "Running", "Dead"}
  <2>1. /\ status' = [status EXCEPT ![t] = "Ready"]
        /\ wakeup_callback' = [wakeup_callback EXCEPT ![t] = "null"]
        /\ halted' = [halted EXCEPT ![k.core] = TRUE]
    BY <1>2 DEF ResumeFromWait, PrepareReschedule
  <2>2. "Ready" \in Statuses
    BY DEF Statuses
  <2>3. /\ \A u \in Threads : status'[u] = IF u = t THEN "Ready" ELSE status[u]
        /\ \A c \in Cores : ~halted'[c] => ~halted[c]
    BY <1>0, <2>1
  <2>4. /\ status' \in [Threads -> Statuses] /\ halted' \in [Cores -> BOOLEAN]
        /\ wakeup_callback' \in [Threads -> {"null", "sync", "arbiter"}]
    BY <1>0, <2>1, <2>2
  <2>5. CoresOK'
    BY <1>0, <1>2, <2>3 DEF Inv, CoresOK
  <2>6. RunningOK'
    BY <2>3 DEF Inv, RunningOK
  <2> QED
    BY <1>2, <2>3, <2>4, <2>5, <2>6
<1> QED
  BY <1>1, <1>2

\* One round of the loop over RemoveWaitingThread, and the resumption.
LEMMA RemoveNextKeeps ==
    ASSUME Inv, RemoveNext PROVE Inv'
<1>0. /\ k \in KernelState /\ k.rest \in Seq(WaitObjects) /\ k.thread \in Threads
      /\ k.pc = "remove" /\ k.thread # None
      /\ k.stop # None => k.object # None /\ k.thread # k.stop
  BY DEF RemoveNext, Inv, TypeOK, ControlOK, SubjectOK, KernelState, WaitSynch
<1>1. CASE /\ k.rest # << >>
           /\ RemoveWaitingThread(Head(k.rest), k.thread)
           /\ k' = [k EXCEPT !.rest = Tail(@)]
           /\ UNCHANGED <<status, nominal_priority, mutexVars, signalVars, wait_objects,
                          wakeup_callback, wake_events, arbiterVars, processVars,
                          coreVars, failed>>
  <2>1. /\ Head(k.rest) \in WaitObjects /\ Tail(k.rest) \in Seq(WaitObjects)
        /\ \A o : IsIn(o, k.rest) <=> o = Head(k.rest) \/ IsIn(o, Tail(k.rest))
    BY <1>0, <1>1, IsInTail
  <2>2. RemoveWaitingThread(Head(k.rest), k.thread)
    BY <1>1
  <2>3. /\ waiting_threads' \in [WaitObjects -> Seq(Threads)] /\ ListsUnique'
        /\ \A u \in Threads, p \in WaitObjects :
             IsIn(u, waiting_threads[p])' <=>
                IsIn(u, waiting_threads[p]) /\ ~(u = k.thread /\ p = Head(k.rest))
        /\ current_priority' \in [Threads -> Priorities]
        /\ mutex_priority' \in [Mutexes -> Priorities]
    BY <1>0, <2>1, <2>2, WaitingListsStep
  <2>4. k' \in KernelState
    BY <1>0, <1>1, <2>1 DEF KernelState
  <2>5. /\ k'.rest = Tail(k.rest) /\ k'.pc = "remove" /\ k'.stop = k.stop /\ k'.object = k.object
        /\ k'.thread = k.thread /\ k'.kill = k.kill /\ k'.mutexes = k.mutexes
    BY <1>0, <1>1 DEF KernelState
  <2>6. TypeOK'
    BY <1>1, <2>3, <2>4 DEF Inv, TypeOK
  <2>7. ControlOK'
    BY <1>0, <2>5 DEF Inv, ControlOK, StopsLate
  <2>8. CoresOK' /\ RunningOK' /\ SubjectOK' /\ TimersOK'
    BY <1>0, <1>1, <2>5 DEF Inv, CoresOK, RunningOK, SubjectOK, TimersOK
  <2>9. SleepersOK' /\ MutexesOK'
    BY <1>0, <1>1, <2>5 DEF Inv, SleepersOK, StopsEarly, StopsLate, MutexesOK
  <2>10. ListsOK'
    <3>1. ASSUME NEW t \in Threads, NEW o \in WaitObjects
          PROVE  /\ IsIn(t, waiting_threads[o])' => IsIn(o, wait_objects[t])
                 /\ IsIn(t, waiting_threads[o])' /\ t = k.thread => IsIn(o, Tail(k.rest))
                 /\ IsIn(o, wait_objects[t]) /\ t # k.thread => IsIn(t, waiting_threads[o])'
      BY <1>0, <2>1, <2>3 DEF Inv, ListsOK, Leaves, Enters
    <3> QED
      BY <1>0, <1>1, <2>5, <3>1 DEF ListsOK, Leaves, Enters
  <2> QED
    BY <2>3, <2>6, <2>7, <2>8, <2>9, <2>10 DEF Inv
<1>2. CASE Abort("wakeup_callback == nullptr")
  <2>1. "wakeup_callback == nullptr" \in Asserts
    BY DEF Asserts
  <2> QED
    BY <1>2, <2>1, AbortKeeps
<1>3. CASE /\ k.rest = << >>
           /\ wait_objects' = [wait_objects EXCEPT ![k.thread] = << >>]
           /\ ResumeFromWait(k.thread)
           /\ IF k.object = None THEN ReturnToUser
              ELSE k' = [k EXCEPT !.pc = "wake", !.thread = None]
           /\ UNCHANGED <<priorityVars, mutexVars, signalVars, waiting_threads, wake_events,
                          arbiterVars, processVars, current_thread, failed>>
  <2>1. /\ status' \in [Threads -> Statuses] /\ halted' \in [Cores -> BOOLEAN]
        /\ wakeup_callback' \in [Threads -> {"null", "sync", "arbiter"}]
        /\ CoresOK' /\ RunningOK'
        /\ \A u \in Threads : u # k.thread \/ status[u] = "Dead" => status'[u] = status[u]
    BY <1>0, <1>3, ResumeFacts
  <2>2. /\ wait_objects' \in [Threads -> Seq(WaitObjects)]
        /\ \A u \in Threads : wait_objects'[u] = IF u = k.thread THEN << >> ELSE wait_objects[u]
    BY <1>0, <1>3 DEF Inv, TypeOK
  <2>3. k' \in KernelState => TypeOK' /\ ListsUnique'
    BY <1>3, <2>1, <2>2 DEF Inv, TypeOK, ListsUnique, Unique
  <2>4. \A o \in WaitObjects : ~IsIn(k.thread, waiting_threads[o])
    BY <1>0, <1>3, IsInEmpty DEF Inv, ListsOK, Leaves
  <2>5. \A o : ~IsIn(o, << >>)
    BY IsInEmpty
  <2>6. k'.pc \in {"user", "wake"} => ListsOK'
    BY <1>0, <1>3, <2>2, <2>4, <2>5 DEF Inv, ListsOK, Leaves, Enters
  <2>7. CASE k.object = None
    <3>0. k.stop = None
      BY <1>0, <2>7 DEF Inv, ControlOK
    <3>1. /\ k' \in KernelState /\ ControlOK' /\ SubjectOK'
          /\ k'.pc = "user" /\ k'.stop = None /\ \A tm \in Timers : k'.object # tm
      BY <1>3, <2>7, ReturnFacts
    <3>2. MutexesOK' /\ TimersOK'
      BY <1>3, <3>0, <3>1 DEF Inv, StopsLate, MutexesOK, TimersOK
    <3>3. SleepersOK'
      BY <2>1, <2>2, <3>0, <3>1 DEF Inv, SleepersOK, StopsEarly
    <3> QED
      BY <2>1, <2>3, <2>6, <3>1, <3>2, <3>3 DEF Inv
  <2>8. CASE k.object # None
    <3>1. k' = [k EXCEPT !.pc = "wake", !.thread = None] /\ "wake" \in Loops
      BY <1>3, <2>8, LoopNames
    <3>2. k' \in KernelState
      BY <1>0, <3>1 DEF KernelState
    <3>3. /\ k'.pc = "wake" /\ k'.stop = k.stop /\ k'.object = k.object
          /\ k'.thread = None /\ k'.kill = k.kill /\ k'.mutexes = k.mutexes
      BY <1>0, <3>1 DEF KernelState
    <3>4. ControlOK'
      BY <1>0, <2>8, <3>3 DEF Inv, ControlOK, StopsLate
    <3>5. SubjectOK'
      <4>1. k.stop # None => k.stop \in Threads
        BY <1>0 DEF KernelState
      <4> QED
        BY <2>1, <3>3, <4>1 DEF Inv, SubjectOK
    <3>6. MutexesOK' /\ TimersOK'
      BY <1>0, <1>3, <3>3 DEF Inv, StopsLate, MutexesOK, TimersOK
    <3>7. SleepersOK'
      BY <1>0, <2>1, <2>2, <3>3 DEF Inv, SleepersOK, StopsEarly
    <3> QED
      BY <2>1, <2>3, <2>6, <3>2, <3>3, <3>4, <3>5, <3>6, <3>7 DEF Inv
  <2> QED
    BY <2>7, <2>8
<1> QED
  BY <1>1, <1>2, <1>3 DEF RemoveNext

\* Mutex::Release frees the mutex with its last unlock.
LEMMA ReleaseMutexKeeps ==
    ASSUME Inv, NEW c \in Cores, NEW t \in Threads, NEW m \in Mutexes, ReleaseMutex(c, t, m)
    PROVE  Inv'
<1>0. /\ Idle /\ Executes(c, t) /\ k.pc = "user" /\ k.stop = None /\ k.thread = None
      /\ k.object = None /\ k.kill = {} /\ k.mutexes = {} /\ t # None
  BY CallerFacts DEF ReleaseMutex, Executes
<1>1. /\ lock_count \in [Mutexes -> Nat] /\ holding_thread \in [Mutexes -> Threads \cup {None}]
      /\ held_mutexes \in [Threads -> SUBSET Mutexes]
      /\ holding_thread[m] = t /\ lock_count[m] > 0
  BY DEF Inv, TypeOK, ReleaseMutex, MayRelease
<1>2. lock_count' = [lock_count EXCEPT ![m] = @ - 1] /\ lock_count' \in [Mutexes -> Nat]
  BY <1>1 DEF ReleaseMutex
<1>3. CASE lock_count[m] = 1
  <2>1. /\ held_mutexes' = [held_mutexes EXCEPT ![t] = @ \ {m}]
        /\ UpdatePriority(t, held_mutexes'[t], mutex_priority)
        /\ holding_thread' = [holding_thread EXCEPT ![m] = None]
        /\ Wakes(c, m)
        /\ halted' = [halted EXCEPT ![c] = TRUE]
    BY <1>3 DEF ReleaseMutex, WithHolder, Halt
  <2>2. m \in WaitObjects /\ m # None /\ \A tm \in Timers : m # tm
    BY KernelConstants DEF WaitObjects, Signals
  <2>3. /\ k' \in KernelState
        /\ k'.pc = "wake" /\ k'.thread = None /\ k'.object = m
        /\ k'.stop = None /\ k'.mutexes = {} /\ k'.kill = {}
    BY <2>1, <2>2, WakesControl
  <2>4. /\ held_mutexes' \in [Threads -> SUBSET Mutexes]
        /\ holding_thread' \in [Mutexes -> Threads \cup {None}]
    BY <1>1, <2>1
  <2>5. halted' \in [Cores -> BOOLEAN] /\ \A d \in Cores : ~halted'[d] => ~halted[d]
    BY <2>1 DEF Inv, TypeOK
  <2>6. current_priority' \in [Threads -> Priorities]
    BY <2>1, UpdatePriorityType DEF Inv, TypeOK
  <2>7. TypeOK'
    BY <1>2, <2>3, <2>4, <2>5, <2>6 DEF ReleaseMutex, Inv, TypeOK
  <2>8. MutexesOK'
    <3>1. ~StopsLate'
      BY <2>3 DEF StopsLate
    <3>2. /\ \A n \in Mutexes : lock_count'[n] = IF n = m THEN 0 ELSE lock_count[n]
          /\ \A n \in Mutexes : holding_thread'[n] = IF n = m THEN None ELSE holding_thread[n]
          /\ \A u \in Threads, n \in Mutexes :
               n \in held_mutexes'[u] <=> n \in held_mutexes[u] /\ ~(u = t /\ n = m)
      BY <1>1, <1>2, <1>3, <2>1
    <3>3. None \notin Threads
      BY KernelConstants DEF WaitObjects
    <3>4. \A n \in Mutexes, u \in Threads : n \in held_mutexes[u] => holding_thread[n] = u
      BY <1>0 DEF Inv, MutexesOK, StopsLate
    <3> QED
      BY <1>1, <3>1, <3>2, <3>3, <3>4 DEF Inv, MutexesOK
  <2>9. TimersOK'
    BY <2>2, <2>3 DEF Inv, TimersOK, ReleaseMutex
  <2>10. /\ UNCHANGED <<wait_objects, waiting_threads, current_thread>>
         /\ \A u \in Threads : status'[u] = status[u]
    BY DEF ReleaseMutex
  <2> QED
    BY <1>0, <2>2, <2>3, <2>5, <2>7, <2>8, <2>9, <2>10, CallKeeps DEF Inv
<1>4. CASE lock_count[m] # 1
  <2>1. UNCHANGED <<held_mutexes, current_priority, holding_thread, k, halted>>
    BY <1>4 DEF ReleaseMutex
  <2>2. TypeOK'
    BY <1>2, <2>1 DEF ReleaseMutex, Inv, TypeOK
  <2>3. \A n \in Mutexes : lock_count'[n] > 0 <=> lock_count[n] > 0
    BY <1>1, <1>2, <1>4
  <2>4. MutexesOK' /\ TimersOK'
    BY <2>1, <2>3 DEF Inv, MutexesOK, TimersOK, StopsLate, ReleaseMutex
  <2>5. /\ UNCHANGED <<wait_objects, waiting_threads, current_thread>>
        /\ \A u \in Threads : status'[u] = status[u]
    BY DEF ReleaseMutex
  <2> QED
    BY <1>0, <2>1, <2>2, <2>4, <2>5, CallKeeps DEF Inv
<1> QED
  BY <1>3, <1>4

\* The beginning of Thread::Stop.
LEMMA StopKeeps ==
    ASSUME Inv, NEW t \in Threads, k.pc \in {"user", "terminate"}, NEW kept \in KernelState,
           kept.thread = None, kept.mutexes = {}, Stop(t, kept)
    PROVE  Inv'
<1>0. k.stop = None /\ k.object = None /\ k.thread = None /\ k.mutexes = {}
  BY DEF Inv, ControlOK, StopsLate
<1>1. t \in WaitObjects /\ t # None /\ "wake" \in Loops /\ \A tm \in Timers : t # tm
  BY LoopNames, KernelConstants DEF WaitObjects, Signals
<1>2. k' = [kept EXCEPT !.pc = "wake", !.object = t, !.stop = t]
  BY DEF Stop
<1>3. k' \in KernelState
  BY <1>1, <1>2 DEF KernelState
<1>4. /\ k'.pc = "wake" /\ k'.thread = None /\ k'.object = t /\ k'.stop = t /\ k'.mutexes = {}
  BY <1>2 DEF KernelState
<1>5. status' = [status EXCEPT ![t] = "Dead"] /\ "Dead" \in Statuses
  BY DEF Stop, Statuses
<1>6. status' \in [Threads -> Statuses] /\ wake_events' \in SUBSET Threads
  BY <1>5 DEF Stop, Inv, TypeOK
<1>7. TypeOK'
  BY <1>3, <1>6 DEF Stop, Inv, TypeOK
<1>8. \A u \in Threads : status'[u] = IF u = t THEN "Dead" ELSE status[u]
  BY <1>5 DEF Inv, TypeOK
<1>9. StopsEarly' /\ ~StopsLate' /\ ~StopsLate /\ ~StopsEarly
  BY <1>0, <1>1, <1>4 DEF StopsEarly, StopsLate
<1>10. ControlOK' /\ SubjectOK'
  BY <1>1, <1>4, <1>8, <1>9 DEF ControlOK, SubjectOK
<1>11. CoresOK'
  <2>1. \A d \in Cores : current_thread[d] # None => current_thread[d] \in Threads
    BY DEF Inv, TypeOK
  <2> QED
    BY <2>1, <1>8 DEF Inv, CoresOK, Stop
<1>12. RunningOK' /\ ListsUnique'
  BY <1>8 DEF Inv, RunningOK, ListsUnique, Unique, Stop
<1>13. SleepersOK'
  BY <1>4, <1>8, <1>9 DEF Inv, SleepersOK, Stop
<1>14. ListsOK'
  BY <1>0, <1>4 DEF Inv, ListsOK, Leaves, Enters, Stop
<1>15. MutexesOK' /\ TimersOK'
  BY <1>1, <1>4, <1>9 DEF Inv, MutexesOK, TimersOK, Stop
<1> QED
  BY <1>7, <1>10, <1>11, <1>12, <1>13, <1>14, <1>15 DEF Inv

\* ExitThread stops the caller.
LEMMA ExitThreadKeeps ==
    ASSUME Inv, NEW c \in Cores, NEW t \in Threads, ExitThread(c, t)
    PROVE  Inv'
<1>1. k.pc = "user" /\ Stop(t, UserMode(c))
  BY DEF ExitThread, Executes, Idle
<1>2. UserMode(c) \in KernelState /\ UserMode(c).thread = None /\ UserMode(c).mutexes = {}
  BY UserModeType DEF UserMode
<1> QED
  BY <1>1, <1>2, StopKeeps

\* One round of TerminateProcessThreads.
LEMMA TerminateNextKeeps ==
    ASSUME Inv, TerminateNext PROVE Inv'
<1>0. /\ k \in KernelState /\ k.pc = "terminate" /\ k.stop = None /\ k.object = None
      /\ k.thread = None /\ k.mutexes = {} /\ k.kill \in SUBSET Threads
  BY DEF TerminateNext, Inv, TypeOK, ControlOK, KernelState, StopsLate
<1>1. CASE /\ ReturnToUser
           /\ UNCHANGED <<status, priorityVars, mutexVars, signalVars, waitVars, arbiterVars,
                          processVars, coreVars, failed>>
  <2>1. /\ k' \in KernelState /\ ControlOK' /\ SubjectOK'
        /\ k'.pc = "user" /\ k'.stop = None /\ \A tm \in Timers : k'.object # tm
    BY <1>1, ReturnFacts
  <2>2. TypeOK'
    BY <1>1, <2>1 DEF Inv, TypeOK
  <2>3. CoresOK' /\ RunningOK' /\ TimersOK' /\ ListsUnique'
    BY <1>1, <2>1 DEF Inv, CoresOK, RunningOK, TimersOK, ListsUnique, Unique
  <2>4. SleepersOK' /\ MutexesOK'
    BY <1>1, <1>0, <2>1 DEF Inv, SleepersOK, StopsEarly, StopsLate, MutexesOK
  <2>5. ListsOK'
    BY <1>0, <1>1, <2>1 DEF Inv, ListsOK, Leaves, Enters
  <2> QED
    BY <2>1, <2>2, <2>3, <2>4, <2>5 DEF Inv
<1>2. ASSUME NEW u \in k.kill, Stop(u, [k EXCEPT !.kill = @ \ {u}]) PROVE Inv'
  <2> DEFINE kept == [k EXCEPT !.kill = @ \ {u}]
  <2>1. kept \in KernelState
    BY <1>0 DEF KernelState
  <2>2. kept.thread = None /\ kept.mutexes = {}
    BY <1>0 DEF KernelState
  <2>3. Stop(u, kept) /\ u \in Threads
    BY <1>0, <1>2
  <2> HIDE DEF kept
  <2> QED
    BY <1>0, <2>1, <2>2, <2>3, StopKeeps
<1> QED
  BY <1>1, <1>2 DEF TerminateNext

\* Thread::Stop takes its thread off the waiting lists.
LEMMA DetachNextKeeps ==
    ASSUME Inv, DetachNext PROVE Inv'
<1>0. /\ k \in KernelState /\ k.rest \in Seq(WaitObjects) /\ k.stop \in Threads
      /\ k.pc = "detach" /\ k.object = None /\ k.thread = None /\ k.stop # None
      /\ k.mutexes = {} /\ status[k.stop] = "Dead" /\ StopsEarly /\ ~StopsLate
  BY DEF DetachNext, Inv, TypeOK, ControlOK, SubjectOK, KernelState, StopsLate, StopsEarly
<1>1. CASE /\ k.rest # << >>
           /\ RemoveWaitingThread(Head(k.rest), k.stop)
           /\ k' = [k EXCEPT !.rest = Tail(@)]
           /\ UNCHANGED wait_objects
  <2>1. /\ Head(k.rest) \in WaitObjects /\ Tail(k.rest) \in Seq(WaitObjects)
        /\ \A o : IsIn(o, k.rest) <=> o = Head(k.rest) \/ IsIn(o, Tail(k.rest))
    BY <1>0, <1>1, IsInTail
  <2>2. RemoveWaitingThread(Head(k.rest), k.stop)
    BY <1>1
  <2>3. /\ waiting_threads' \in [WaitObjects -> Seq(Threads)] /\ ListsUnique'
        /\ \A u \in Threads, p \in WaitObjects :
             IsIn(u, waiting_threads[p])' <=>
                IsIn(u, waiting_threads[p]) /\ ~(u = k.stop /\ p = Head(k.rest))
        /\ current_priority' \in [Threads -> Priorities]
        /\ mutex_priority' \in [Mutexes -> Priorities]
    BY <1>0, <2>1, <2>2, WaitingListsStep
  <2>4. k' \in KernelState
    BY <1>0, <1>1, <2>1 DEF KernelState
  <2>5. /\ k'.rest = Tail(k.rest) /\ k'.pc = "detach" /\ k'.stop = k.stop /\ k'.object = None
        /\ k'.thread = None /\ k'.kill = k.kill /\ k'.mutexes = k.mutexes
    BY <1>0, <1>1 DEF KernelState
  <2>6. TypeOK'
    BY <1>1, <2>3, <2>4 DEF DetachNext, Inv, TypeOK
  <2>7. ControlOK'
    BY <1>0, <2>5 DEF Inv, ControlOK, StopsLate
  <2>8. CoresOK' /\ RunningOK' /\ SubjectOK' /\ TimersOK'
    BY <1>0, <2>5 DEF DetachNext, Inv, CoresOK, RunningOK, SubjectOK, TimersOK
  <2>9. SleepersOK' /\ MutexesOK'
    BY <1>0, <1>1, <2>5 DEF DetachNext, Inv, SleepersOK, StopsEarly, StopsLate, MutexesOK
  <2>10. ListsOK'
    <3>1. ASSUME NEW t \in Threads, NEW o \in WaitObjects
          PROVE  /\ IsIn(t, waiting_threads[o])' => IsIn(o, wait_objects[t])
                 /\ IsIn(t, waiting_threads[o])' /\ t = k.stop => IsIn(o, Tail(k.rest))
                 /\ IsIn(o, wait_objects[t]) /\ t # k.stop => IsIn(t, waiting_threads[o])'
      BY <1>0, <2>1, <2>3 DEF Inv, ListsOK, Leaves, Enters
    <3> QED
      BY <1>0, <1>1, <2>5, <3>1 DEF ListsOK, Leaves, Enters
  <2> QED
    BY <2>3, <2>6, <2>7, <2>8, <2>9, <2>10 DEF Inv
<1>2. CASE /\ k.rest = << >>
           /\ wait_objects' = [wait_objects EXCEPT ![k.stop] = << >>]
           /\ k' = [k EXCEPT !.pc = "release", !.mutexes = held_mutexes[k.stop]]
           /\ UNCHANGED <<waiting_threads, mutex_priority, current_priority>>
  <2>1. /\ wait_objects' \in [Threads -> Seq(WaitObjects)]
        /\ \A u \in Threads : wait_objects'[u] = IF u = k.stop THEN << >> ELSE wait_objects[u]
    BY <1>0, <1>2 DEF Inv, TypeOK
  <2>2. held_mutexes[k.stop] \in SUBSET Mutexes /\ "release" \in Loops
    BY <1>0, LoopNames DEF Inv, TypeOK
  <2>3. k' \in KernelState
    BY <1>0, <1>2, <2>2 DEF KernelState
  <2>4. /\ k'.pc = "release" /\ k'.stop = k.stop /\ k'.object = None
        /\ k'.thread = None /\ k'.kill = k.kill /\ k'.mutexes = held_mutexes[k.stop]
    BY <1>0, <1>2 DEF KernelState
  <2>5. TypeOK'
    BY <1>2, <2>1, <2>3 DEF DetachNext, Inv, TypeOK
  <2>6. StopsLate' /\ ~StopsEarly'
    BY <1>0, <2>4 DEF StopsLate, StopsEarly
  <2>7. ControlOK'
    BY <1>0, <2>4, <2>6 DEF Inv, ControlOK
  <2>8. CoresOK' /\ RunningOK' /\ SubjectOK' /\ TimersOK' /\ ListsUnique'
    BY <1>0, <1>2, <2>4
       DEF DetachNext, Inv, CoresOK, RunningOK, SubjectOK, TimersOK, ListsUnique, Unique
  <2>9. SleepersOK'
    BY <1>0, <2>1, <2>4 DEF DetachNext, Inv, SleepersOK
  <2>10. MutexesOK'
    BY <1>0, <2>4, <2>6 DEF DetachNext, Inv, MutexesOK
  <2>11. ListsOK'
    <3>1. \A o \in WaitObjects : ~IsIn(k.stop, waiting_threads[o])
      BY <1>0, <1>2, IsInEmpty DEF Inv, ListsOK, Leaves
    <3>2. \A o : ~IsIn(o, << >>)
      BY IsInEmpty
    <3> QED
      BY <1>0, <1>2, <2>1, <2>4, <3>1, <3>2 DEF Inv, ListsOK, Leaves, Enters
  <2> QED
    BY <2>5, <2>7, <2>8, <2>9, <2>10, <2>11 DEF Inv
<1> QED
  BY <1>1, <1>2 DEF DetachNext

\* Thread::Stop gives up its thread's mutexes and ends.
LEMMA ReleaseNextKeeps ==
    ASSUME Inv, ReleaseNext PROVE Inv'
<1>0. /\ k \in KernelState /\ k.stop \in Threads /\ k.mutexes \in SUBSET Mutexes
      /\ k.pc = "release" /\ k.object = None /\ k.thread = None /\ k.stop # None
      /\ status[k.stop] = "Dead" /\ StopsLate /\ ~StopsEarly
  BY DEF ReleaseNext, Inv, TypeOK, ControlOK, SubjectOK, KernelState, StopsLate, StopsEarly
<1>1. /\ lock_count \in [Mutexes -> Nat] /\ holding_thread \in [Mutexes -> Threads \cup {None}]
      /\ held_mutexes \in [Threads -> SUBSET Mutexes] /\ None \notin Threads
  BY KernelConstants DEF Inv, TypeOK, WaitObjects
<1>9. /\ UNCHANGED <<status, priorityVars, signalVars, waitVars, arbiterVars, exited,
                     current_thread, failed>>
      /\ None \notin Timers
  BY KernelConstants DEF ReleaseNext, WaitObjects
<1>2. ASSUME NEW m \in k.mutexes,
             lock_count' = [lock_count EXCEPT ![m] = 0],
             holding_thread' = WithHolder(m, None),
             k' = [k EXCEPT !.pc = "wake", !.object = m, !.mutexes = @ \ {m}],
             UNCHANGED <<held_mutexes, thread_list, halted>>
      PROVE  Inv'
  <2>1. m \in Mutexes /\ m \in WaitObjects /\ m # None /\ m # k.stop /\ \A tm \in Timers : m # tm
    BY <1>0, <1>9, KernelConstants DEF WaitObjects, Signals
  <2>2. "wake" \in Loops
    BY LoopNames
  <2>3. k' \in KernelState
    BY <1>0, <1>9, <1>2, <2>1, <2>2 DEF KernelState
  <2>4. /\ k'.pc = "wake" /\ k'.object = m /\ k'.stop = k.stop /\ k'.thread = None
        /\ k'.mutexes = k.mutexes \ {m} /\ k'.kill = k.kill
    BY <1>0, <1>9, <1>2 DEF KernelState
  <2>5. StopsLate' /\ ~StopsEarly'
    BY <1>0, <1>9, <2>1, <2>4 DEF StopsLate, StopsEarly
  <2>6. /\ lock_count' \in [Mutexes -> Nat]
        /\ holding_thread' \in [Mutexes -> Threads \cup {None}]
        /\ \A n \in Mutexes : lock_count'[n] = IF n = m THEN 0 ELSE lock_count[n]
        /\ \A n \in Mutexes : holding_thread'[n] = IF n = m THEN None ELSE holding_thread[n]
    BY <1>1, <1>2, <2>1 DEF WithHolder
  <2>7. TypeOK'
    BY <1>2, <1>9, <2>3, <2>6 DEF Inv, TypeOK
  <2>8. ControlOK' /\ SubjectOK'
    BY <1>0, <1>9, <2>1, <2>4, <2>5 DEF ControlOK, SubjectOK
  <2>9. CoresOK' /\ RunningOK' /\ TimersOK' /\ ListsUnique'
    BY <1>2, <1>9, <2>1, <2>4
       DEF Inv, CoresOK, RunningOK, TimersOK, ListsUnique, Unique
  <2>10. SleepersOK'
    BY <1>0, <1>9, <2>5 DEF Inv, SleepersOK
  <2>11. ListsOK'
    BY <1>0, <1>9, <2>4 DEF Inv, ListsOK, Leaves, Enters
  <2>12. MutexesOK'
    <3>1. holding_thread[m] = k.stop
      BY <1>0, <1>9, <2>1 DEF Inv, MutexesOK
    <3>2. ASSUME NEW n \in Mutexes
          PROVE  /\ lock_count'[n] > 0 <=> holding_thread'[n] # None
                 /\ \A t \in Threads :
                      /\ holding_thread'[n] = t => n \in held_mutexes[t]
                      /\ n \in held_mutexes[t] => holding_thread'[n] = t \/ t = k.stop
                 /\ holding_thread'[n] = k.stop <=> n \in k.mutexes \ {m}
      <4>1. CASE n = m
        BY <4>1, <1>0, <1>1, <2>6, <3>1 DEF Inv, MutexesOK
      <4>2. CASE n # m
        BY <4>2, <1>0, <2>6 DEF Inv, MutexesOK
      <4> QED
        BY <4>1, <4>2
    <3> QED
      BY <1>2, <2>4, <2>5, <3>2 DEF MutexesOK
  <2> QED
    BY <2>7, <2>8, <2>9, <2>10, <2>11, <2>12 DEF Inv
<1>3. CASE /\ k.mutexes = {}
           /\ held_mutexes' = [held_mutexes EXCEPT ![k.stop] = {}]
           /\ thread_list' = thread_list \ {k.stop}
           /\ IF \E c \in Cores : current_thread[c] = k.stop
              THEN PrepareReschedule ELSE UNCHANGED halted
           /\ k' = [k EXCEPT !.pc = IF k.kill = {} THEN "user" ELSE "terminate",
                             !.stop = None]
           /\ UNCHANGED <<lock_count, holding_thread>>
  <2> DEFINE pc == IF k.kill = {} THEN "user" ELSE "terminate"
  <2>1. pc \in Loops /\ k' = [k EXCEPT !.pc = pc, !.stop = None]
    BY <1>3, LoopNames
  <2>2. pc \in {"user", "terminate"} /\ (k.kill # {} => pc = "terminate")
    OBVIOUS
  <2> HIDE DEF pc
  <2>3. k' \in KernelState
    BY <1>0, <1>9, <2>1 DEF KernelState
  <2>4. /\ k'.pc \in {"user", "terminate"} /\ k'.object = None /\ k'.stop = None
        /\ k'.thread = None /\ k'.mutexes = {} /\ (k'.kill # {} => k'.pc = "terminate")
    BY <1>0, <1>9, <1>3, <2>1, <2>2 DEF KernelState
  <2>5. /\ held_mutexes' \in [Threads -> SUBSET Mutexes]
        /\ \A t \in Threads : held_mutexes'[t] = IF t = k.stop THEN {} ELSE held_mutexes[t]
    BY <1>0, <1>9, <1>1, <1>3
  <2>6. halted' \in [Cores -> BOOLEAN] /\ \A c \in Cores : ~halted'[c] => ~halted[c]
    BY <1>3 DEF PrepareReschedule, Inv, TypeOK
  <2>7. thread_list' \in SUBSET Threads
    BY <1>3 DEF Inv, TypeOK
  <2>8. TypeOK'
    BY <1>3, <1>9, <2>3, <2>5, <2>6, <2>7 DEF Inv, TypeOK
  <2>9. ControlOK' /\ SubjectOK'
    BY <2>4 DEF ControlOK, SubjectOK
  <2>10. CoresOK' /\ RunningOK' /\ TimersOK' /\ ListsUnique'
    BY <1>0, <1>9, <2>4, <2>6
       DEF Inv, CoresOK, RunningOK, TimersOK, ListsUnique, Unique
  <2>11. SleepersOK'
    BY <1>0, <1>9 DEF Inv, SleepersOK
  <2>12. ListsOK'
    BY <1>0, <1>9, <2>4 DEF Inv, ListsOK, Leaves, Enters
  <2>13. MutexesOK'
    <3>1. ~StopsLate'
      BY <2>4 DEF StopsLate
    <3>2. \A n \in Mutexes : holding_thread[n] # k.stop
      BY <1>0, <1>9, <1>3 DEF Inv, MutexesOK
    <3> QED
      BY <1>3, <1>9, <2>5, <3>1, <3>2 DEF Inv, MutexesOK
  <2> QED
    BY <2>8, <2>9, <2>10, <2>11, <2>12, <2>13 DEF Inv
<1> QED
  BY <1>2, <1>3 DEF ReleaseNext

\* A step of a loop about no thread that moves nobody.
LEMMA QuietStepKeeps ==
    ASSUME Inv, k.pc \in {"priority", "arbitrate"}, TypeOK',
           UNCHANGED <<mutexVars, timer_events, wait_objects, waiting_threads>>,
           CoresOK', RunningOK',
           \A t \in Threads : status'[t] = status[t] \/ wait_objects[t] = << >>,
           \/ ReturnToUser
           \/ /\ k'.pc = k.pc /\ k'.object = None /\ k'.stop = None /\ k'.thread = None
              /\ k'.kill = {} /\ (k'.mutexes # {} => k.pc = "priority")
    PROVE  Inv'
<1>0. k.stop = None /\ k.object = None /\ k.thread = None
  BY DEF Inv, ControlOK
<1>1. /\ k'.pc \in {"user", "priority", "arbitrate"} /\ k'.object = None /\ k'.stop = None
      /\ k'.thread = None /\ k'.kill = {} /\ (k'.mutexes # {} => k'.pc = "priority")
  BY ReturnFacts
<1>2. ControlOK' /\ SubjectOK'
  BY <1>1 DEF ControlOK, SubjectOK
<1>3. TimersOK' /\ ListsUnique'
  BY <1>0, <1>1 DEF Inv, TimersOK, ListsUnique, Unique
<1>4. SleepersOK' /\ MutexesOK'
  BY <1>0, <1>1 DEF Inv, SleepersOK, StopsEarly, StopsLate, MutexesOK
<1>5. ListsOK'
  BY <1>0, <1>1 DEF Inv, ListsOK, Leaves, Enters
<1> QED
  BY <1>2, <1>3, <1>4, <1>5 DEF Inv

\* One round of the loop over the pending mutexes.
LEMMA PriorityNextKeeps ==
    ASSUME Inv, PriorityNext PROVE Inv'
<1>0. /\ k \in KernelState /\ k.pc = "priority" /\ k.stop = None /\ k.object = None
      /\ k.thread = None /\ k.mutexes \in SUBSET Mutexes /\ k.kill = {}
  BY DEF PriorityNext, Inv, TypeOK, ControlOK, KernelState
<1>1. CoresOK' /\ RunningOK'
  BY DEF PriorityNext, Inv, CoresOK, RunningOK
<1>2. CASE ReturnToUser /\ UNCHANGED <<mutex_priority, current_priority>>
  <2>1. TypeOK'
    BY <1>2, ReturnFacts DEF PriorityNext, Inv, TypeOK
  <2> QED
    BY <1>0, <1>1, <1>2, <2>1, QuietStepKeeps DEF PriorityNext
<1>3. ASSUME NEW m \in k.mutexes, MutexUpdatePriority(m, Waiters(m)),
             k' = [k EXCEPT !.mutexes = @ \ {m}]
      PROVE  Inv'
  <2>1. k' \in KernelState
    BY <1>0, <1>3 DEF KernelState
  <2>2. /\ k'.pc = k.pc /\ k'.object = None /\ k'.stop = None /\ k'.thread = None /\ k'.kill = {}
    BY <1>0, <1>3 DEF KernelState
  <2>3. /\ current_priority' \in [Threads -> Priorities]
        /\ mutex_priority' \in [Mutexes -> Priorities]
    BY <1>3, MutexUpdatePriorityType DEF Inv, TypeOK
  <2>4. TypeOK'
    BY <2>1, <2>3 DEF PriorityNext, Inv, TypeOK
  <2> QED
    BY <1>0, <1>1, <2>2, <2>4, QuietStepKeeps DEF PriorityNext
<1> QED
  BY <1>2, <1>3 DEF PriorityNext

\* find and erase yields a list of the same elements.
LEMMA WithoutType ==
    ASSUME NEW S, NEW s \in Seq(S), NEW x PROVE Without(s, x) \in Seq(S)
<1>1. CASE ~IsIn(x, s)
  BY <1>1 DEF Without
<1>2. CASE IsIn(x, s)
  <2> DEFINE f == CHOOSE i \in 1 .. Len(s) :
                     s[i] = x /\ \A j \in 1 .. Len(s) : s[j] = x => i <= j
             w == [j \in 1 .. Len(s) - 1 |-> IF j < f THEN s[j] ELSE s[j + 1]]
  <2>1. Without(s, x) = w
    BY <1>2 DEF Without
  <2>2. Len(s) \in Nat /\ Len(s) - 1 \in Nat
    BY <1>2 DEF IsIn
  <2> HIDE DEF f
  <2>3. \A j \in 1 .. Len(s) - 1 : w[j] \in S
    BY <2>2
  <2> QED
    BY <2>1, <2>2, <2>3
<1> QED
  BY <1>1, <1>2

\* One round of the arbiter's loop.
LEMMA ArbitrateNextKeeps ==
    ASSUME Inv, ArbitrateNext PROVE Inv'
<1>0. /\ k \in KernelState /\ k.pc = "arbitrate" /\ k.stop = None /\ k.object = None
      /\ k.thread = None /\ k.mutexes = {} /\ k.kill = {} /\ k.count \in Int
  BY DEF ArbitrateNext, Inv, TypeOK, ControlOK, KernelState, StopsLate
<1>1. CASE Abort("Inconsistent AddressArbiter state")
  <2>1. "Inconsistent AddressArbiter state" \in Asserts
    BY DEF Asserts
  <2> QED
    BY <1>1, <2>1, AbortKeeps
<1>2. CASE Abort("Thread is waking up while waiting for objects")
  <2>1. "Thread is waking up while waiting for objects" \in Asserts
    BY DEF Asserts
  <2> QED
    BY <1>2, <2>1, AbortKeeps
<1>3. ASSUME NEW i \in 1 .. Len(arbiter), wait_objects[arbiter[i]] = << >>,
             ResumeFromWait(arbiter[i]), arbiter' = Without(arbiter, arbiter[i]),
             k' = [k EXCEPT !.count = @ - 1],
             UNCHANGED <<priorityVars, mutexVars, signalVars, wait_objects, waiting_threads,
                         wake_events, wait_address, memory, processVars, current_thread, failed>>
      PROVE  Inv'
  <2>1. arbiter \in Seq(Threads)
    BY DEF Inv, TypeOK
  <2>2. arbiter[i] \in Threads /\ arbiter' \in Seq(Threads)
    BY <1>3, <2>1, WithoutType
  <2>3. /\ status' \in [Threads -> Statuses] /\ halted' \in [Cores -> BOOLEAN]
        /\ wakeup_callback' \in [Threads -> {"null", "sync", "arbiter"}]
        /\ CoresOK' /\ RunningOK'
        /\ \A u \in Threads : u # arbiter[i] \/ status[u] = "Dead" => status'[u] = status[u]
    BY <1>3, <2>2, ResumeFacts
  <2>4. k' \in KernelState
    BY <1>0, <1>3 DEF KernelState
  <2>5. /\ k'.pc = k.pc /\ k'.object = None /\ k'.stop = None /\ k'.thread = None /\ k'.kill = {}
        /\ k'.mutexes = {}
    BY <1>0, <1>3 DEF KernelState
  <2>6. TypeOK'
    BY <1>3, <2>2, <2>3, <2>4 DEF Inv, TypeOK
  <2>7. \A t \in Threads : status'[t] = status[t] \/ wait_objects[t] = << >>
    BY <1>3, <2>3
  <2> QED
    BY <1>0, <1>3, <2>3, <2>5, <2>6, <2>7, QuietStepKeeps
<1>4. CASE /\ ReturnToUser
           /\ PrepareReschedule
           /\ UNCHANGED <<status, priorityVars, mutexVars, signalVars, waitVars, arbiterVars,
                          processVars, current_thread, failed>>
  <2>1. halted' \in [Cores -> BOOLEAN] /\ \A c \in Cores : ~halted'[c] => ~halted[c]
    BY <1>4 DEF PrepareReschedule, Inv, TypeOK
  <2>2. TypeOK'
    BY <1>4, <2>1, ReturnFacts DEF Inv, TypeOK
  <2>3. CoresOK' /\ RunningOK'
    BY <1>4, <2>1 DEF Inv, CoresOK, RunningOK
  <2> QED
    BY <1>0, <1>4, <2>2, <2>3, QuietStepKeeps
<1> QED
  BY <1>1, <1>2, <1>3, <1>4 DEF ArbitrateNext

\* A timeout starts to take the thread off its waiting lists.
LEMMA ThreadWakeupCallbackKeeps ==
    ASSUME Inv, NEW t \in Threads, ThreadWakeupCallback(t) PROVE Inv'
<1>0. k.pc = "user" /\ k.stop = None /\ k.object = None /\ k.thread = None
  BY DEF Inv, ControlOK, ThreadWakeupCallback, Idle
<1>1. CASE t \notin thread_list
  <2>1. Abort("wakeup_callback_table.at") /\ "wakeup_callback_table.at" \in Asserts
    BY <1>1 DEF ThreadWakeupCallback, Asserts
  <2> QED
    BY <2>1, AbortKeeps
<1>2. CASE t \in thread_list
  <2>1. CoreOf[t] \in Cores /\ t # None /\ None \notin Timers
    BY KernelConstants DEF WaitObjects
  <2>2. UserMode(CoreOf[t]) \in KernelState /\ "remove" \in Loops
    BY <2>1, LoopNames, UserModeType
  <2>3. ObjectsToLeave(t) \in Seq(WaitObjects)
    BY DEF ObjectsToLeave, Inv, TypeOK
  <2>4. k' = [UserMode(CoreOf[t]) EXCEPT
               !.pc = "remove", !.thread = t, !.rest = ObjectsToLeave(t)]
    BY <1>2 DEF ThreadWakeupCallback
  <2>5. k' \in KernelState
    BY <2>2, <2>3, <2>4 DEF KernelState
  <2>6. /\ k'.pc = "remove" /\ k'.thread = t /\ k'.rest = ObjectsToLeave(t) /\ k'.object = None
        /\ k'.stop = None /\ k'.kill = {} /\ k'.mutexes = {}
    BY <2>4 DEF UserMode
  <2>7. arbiter' \in Seq(Threads)
    BY <1>2, WithoutType DEF ThreadWakeupCallback, ArbiterAfterTimeout, Inv, TypeOK
  <2>8. wake_events' \in SUBSET Threads
    BY <1>2 DEF ThreadWakeupCallback, Inv, TypeOK
  <2>9. TypeOK'
    BY <1>2, <2>5, <2>7, <2>8 DEF ThreadWakeupCallback, Inv, TypeOK
  <2>10. ControlOK' /\ SubjectOK'
    BY <2>1, <2>6 DEF ControlOK, SubjectOK, StopsLate
  <2>11. CoresOK' /\ RunningOK' /\ TimersOK' /\ ListsUnique'
    BY <1>2, <2>1, <2>6
       DEF ThreadWakeupCallback, Inv, CoresOK, RunningOK, TimersOK, ListsUnique, Unique
  <2>12. SleepersOK' /\ MutexesOK'
    BY <1>0, <1>2, <2>6
       DEF ThreadWakeupCallback, Inv, SleepersOK, MutexesOK, StopsEarly, StopsLate
  <2>13. ListsOK'
    <3>1. \A o : ~IsIn(o, << >>)
      BY IsInEmpty
    <3>2. \A o \in WaitObjects : IsIn(o, wait_objects[t]) => IsIn(o, ObjectsToLeave(t))
      BY <1>0, <3>1 DEF ObjectsToLeave, Inv, SleepersOK, StopsEarly
    <3> QED
      BY <1>0, <1>2, <2>6, <3>2 DEF ThreadWakeupCallback, Inv, ListsOK, Leaves, Enters
  <2> QED
    BY <2>9, <2>10, <2>11, <2>12, <2>13 DEF Inv
<1> QED
  BY <1>1, <1>2

\* ThreadManager::SwitchContext, to a thread of the core that is ready or
\* already its current thread, or to none.
LEMMA SwitchKeeps ==
    ASSUME Inv, Idle, NEW c \in Cores, NEW new \in Threads \cup {None}, SwitchTo(c, new),
           new # None => CoreOf[new] = c /\ status[new] \in {"Ready", "Running"},
           halted' = [halted EXCEPT ![c] = FALSE],
           UNCHANGED <<priorityVars, mutexVars, signalVars, wait_objects, waiting_threads,
                       wakeup_callback, arbiterVars, processVars, k, failed>>
    PROVE  Inv'
<1>0. /\ k.pc = "user" /\ k.stop = None /\ k.object = None /\ None \notin Threads
      /\ current_thread \in [Cores -> Threads \cup {None}]
      /\ halted \in [Cores -> BOOLEAN] /\ status \in [Threads -> Statuses]
  BY KernelConstants DEF Inv, ControlOK, TypeOK, Idle, WaitObjects
<1>1. /\ current_thread' \in [Cores -> Threads \cup {None}]
      /\ \A d \in Cores : current_thread'[d] = IF d = c THEN new ELSE current_thread[d]
      /\ halted' \in [Cores -> BOOLEAN]
      /\ \A d \in Cores : halted'[d] = IF d = c THEN FALSE ELSE halted[d]
  BY <1>0 DEF SwitchTo
<1>2. \A t \in Threads :
         status'[t] = IF t = new THEN "Running"
                      ELSE IF t = current_thread[c] /\ status[t] = "Running" THEN "Ready"
                      ELSE status[t]
  BY DEF SwitchTo
<1>3. status' \in [Threads -> Statuses]
  <2>1. DOMAIN status' = Threads /\ status' = [t \in Threads |-> status'[t]]
    BY DEF SwitchTo
  <2>2. \A t \in Threads : status'[t] \in Statuses
    BY <1>0, <1>2 DEF Statuses
  <2> QED
    BY <2>1, <2>2
<1>4. wake_events' \in SUBSET Threads
  BY DEF SwitchTo, Inv, TypeOK
<1>5. TypeOK'
  BY <1>1, <1>3, <1>4 DEF Inv, TypeOK
<1>6. CoresOK'
  <2>1. ASSUME NEW d \in Cores, d # c, current_thread[d] # None
        PROVE  /\ current_thread[d] \in Threads /\ CoreOf[current_thread[d]] = d
               /\ current_thread[d] # new /\ current_thread[d] # current_thread[c]
    BY <1>0, <2>1 DEF Inv, CoresOK
  <2> QED
    BY <1>0, <1>1, <1>2, <2>1 DEF Inv, CoresOK
<1>7. RunningOK'
  <2>1. ASSUME NEW t \in Threads, status'[t] = "Running" PROVE current_thread'[CoreOf[t]] = t
    <3>1. CoreOf[t] \in Cores
      BY KernelConstants
    <3>2. CASE t = new
      BY <1>0, <1>1, <3>2
    <3>3. CASE t # new
      <4>1. status[t] = "Running" /\ t # current_thread[c]
        BY <1>2, <2>1, <3>3
      <4>2. current_thread[CoreOf[t]] = t
        BY <4>1 DEF Inv, RunningOK
      <4> QED
        BY <1>1, <3>1, <4>1, <4>2
    <3> QED
      BY <3>2, <3>3
  <2> QED
    BY <2>1 DEF RunningOK
<1>8. ControlOK' /\ TimersOK' /\ ListsUnique'
  BY DEF Inv, ControlOK, StopsLate, TimersOK, ListsUnique, Unique
<1>9. SubjectOK'
  BY <1>0 DEF SubjectOK
<1>10. SleepersOK'
  <2>1. \A t \in Threads : status[t] \in WaitSynch => status'[t] = status[t]
    BY <1>0, <1>2 DEF WaitSynch
  <2> QED
    BY <1>0, <2>1 DEF Inv, SleepersOK, StopsEarly
<1>11. ListsOK' /\ MutexesOK'
  BY DEF Inv, ListsOK, Leaves, Enters, MutexesOK, StopsLate
<1> QED
  BY <1>5, <1>6, <1>7, <1>8, <1>9, <1>10, <1>11 DEF Inv

\* ThreadManager::Reschedule switches to a ready thread or to none.
LEMMA RescheduleKeeps ==
    ASSUME Inv, NEW c \in Cores, Reschedule(c) PROVE Inv'
<1> DEFINE old == current_thread[c]
           running == old # None /\ status[old] = "Running"
           better == {r \in ReadyThreads(c) :
                        running => current_priority[r] < current_priority[old]}
<1>1. /\ Idle /\ halted' = [halted EXCEPT ![c] = FALSE]
      /\ UNCHANGED <<priorityVars, mutexVars, signalVars, wait_objects, waiting_threads,
                     wakeup_callback, arbiterVars, processVars, k, failed>>
  BY DEF Reschedule
<1>2. (\E r \in better : SwitchTo(c, r)) \/ SwitchTo(c, IF running THEN old ELSE None)
  BY DEF Reschedule
<1>3. ASSUME NEW r \in better, SwitchTo(c, r) PROVE Inv'
  <2>1. r \in Threads /\ CoreOf[r] = c /\ status[r] = "Ready"
    BY DEF ReadyThreads
  <2> QED
    BY <1>1, <1>3, <2>1, SwitchKeeps
<1>4. ASSUME SwitchTo(c, IF running THEN old ELSE None) PROVE Inv'
  <2>1. old \in Threads \cup {None} /\ (old # None => CoreOf[old] = c)
    BY DEF Inv, TypeOK, CoresOK
  <2> DEFINE new == IF running THEN old ELSE None
  <2>2. new \in Threads \cup {None} /\ (new # None => CoreOf[new] = c /\ status[new] = "Running")
    BY <2>1
  <2>3. SwitchTo(c, new)
    BY <1>4
  <2> HIDE DEF new
  <2> QED
    BY <1>1, <2>2, <2>3, SwitchKeeps
<1> QED
  BY <1>2, <1>3, <1>4

\* The invariant holds when the emulation starts.
LEMMA InitKeeps == Init => Inv
<1> SUFFICES ASSUME Init PROVE Inv
  OBVIOUS
<1>1. PICK c \in Cores : k = UserMode(c)
  BY DEF Init
<1>2. /\ k \in KernelState /\ k.pc = "user" /\ k.stop = None /\ k.object = None /\ k.thread = None
      /\ k.kill = {} /\ k.mutexes = {} /\ k.rest = << >>
  BY <1>1, UserModeType DEF UserMode
<1>3. status \in [Threads -> Statuses] /\ \A t \in Threads : status[t] \in {"Ready", "Unborn"}
  BY DEF Init, ThreadsCreated, Statuses
<1>4. /\ nominal_priority \in [Threads -> Priorities] /\ current_priority \in [Threads -> Priorities]
      /\ held_mutexes \in [Threads -> SUBSET Mutexes]
      /\ wait_objects \in [Threads -> Seq(WaitObjects)]
      /\ wakeup_callback \in [Threads -> {"null", "sync", "arbiter"}]
      /\ wait_address \in [Threads -> Addresses \cup {None}]
      /\ thread_list \in SUBSET Threads
  BY CallConstants DEF Init, ThreadsCreated
<1>5. lock_count \in [Mutexes -> Nat] /\ holding_thread \in [Mutexes -> Threads \cup {None}]
  BY DEF Init, MutexesCreated
<1>6. mutex_priority \in [Mutexes -> Priorities]
  <2>1. ThreadPrioLowest \in Priorities
    BY KernelConstants DEF Priorities
  <2> QED
    BY <2>1 DEF Init, MutexesCreated
<1>7. available_count \in [Semaphores -> Int32] /\ memory \in [Addresses -> Int32]
  <2>1. 0 \in Int32
    BY KernelConstants DEF Int32
  <2> QED
    BY <2>1 DEF Init, SemaphoresCreated
<1>8. /\ timer_events \in [Timers -> Nat] /\ periodic \in [Timers -> BOOLEAN]
      /\ waiting_threads \in [WaitObjects -> Seq(Threads)]
      /\ wake_events \in SUBSET Threads /\ arbiter \in Seq(Threads)
  BY DEF Init, TimersCreated
<1>9. /\ current_thread \in [Cores -> Threads \cup {None}] /\ halted \in [Cores -> BOOLEAN]
      /\ exited \in SUBSET Processes /\ failed \in Asserts \cup {"none"}
      /\ signaled \in [Signals -> BOOLEAN]
  BY DEF Init
<1>10. TypeOK
  BY <1>2, <1>3, <1>4, <1>5, <1>6, <1>7, <1>8, <1>9 DEF TypeOK
<1>11. ControlOK /\ CoresOK /\ RunningOK /\ SubjectOK
  BY <1>2, <1>3 DEF Init, ControlOK, CoresOK, RunningOK, SubjectOK
<1>12. /\ \A t \in Threads : wait_objects[t] = << >>
       /\ \A o \in WaitObjects : waiting_threads[o] = << >>
  BY DEF Init, ThreadsCreated
<1>13. SleepersOK /\ ListsUnique
  BY <1>12 DEF SleepersOK, ListsUnique, Unique
<1>14. ListsOK
  <2>1. \A o : ~IsIn(o, << >>)
    BY IsInEmpty
  <2> QED
    BY <1>2, <1>12, <2>1 DEF ListsOK, Enters
<1>15. MutexesOK
  <2>1. /\ \A m \in Mutexes : lock_count[m] = 0 /\ holding_thread[m] = None
        /\ \A t \in Threads : held_mutexes[t] = {}
    BY DEF Init, MutexesCreated, ThreadsCreated
  <2>2. None \notin Threads /\ ~StopsLate
    BY <1>2, KernelConstants DEF WaitObjects, StopsLate
  <2> QED
    BY <2>1, <2>2 DEF MutexesOK
<1>16. TimersOK
  BY <1>2, KernelConstants DEF Init, TimersCreated, TimersOK, WaitObjects
<1> QED
  BY <1>10, <1>11, <1>13, <1>14, <1>15, <1>16 DEF Inv

\* Every system call keeps the invariant.
LEMMA SystemCallKeeps ==
    ASSUME Inv, NEW c \in Cores, NEW t \in Threads, SystemCall(c, t) PROVE Inv'
<1>1. CASE \E o \in WaitTargets[t], to \in Timeouts : WaitSynchronization1(c, t, o, to)
  BY <1>1, WaitSynchronization1Keeps
<1>2. CASE \E objs \in WaitLists[t], all \in BOOLEAN, to \in Timeouts :
             WaitSynchronizationN(c, t, objs, all, to)
  BY <1>2, WaitSynchronizationNKeeps
<1>3. CASE \E e \in Events : SignalEvent(c, t, e)
  BY <1>3, SignalEventKeeps
<1>4. CASE \E e \in Signals : ClearSignal(c, t, e)
  BY <1>4, ClearSignalKeeps
<1>5. CASE \E s \in Semaphores, n \in ReleaseCounts : ReleaseSemaphore(c, t, s, n)
  BY <1>5, ReleaseSemaphoreKeeps
<1>6. CASE \E m \in Mutexes : ReleaseMutex(c, t, m)
  BY <1>6, ReleaseMutexKeeps
<1>7. CASE \E tm \in Timers, immediate, repeat \in BOOLEAN : SetTimer(c, t, tm, immediate, repeat)
  BY <1>7, SetTimerKeeps
<1>8. CASE \E tm \in Timers : CancelTimer(c, t, tm)
  BY <1>8, CancelTimerKeeps
<1>9. CASE \E to \in Timeouts : SleepThread(c, t, to)
  BY <1>9, SleepThreadKeeps
<1>10. CASE \E a \in Addresses, v \in MemoryValues, dec \in BOOLEAN, to \in Timeouts \cup {"none"} :
              ArbitrateWait(c, t, a, v, dec, to)
  BY <1>10, ArbitrateWaitKeeps
<1>11. CASE \E a \in Addresses, v \in MemoryValues :
              ArbitratePass(c, t, a, v) \/ ArbitrateSignal(c, t, a, v) \/ Store(c, t, a, v)
  BY <1>11, ArbitratePassKeeps, ArbitrateSignalKeeps, StoreKeeps
<1>12. CASE \E new \in Threads, p \in NewPriorities : CreateThread(c, t, new, p)
  BY <1>12, CreateThreadKeeps
<1>13. CASE \E u \in Threads, p \in NewPriorities : SetThreadPriority(c, t, u, p)
  BY <1>13, SetThreadPriorityKeeps
<1>14. CASE ExitThread(c, t)
  BY <1>14, ExitThreadKeeps
<1>15. CASE \E p \in Terminated : TerminateProcess(c, t, p)
  BY <1>15, TerminateProcessKeeps
<1> QED
  BY <1>1, <1>2, <1>3, <1>4, <1>5, <1>6, <1>7, <1>8, <1>9, <1>10, <1>11, <1>12, <1>13, <1>14,
     <1>15 DEF SystemCall

\* Every step keeps the invariant.
LEMMA NextKeeps == Inv /\ [Next]_vars => Inv'
<1> SUFFICES ASSUME Inv, [Next]_vars PROVE Inv'
  OBVIOUS
<1>1. CASE UNCHANGED vars
  <2>1. TypeOK'
    BY <1>1 DEF vars, Inv, TypeOK
  <2>2. ControlOK' /\ CoresOK' /\ RunningOK' /\ SubjectOK' /\ TimersOK'
    BY <1>1 DEF vars, Inv, ControlOK, CoresOK, RunningOK, SubjectOK, TimersOK, StopsLate
  <2>3. SleepersOK' /\ ListsUnique' /\ ListsOK' /\ MutexesOK'
    BY <1>1 DEF vars, Inv, SleepersOK, ListsUnique, Unique, ListsOK, MutexesOK, StopsLate,
                StopsEarly, Leaves, Enters
  <2> QED
    BY <2>1, <2>2, <2>3 DEF Inv
<1>2. CASE \E c \in Cores, t \in Threads : SystemCall(c, t)
  BY <1>2, SystemCallKeeps
<1>3. CASE KernelLoop
  BY <1>3, AddNextKeeps, AcquireNextKeeps, WakeNextKeeps, RemoveNextKeeps, DetachNextKeeps,
     ReleaseNextKeeps, TerminateNextKeeps, PriorityNextKeeps, ArbitrateNextKeeps DEF KernelLoop
<1>4. CASE TimingEvent
  BY <1>4, TimerCallbackKeeps, ThreadWakeupCallbackKeeps DEF TimingEvent
<1>5. CASE \E c \in Cores : Reschedule(c)
  BY <1>5, RescheduleKeeps
<1> QED
  BY <1>1, <1>2, <1>3, <1>4, <1>5 DEF Next

\* The invariant holds in every reachable state.
LEMMA InvHolds == Spec => []Inv
BY InitKeeps, NextKeeps, PTL DEF Spec

-----------------------------------------------------------------------------
(***************************************************************************)
(* Every variable keeps its type, whoever calls what: an s32 count stays   *)
(* in its 32 bits, lists hold threads and objects of their kinds.          *)
(***************************************************************************)
THEOREM KernelTypes == Spec => []TypeOK
<1>1. Inv => TypeOK
  BY DEF Inv
<1> QED
  BY <1>1, InvHolds, PTL

(***************************************************************************)
(* Acquire, ReleaseMutex, the wake loop and Thread::Stop keep a mutex's    *)
(* lock count, its holder and the holder's held_mutexes in step.           *)
(***************************************************************************)
THEOREM MutexesOwned == Spec => []MutexOwnership
<1>1. Inv => MutexOwnership
  <2> SUFFICES ASSUME Inv PROVE MutexOwnership
    OBVIOUS
  <2>1. StopsLate => k.pc # "detach"
    BY DEF StopsLate
  <2>2. ASSUME NEW m \in Mutexes, NEW t \in Threads, m \in held_mutexes[t], holding_thread[m] # t
        PROVE  t = k.stop /\ k.pc # "detach" /\ m \notin k.mutexes
    BY <2>1, <2>2 DEF Inv, MutexesOK
  <2> QED
    BY <2>2 DEF Inv, MutexesOK, MutexOwnership
<1> QED
  BY <1>1, InvHolds, PTL

(***************************************************************************)
(* Between calls the waiting lists hold the sleeping threads, once each,   *)
(* and no others, for lists with repeated objects too.                     *)
(***************************************************************************)
THEOREM WaitingListsAreExact == Spec => []WaitingListsExact
<1>1. Inv => WaitingListsExact
  <2> SUFFICES ASSUME Inv, k.pc = "user" PROVE WaitingListsExact
    BY DEF WaitingListsExact
  <2>1. k.stop = None
    BY DEF Inv, ControlOK
  <2>2. \A o \in WaitObjects : \A i, j \in 1 .. Len(waiting_threads[o]) :
           waiting_threads[o][i] = waiting_threads[o][j] => i = j
    BY DEF Inv, ListsUnique, Unique
  <2>3. ASSUME NEW o \in WaitObjects, NEW t \in Threads
        PROVE  IsIn(t, waiting_threads[o]) <=> status[t] \in WaitSynch /\ IsIn(o, wait_objects[t])
    <3>1. ~IsIn(o, << >>)
      BY IsInEmpty
    <3>2. IsIn(t, waiting_threads[o]) <=> IsIn(o, wait_objects[t])
      BY DEF Inv, ListsOK, Leaves, Enters
    <3>3. IsIn(o, wait_objects[t]) => status[t] \in WaitSynch
      BY <2>1, <3>1 DEF Inv, SleepersOK, StopsEarly
    <3> QED
      BY <3>2, <3>3
  <2> QED
    BY <2>2, <2>3 DEF WaitingListsExact
<1> QED
  BY <1>1, InvHolds, PTL

(***************************************************************************)
(* Set, Cancel and the periodic callback never leave two events of a timer *)
(* pending.                                                                *)
(***************************************************************************)
THEOREM TimersHaveOneEvent == Spec => []OneTimerEvent
<1>1. Inv => OneTimerEvent
  BY DEF Inv, TimersOK, OneTimerEvent
<1> QED
  BY <1>1, InvHolds, PTL
=============================================================================
