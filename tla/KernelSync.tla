----------------------------- MODULE KernelSync -----------------------------
(***************************************************************************)
(* The system calls by which emulated threads wait for, signal and release *)
(* kernel objects, sleep, arbitrate on addresses, change priorities, exit  *)
(* and terminate processes (svc.cpp), the timing events that end waits     *)
(* (thread.cpp, timer.cpp) and the scheduler's context switch.             *)
(*                                                                         *)
(* The order of threads of equal priority in the ready queue is left open  *)
(* (module Scheduler has it): Reschedule picks any of the best.            *)
(***************************************************************************)
EXTENDS KernelObjects

CONSTANTS
    WaitTargets,     \* thread -> objects it calls WaitSynchronization1 with
    WaitLists,       \* thread -> object lists for WaitSynchronizationN
    Timeouts,        \* subset of {"poll", "timed", "forever"}: 0, > 0 and -1 ns
    ReleaseCounts,   \* release_count arguments of ReleaseSemaphore
    NewPriorities,   \* priority arguments of SetThreadPriority, CreateThread
    MemoryValues,    \* values threads store to the arbitrated addresses
    Terminated,      \* processes TerminateProcess may be called on
    MaxLock,         \* bound on a mutex's lock_count
    InitialThreads,  \* threads that exist when the model starts
    InitialPriority  \* their nominal priorities

ASSUME CallConstants ==
    /\ WaitTargets \in [Threads -> SUBSET WaitObjects]
    /\ WaitLists \in [Threads -> SUBSET Seq(WaitObjects)]
    /\ Timeouts \subseteq {"poll", "timed", "forever"}
    /\ ReleaseCounts \subseteq Int32
    /\ NewPriorities \subseteq Priorities
    /\ MemoryValues \subseteq Int32
    /\ Terminated \subseteq Processes
    /\ MaxLock \in Nat
    /\ InitialThreads \subseteq Threads
    /\ InitialPriority \in [Threads -> Priorities]

TypeOK ==
    /\ status \in [Threads -> Statuses]
    /\ nominal_priority \in [Threads -> Priorities]
    /\ current_priority \in [Threads -> Priorities]
    /\ held_mutexes \in [Threads -> SUBSET Mutexes]
    /\ wait_objects \in [Threads -> Seq(WaitObjects)]
    /\ wakeup_callback \in [Threads -> {"null", "sync", "arbiter"}]
    /\ waiting_threads \in [WaitObjects -> Seq(Threads)]
    /\ lock_count \in [Mutexes -> Nat]
    /\ mutex_priority \in [Mutexes -> Priorities]
    /\ holding_thread \in [Mutexes -> Threads \cup {None}]
    /\ signaled \in [Signals -> BOOLEAN]
    /\ available_count \in [Semaphores -> Int32]
    /\ wake_events \in SUBSET Threads
    /\ timer_events \in [Timers -> Nat]
    /\ periodic \in [Timers -> BOOLEAN]
    /\ arbiter \in Seq(Threads)
    /\ wait_address \in [Threads -> Addresses \cup {None}]
    /\ memory \in [Addresses -> Int32]
    /\ current_thread \in [Cores -> Threads \cup {None}]
    /\ halted \in [Cores -> BOOLEAN]
    /\ thread_list \in SUBSET Threads
    /\ exited \in SUBSET Processes
    /\ k \in KernelState
    /\ failed \in Asserts \cup {"none"}

\* CreateThread, of the threads there are at the beginning.
ThreadsCreated ==
    /\ status = [t \in Threads |-> IF t \in InitialThreads THEN "Ready" ELSE "Unborn"]
    /\ nominal_priority = InitialPriority
    /\ current_priority = InitialPriority
    /\ held_mutexes = [t \in Threads |-> {}]
    /\ wait_objects = [t \in Threads |-> << >>]
    /\ wakeup_callback = [t \in Threads |-> "null"]
    /\ wait_address = [t \in Threads |-> None]
    /\ thread_list = InitialThreads

\* CreateMutex, without initial_locked.
MutexesCreated ==
    /\ lock_count = [m \in Mutexes |-> 0]
    /\ mutex_priority = [m \in Mutexes |-> ThreadPrioLowest]
    /\ holding_thread = [m \in Mutexes |-> None]

\* CreateEvent
EventsCreated == \A e \in Events : signaled[e] = FALSE

\* CreateTimer
TimersCreated ==
    /\ \A tm \in Timers : signaled[tm] = FALSE
    /\ timer_events = [tm \in Timers |-> 0]
    /\ periodic = [tm \in Timers |-> FALSE]

\* CreateSemaphore, with an initial_count of zero.
SemaphoresCreated == available_count = [s \in Semaphores |-> 0]

Init ==
    /\ ThreadsCreated
    /\ MutexesCreated
    /\ signaled \in [Signals -> BOOLEAN] /\ EventsCreated /\ TimersCreated
    /\ SemaphoresCreated
    /\ waiting_threads = [o \in WaitObjects |-> << >>]
    /\ wake_events = {}
    /\ arbiter = << >>
    /\ memory = [a \in Addresses |-> 0]
    /\ current_thread = [c \in Cores |-> None]
    /\ halted = [c \in Cores |-> FALSE]
    /\ exited = {}
    /\ \E c \in Cores : k = UserMode(c)
    /\ failed = "none"

\* Between calls: the emulated program, a timing event or the scheduler goes.
Idle == k.pc = "user" /\ failed = "none"

\* Core c executes t.  Only a core that PrepareReschedule stopped does not:
\* t's status is not consulted.
Executes(c, t) == Idle /\ current_thread[c] = t /\ ~halted[c]

\* Mutant: PrepareReschedule is not called, the thread runs on.
HaltNot(c) == UNCHANGED halted

Halt(c) == halted' = [halted EXCEPT ![c] = TRUE]

-----------------------------------------------------------------------------
\* WaitSynchronization1 and WaitSynchronizationN

\* t holds m already as often as the model allows.
AtLockBound(t, objs) ==
    \E i \in 1 .. Len(objs) : objs[i] \in Mutexes
        /\ holding_thread[objs[i]] = t /\ lock_count[objs[i]] >= MaxLock

\* A thread that was never created has no handle.
Exists(o) == o \in Threads => status[o] # "Unborn"

\* The calling thread sleeps on objs; the "add" loop puts it on their lists.
SleepOn(c, t, objs, mode, timeout) ==
    /\ status' = [status EXCEPT ![t] = mode]
    /\ wait_objects' = [wait_objects EXCEPT ![t] = objs]
    /\ wakeup_callback' = [wakeup_callback EXCEPT ![t] = "sync"]
    /\ wake_events' = IF timeout = "timed" THEN wake_events \cup {t} ELSE wake_events
    /\ Halt(c)
    /\ k' = [UserMode(c) EXCEPT !.pc = "add", !.thread = t, !.rest = objs]
    /\ UNCHANGED <<priorityVars, mutexVars, signalVars, waiting_threads, arbiterVars,
                   processVars, current_thread, failed>>

\* The calling thread takes objs at once, one by one in the "acquire" loop.
AcquireNow(c, t, objs) ==
    /\ k' = [UserMode(c) EXCEPT !.pc = "acquire", !.thread = t, !.rest = objs]
    /\ UNCHANGED <<status, priorityVars, mutexVars, signalVars, waitVars, arbiterVars,
                   processVars, coreVars, failed>>

WaitSynchronization1(c, t, o, timeout) ==
    /\ Executes(c, t)
    /\ Exists(o) /\ ~AtLockBound(t, <<o>>)
    /\ \/ ShouldWait(o, t) /\ timeout # "poll" /\ SleepOn(c, t, <<o>>, "WaitSynchAny", timeout)
       \/ ~ShouldWait(o, t) /\ AcquireNow(c, t, <<o>>)

WaitSynchronizationN(c, t, objs, wait_all, timeout) ==
    LET Available(i) == ~ShouldWait(objs[i], t)
    IN  /\ Executes(c, t)
        /\ \A i \in 1 .. Len(objs) : Exists(objs[i])
        /\ ~AtLockBound(t, objs)
        /\ \/ /\ wait_all /\ \A i \in 1 .. Len(objs) : Available(i)
              /\ AcquireNow(c, t, objs)
           \/ /\ wait_all /\ \E i \in 1 .. Len(objs) : ~Available(i)
              /\ timeout # "poll"
              /\ SleepOn(c, t, objs, "WaitSynchAll", timeout)
           \/ /\ ~wait_all
              /\ \E i \in 1 .. Len(objs) :
                   /\ Available(i) /\ \A j \in 1 .. i - 1 : ~Available(j)
                   /\ AcquireNow(c, t, <<objs[i]>>)
           \/ /\ ~wait_all /\ \A i \in 1 .. Len(objs) : ~Available(i)
              /\ timeout # "poll"
              /\ SleepOn(c, t, objs, "WaitSynchAny", timeout)

\* for (auto& object : objects) object->AddWaitingThread(thread)
AddNext ==
    /\ k.pc = "add" /\ failed = "none"
    /\ IF k.rest # << >>
       THEN /\ AddWaitingThread(Head(k.rest), k.thread)
            /\ k' = [k EXCEPT !.rest = Tail(@)]
       ELSE ReturnToUser /\ UNCHANGED <<waiting_threads, mutex_priority, current_priority>>
    /\ UNCHANGED <<status, nominal_priority, mutexVars, signalVars, wait_objects,
                   wakeup_callback, wake_events, arbiterVars, processVars, coreVars, failed>>

\* for (auto& object : objects) object->Acquire(thread), for the caller of a
\* wait (no object is being woken) or for a thread WakeupAllWaitingThreads wakes.
AcquireNext ==
    /\ k.pc = "acquire" /\ failed = "none"
    /\ \/ /\ k.rest # << >>
          /\ ShouldWait(Head(k.rest), k.thread) /\ Head(k.rest) \notin Semaphores
          /\ Abort("object unavailable!")
       \/ /\ k.rest # << >>
          /\ ~ShouldWait(Head(k.rest), k.thread) \/ Head(k.rest) \in Semaphores
          /\ IF Head(k.rest) \in Mutexes
             THEN /\ AcquireMutex(Head(k.rest), k.thread)
                  /\ UNCHANGED <<signaled, available_count>>
             ELSE /\ AcquireOther(Head(k.rest))
                  /\ UNCHANGED <<mutexVars, priorityVars, halted>>
          /\ k' = [k EXCEPT !.rest = Tail(@)]
          /\ UNCHANGED <<status, timer_events, periodic, waitVars, arbiterVars,
                         processVars, current_thread, failed>>
       \/ /\ k.rest = << >>
          /\ IF k.object = None THEN ReturnToUser
             ELSE k' = [k EXCEPT !.pc = "remove", !.rest = wait_objects[k.thread]]
          /\ UNCHANGED <<status, priorityVars, mutexVars, signalVars, waitVars,
                         arbiterVars, processVars, coreVars, failed>>

-----------------------------------------------------------------------------
\* WaitObject::WakeupAllWaitingThreads

\* What follows the loop: Pulse objects reset, periodic timers are scheduled
\* again, and Thread::Stop goes on.
WakeDone ==
    LET o == k.object
    IN  /\ signaled' = IF o \in Signals /\ ResetType[o] = "Pulse"
                       THEN [signaled EXCEPT ![o] = FALSE] ELSE signaled
        /\ timer_events' = IF o \in Timers /\ periodic[o]
                           THEN [timer_events EXCEPT ![o] = @ + 1] ELSE timer_events
        /\ \/ k.stop = None /\ ReturnToUser
           \/ /\ k.stop # None /\ k.stop = o
              /\ k' = [k EXCEPT !.pc = "detach", !.object = None,
                                !.rest = wait_objects[k.stop]]
           \/ /\ k.stop # None /\ k.stop # o
              /\ k' = [k EXCEPT !.pc = "release", !.object = None]
        /\ UNCHANGED <<status, priorityVars, mutexVars, available_count, periodic,
                       waitVars, arbiterVars, processVars, coreVars, failed>>

\* One round of the loop begins: the thread to wake acquires what it waits for.
WakeOne(i) ==
    LET t == waiting_threads[k.object][i]
    IN  /\ k' = [k EXCEPT !.pc = "acquire", !.thread = t,
                   !.rest = IF status[t] = "WaitSynchAll" THEN wait_objects[t]
                            ELSE <<k.object>>]
        /\ UNCHANGED <<status, priorityVars, mutexVars, signalVars, waitVars,
                       arbiterVars, processVars, coreVars, failed>>

WakeNext ==
    /\ k.pc = "wake" /\ failed = "none"
    /\ \/ /\ ~WaitersConsistent(k.object)
          /\ Abort("Inconsistent thread statuses in waiting_threads")
       \/ /\ WaitersConsistent(k.object)
          /\ \E i \in 1 .. Len(waiting_threads[k.object]) :
               HighestPriorityReady(k.object, i) /\ WakeOne(i)
       \/ /\ WaitersConsistent(k.object)
          /\ \A t \in Waiters(k.object) : ~ReadyToRun(k.object, t)
          /\ WakeDone

\* The thread leaves its objects' lists, then resumes: after a signal the wake
\* loop goes on, after a timeout (no object) the call is over.
RemoveNext ==
    /\ k.pc = "remove" /\ failed = "none"
    /\ \/ /\ k.rest # << >>
          /\ RemoveWaitingThread(Head(k.rest), k.thread)
          /\ k' = [k EXCEPT !.rest = Tail(@)]
          /\ UNCHANGED <<status, nominal_priority, mutexVars, signalVars, wait_objects,
                         wakeup_callback, wake_events, arbiterVars, processVars,
                         coreVars, failed>>
       \/ /\ k.rest = << >> /\ ~CanResume(k.thread)
          /\ Abort("wakeup_callback == nullptr")
       \/ /\ k.rest = << >> /\ CanResume(k.thread)
          /\ wait_objects' = [wait_objects EXCEPT ![k.thread] = << >>]
          /\ ResumeFromWait(k.thread)
          /\ IF k.object = None THEN ReturnToUser
             ELSE k' = [k EXCEPT !.pc = "wake", !.thread = None]
          /\ UNCHANGED <<priorityVars, mutexVars, signalVars, waiting_threads, wake_events,
                         arbiterVars, processVars, current_thread, failed>>

\* Mutant: the object changes and nobody is woken.
WakesNobody(c, o) == k' = UserMode(c)

Wakes(c, o) == k' = [UserMode(c) EXCEPT !.pc = "wake", !.object = o]

-----------------------------------------------------------------------------
\* Signalling and releasing

SignalEvent(c, t, e) ==
    /\ Executes(c, t)
    /\ signaled' = [signaled EXCEPT ![e] = TRUE]
    /\ Wakes(c, e)
    /\ UNCHANGED <<status, priorityVars, mutexVars, available_count, timer_events, periodic,
                   waitVars, arbiterVars, processVars, coreVars, failed>>

\* ClearEvent and ClearTimer
ClearSignal(c, t, e) ==
    /\ Executes(c, t)
    /\ signaled' = [signaled EXCEPT ![e] = FALSE]
    /\ UNCHANGED <<status, priorityVars, mutexVars, available_count, timer_events, periodic,
                   waitVars, arbiterVars, processVars, coreVars, k, failed>>

\* Mutant: counts grow out of their 32 bits.
WrapNot(x) == x

\* Signed 32-bit addition as the build does it: the sum wraps.
Wrap(x) == IF x >= S32 THEN x - 2 * S32 ELSE IF x < -S32 THEN x + 2 * S32 ELSE x

ReleaseSemaphore(c, t, s, n) ==
    /\ Executes(c, t)
    /\ MaxCount[s] >= Wrap(n + available_count[s])
    /\ available_count' = [available_count EXCEPT ![s] = Wrap(@ + n)]
    /\ Wakes(c, s)
    /\ UNCHANGED <<status, priorityVars, mutexVars, signaled, timer_events, periodic,
                   waitVars, arbiterVars, processVars, coreVars, failed>>

MayRelease(m, t) == holding_thread[m] = t /\ lock_count[m] > 0

\* Only the last of the holder's releases frees the mutex.
ReleaseMutex(c, t, m) ==
    /\ Executes(c, t)
    /\ MayRelease(m, t)
    /\ lock_count' = [lock_count EXCEPT ![m] = @ - 1]
    /\ IF lock_count[m] = 1
       THEN /\ held_mutexes' = [held_mutexes EXCEPT ![t] = @ \ {m}]
            /\ UpdatePriority(t, held_mutexes'[t], mutex_priority)
            /\ holding_thread' = WithHolder(m, None)
            /\ Wakes(c, m)
            /\ Halt(c)
       ELSE UNCHANGED <<held_mutexes, current_priority, holding_thread, k, halted>>
    /\ UNCHANGED <<status, nominal_priority, mutex_priority, signalVars, waitVars,
                   arbiterVars, processVars, current_thread, failed>>

\* Mutant: the pending event stays.
CancelledNot(tm) == timer_events

\* Timer::Cancel: UnscheduleEvent removes every event of the timer.
Cancelled(tm) == [timer_events EXCEPT ![tm] = 0]

\* Timer::Set cancels the pending event; a zero initial delay signals at once.
SetTimer(c, t, tm, immediate, repeat) ==
    /\ Executes(c, t)
    /\ periodic' = [periodic EXCEPT ![tm] = repeat]
    /\ IF immediate
       THEN /\ timer_events' = Cancelled(tm)
            /\ signaled' = [signaled EXCEPT ![tm] = TRUE]
            /\ Wakes(c, tm)
       ELSE /\ timer_events' = [Cancelled(tm) EXCEPT ![tm] = @ + 1]
            /\ UNCHANGED <<signaled, k>>
    /\ UNCHANGED <<status, priorityVars, mutexVars, available_count, waitVars, arbiterVars,
                   processVars, coreVars, failed>>

CancelTimer(c, t, tm) ==
    /\ Executes(c, t)
    /\ timer_events' = Cancelled(tm)
    /\ UNCHANGED <<status, priorityVars, mutexVars, signaled, available_count, periodic,
                   waitVars, arbiterVars, processVars, coreVars, k, failed>>

-----------------------------------------------------------------------------
\* Timing events: Timing::Timer::Advance runs them on some core.

\* TimerManager::TimerCallback
TimerCallback(c, tm) ==
    /\ Idle /\ timer_events[tm] > 0
    /\ timer_events' = [timer_events EXCEPT ![tm] = @ - 1]
    /\ signaled' = [signaled EXCEPT ![tm] = TRUE]
    /\ Wakes(c, tm)
    /\ UNCHANGED <<status, priorityVars, mutexVars, available_count, periodic, waitVars,
                   arbiterVars, processVars, coreVars, failed>>

\* Mutant: a thread that waits for all its objects stays on their lists.
ObjectsToLeaveAny(t) == IF status[t] = "WaitSynchAny" THEN wait_objects[t] ELSE << >>

\* The lists a thread leaves when its timeout ends the wait.
ObjectsToLeave(t) ==
    IF status[t] \in WaitSynch \cup {"WaitArb"} THEN wait_objects[t] ELSE << >>

\* AddressArbiter::WakeUp, the callback of an arbitration with a timeout; the
\* callback of WaitSynchronization only sets the call's result.
ArbiterAfterTimeout(t) ==
    IF status[t] \in WaitSynch \cup {"WaitArb"} /\ wakeup_callback[t] = "arbiter"
    THEN Without(arbiter, t) ELSE arbiter

\* ThreadManager::ThreadWakeupCallback
ThreadWakeupCallback(t) ==
    /\ Idle /\ t \in wake_events
    /\ \/ /\ t \notin thread_list
          /\ Abort("wakeup_callback_table.at")
       \/ /\ t \in thread_list
          /\ wake_events' = wake_events \ {t}
          /\ arbiter' = ArbiterAfterTimeout(t)
          /\ k' = [UserMode(CoreOf[t]) EXCEPT
                    !.pc = "remove", !.thread = t, !.rest = ObjectsToLeave(t)]
          /\ UNCHANGED <<status, priorityVars, mutexVars, signalVars, wait_objects,
                         waiting_threads, wakeup_callback, wait_address, memory,
                         processVars, coreVars, failed>>

-----------------------------------------------------------------------------
\* Sleeping and arbitrating

ReadyThreads(c) == {r \in Threads : CoreOf[r] = c /\ status[r] = "Ready"}

\* SleepThread(0) is a yield: it returns at once when no thread is ready.
SleepThread(c, t, timeout) ==
    /\ Executes(c, t)
    /\ timeout = "poll" => ReadyThreads(c) # {}
    /\ status' = [status EXCEPT ![t] = "WaitSleep"]
    /\ wake_events' = IF timeout = "forever" THEN wake_events ELSE wake_events \cup {t}
    /\ Halt(c)
    /\ UNCHANGED <<priorityVars, mutexVars, signalVars, wait_objects, waiting_threads,
                   wakeup_callback, arbiterVars, processVars, current_thread, k, failed>>

\* ArbitrationType::WaitIfLessThan and DecrementAndWaitIfLessThan, with and
\* without timeout.  A decremented word wraps at the bottom of s32.
ArbitrateWait(c, t, a, value, decrement, timeout) ==
    /\ Executes(c, t)
    /\ memory[a] < value
    /\ memory' = IF decrement THEN [memory EXCEPT ![a] = Wrap(@ - 1)] ELSE memory
    /\ wakeup_callback' = IF timeout = "none" THEN wakeup_callback
                          ELSE [wakeup_callback EXCEPT ![t] = "arbiter"]
    /\ wake_events' = IF timeout \in {"poll", "timed"}
                      THEN wake_events \cup {t} ELSE wake_events
    /\ wait_address' = [wait_address EXCEPT ![t] = a]
    /\ status' = [status EXCEPT ![t] = "WaitArb"]
    /\ arbiter' = Append(arbiter, t)
    /\ Halt(c)
    /\ UNCHANGED <<priorityVars, mutexVars, signalVars, wait_objects, waiting_threads,
                   processVars, current_thread, k, failed>>

\* The word is not less than the value: the call only reschedules.
ArbitratePass(c, t, a, value) ==
    /\ Executes(c, t)
    /\ memory[a] >= value
    /\ Halt(c)
    /\ UNCHANGED <<status, priorityVars, mutexVars, signalVars, waitVars, arbiterVars,
                   processVars, current_thread, k, failed>>

\* ArbitrationType::Signal: resume `value` threads in priority order, or all
\* of them when it is negative.
ArbitrateSignal(c, t, a, value) ==
    /\ Executes(c, t)
    /\ k' = [UserMode(c) EXCEPT !.pc = "arbitrate", !.address = a, !.count = value]
    /\ UNCHANGED <<status, priorityVars, mutexVars, signalVars, waitVars, arbiterVars,
                   processVars, coreVars, failed>>

\* The position of the first best thread waiting on k.address.  The code also
\* moves these threads behind the others, which keeps the order per address.
ArbiterChoice(i) ==
    /\ wait_address[arbiter[i]] = k.address
    /\ \A j \in 1 .. Len(arbiter) : wait_address[arbiter[j]] = k.address =>
         \/ current_priority[arbiter[i]] < current_priority[arbiter[j]]
         \/ current_priority[arbiter[i]] = current_priority[arbiter[j]] /\ i <= j

ArbitrateNext ==
    /\ k.pc = "arbitrate" /\ failed = "none"
    /\ \/ /\ k.count # 0 /\ \E i \in 1 .. Len(arbiter) : status[arbiter[i]] # "WaitArb"
          /\ Abort("Inconsistent AddressArbiter state")
       \/ /\ k.count # 0 /\ \A i \in 1 .. Len(arbiter) : status[arbiter[i]] = "WaitArb"
          /\ \E i \in 1 .. Len(arbiter) :
               ArbiterChoice(i) /\ wait_objects[arbiter[i]] # << >>
          /\ Abort("Thread is waking up while waiting for objects")
       \/ /\ k.count # 0 /\ \A i \in 1 .. Len(arbiter) : status[arbiter[i]] = "WaitArb"
          /\ \E i \in 1 .. Len(arbiter) :
               /\ ArbiterChoice(i) /\ wait_objects[arbiter[i]] = << >>
               /\ ResumeFromWait(arbiter[i])
               /\ arbiter' = Without(arbiter, arbiter[i])
          /\ k' = [k EXCEPT !.count = @ - 1]
          /\ UNCHANGED <<priorityVars, mutexVars, signalVars, wait_objects, waiting_threads,
                         wake_events, wait_address, memory, processVars, current_thread, failed>>
       \/ /\ \/ k.count = 0
             \/ /\ \A i \in 1 .. Len(arbiter) : status[arbiter[i]] = "WaitArb"
                /\ \A i \in 1 .. Len(arbiter) : wait_address[arbiter[i]] # k.address
          /\ ReturnToUser
          /\ PrepareReschedule
          /\ UNCHANGED <<status, priorityVars, mutexVars, signalVars, waitVars, arbiterVars,
                         processVars, current_thread, failed>>

\* The emulated program writes an arbitrated word.
Store(c, t, a, v) ==
    /\ Executes(c, t)
    /\ memory' = [memory EXCEPT ![a] = v]
    /\ UNCHANGED <<status, priorityVars, mutexVars, signalVars, waitVars, arbiter,
                   wait_address, processVars, coreVars, k, failed>>

-----------------------------------------------------------------------------
\* Threads and processes

CreateThread(c, t, new, p) ==
    /\ Executes(c, t)
    /\ status[new] = "Unborn"
    /\ OwnerOf[new] = OwnerOf[t]
    /\ status' = [status EXCEPT ![new] = "Ready"]
    /\ nominal_priority' = [nominal_priority EXCEPT ![new] = p]
    /\ current_priority' = [current_priority EXCEPT ![new] = p]
    /\ thread_list' = thread_list \cup {new}
    /\ Halt(c)
    /\ UNCHANGED <<mutex_priority, mutexVars, signalVars, waitVars, arbiterVars, exited,
                   current_thread, k, failed>>

\* Thread::SetPriority and UpdatePriority, then the mutexes u waits for.
SetThreadPriority(c, t, u, p) ==
    /\ Executes(c, t)
    /\ status[u] # "Unborn"
    /\ nominal_priority' = [nominal_priority EXCEPT ![u] = p]
    /\ \E best \in Priorities :
         /\ IsBest(best, {p} \cup {mutex_priority[m] : m \in held_mutexes[u]})
         /\ current_priority' = [current_priority EXCEPT ![u] = best]
    /\ k' = [UserMode(c) EXCEPT !.pc = "priority", !.mutexes = PendingMutexes(u)]
    /\ Halt(c)
    /\ UNCHANGED <<status, mutex_priority, mutexVars, signalVars, waitVars, arbiterVars,
                   processVars, current_thread, failed>>

\* for (auto& mutex : thread->pending_mutexes) mutex->UpdatePriority()
PriorityNext ==
    /\ k.pc = "priority" /\ failed = "none"
    /\ \/ /\ k.mutexes = {} /\ ReturnToUser
          /\ UNCHANGED <<mutex_priority, current_priority>>
       \/ \E m \in k.mutexes :
            /\ MutexUpdatePriority(m, Waiters(m))
            /\ k' = [k EXCEPT !.mutexes = @ \ {m}]
    /\ UNCHANGED <<status, nominal_priority, mutexVars, signalVars, waitVars, arbiterVars,
                   processVars, coreVars, failed>>

\* Mutant: the wakeup event is not cancelled.
StopKeepsWakeup(t, kept) ==
    /\ status' = [status EXCEPT ![t] = "Dead"]
    /\ k' = [kept EXCEPT !.pc = "wake", !.object = t, !.stop = t]
    /\ UNCHANGED <<priorityVars, mutexVars, signalVars, waitVars, arbiterVars,
                   processVars, coreVars, failed>>

\* Thread::Stop up to its WakeupAllWaitingThreads; `kept` is what k keeps.
Stop(t, kept) ==
    /\ wake_events' = wake_events \ {t}
    /\ status' = [status EXCEPT ![t] = "Dead"]
    /\ k' = [kept EXCEPT !.pc = "wake", !.object = t, !.stop = t]
    /\ UNCHANGED <<priorityVars, mutexVars, signalVars, wait_objects, waiting_threads,
                   wakeup_callback, arbiterVars, processVars, coreVars, failed>>

ExitThread(c, t) == Executes(c, t) /\ Stop(t, UserMode(c))

\* wait_object->RemoveWaitingThread(this) for the stopped thread's objects.
DetachNext ==
    /\ k.pc = "detach" /\ failed = "none"
    /\ \/ /\ k.rest # << >>
          /\ RemoveWaitingThread(Head(k.rest), k.stop)
          /\ k' = [k EXCEPT !.rest = Tail(@)]
          /\ UNCHANGED wait_objects
       \/ /\ k.rest = << >>
          /\ wait_objects' = [wait_objects EXCEPT ![k.stop] = << >>]
          /\ k' = [k EXCEPT !.pc = "release", !.mutexes = held_mutexes[k.stop]]
          /\ UNCHANGED <<waiting_threads, mutex_priority, current_priority>>
    /\ UNCHANGED <<status, nominal_priority, mutexVars, signalVars, wakeup_callback,
                   wake_events, arbiterVars, processVars, coreVars, failed>>

\* ReleaseThreadMutexes, and the end of Stop: the thread leaves thread_list,
\* and if it was a core's current thread the running core is rescheduled.
ReleaseNext ==
    /\ k.pc = "release" /\ failed = "none"
    /\ \/ \E m \in k.mutexes :
            /\ lock_count' = [lock_count EXCEPT ![m] = 0]
            /\ holding_thread' = WithHolder(m, None)
            /\ k' = [k EXCEPT !.pc = "wake", !.object = m, !.mutexes = @ \ {m}]
            /\ UNCHANGED <<held_mutexes, thread_list, halted>>
       \/ /\ k.mutexes = {}
          /\ held_mutexes' = [held_mutexes EXCEPT ![k.stop] = {}]
          /\ thread_list' = thread_list \ {k.stop}
          /\ IF \E c \in Cores : current_thread[c] = k.stop
             THEN PrepareReschedule ELSE UNCHANGED halted
          /\ k' = [k EXCEPT !.pc = IF k.kill = {} THEN "user" ELSE "terminate",
                            !.stop = None]
          /\ UNCHANGED <<lock_count, holding_thread>>
    /\ UNCHANGED <<status, priorityVars, signalVars, waitVars, arbiterVars, exited,
                   current_thread, failed>>

\* KernelSystem::TerminateProcess, also called by ExitProcess on the caller's
\* own process.
TerminateProcess(c, t, p) ==
    /\ Executes(c, t)
    /\ \/ /\ p \in exited
          /\ Abort("Process has already exited")
       \/ /\ p \notin exited
          /\ exited' = exited \cup {p}
          /\ k' = [UserMode(c) EXCEPT !.pc = "terminate",
                                      !.kill = {u \in thread_list : OwnerOf[u] = p}]
          /\ UNCHANGED <<status, priorityVars, mutexVars, signalVars, waitVars, arbiterVars,
                         thread_list, coreVars, failed>>

\* Core by core, TerminateProcessThreads stops the core's current thread last.
TerminateNext ==
    /\ k.pc = "terminate" /\ failed = "none"
    /\ \/ /\ k.kill = {} /\ ReturnToUser
          /\ UNCHANGED <<status, priorityVars, mutexVars, signalVars, waitVars, arbiterVars,
                         processVars, coreVars, failed>>
       \/ \E u \in k.kill :
            /\ \A v \in k.kill : CoreOf[u] <= CoreOf[v]
            /\ current_thread[CoreOf[u]] = u =>
                 \A v \in k.kill : CoreOf[v] = CoreOf[u] => v = u
            /\ Stop(u, [k EXCEPT !.kill = @ \ {u}])

-----------------------------------------------------------------------------
\* ThreadManager::Reschedule: PopNextReadyThread and SwitchContext.  RunLoop
\* calls it for every core, whether or not PrepareReschedule asked for it.
\* Mutant: the new thread's pending wakeup is not cancelled.
SwitchToKeepsWakeup(c, new) ==
    LET old == current_thread[c]
    IN  /\ current_thread' = [current_thread EXCEPT ![c] = new]
        /\ status' = [t \in Threads |->
                        CASE t = new -> "Running"
                          [] t # new /\ t = old /\ status[t] = "Running" -> "Ready"
                          [] OTHER -> status[t]]
        /\ UNCHANGED wake_events

SwitchTo(c, new) ==
    LET old == current_thread[c]
    IN  /\ current_thread' = [current_thread EXCEPT ![c] = new]
        /\ status' = [t \in Threads |->
                        CASE t = new -> "Running"
                          [] t # new /\ t = old /\ status[t] = "Running" -> "Ready"
                          [] OTHER -> status[t]]
        /\ wake_events' = wake_events \ {new}

Reschedule(c) ==
    LET old == current_thread[c]
        running == old # None /\ status[old] = "Running"
        better == {r \in ReadyThreads(c) :
                      running => current_priority[r] < current_priority[old]}
    IN  /\ Idle
        /\ halted' = [halted EXCEPT ![c] = FALSE]
        /\ \/ \E r \in better :
                /\ \A q \in better : current_priority[r] <= current_priority[q]
                /\ SwitchTo(c, r)
           \/ better = {} /\ SwitchTo(c, IF running THEN old ELSE None)
        /\ UNCHANGED <<priorityVars, mutexVars, signalVars, wait_objects, waiting_threads,
                       wakeup_callback, arbiterVars, processVars, k, failed>>

-----------------------------------------------------------------------------
SystemCall(c, t) ==
    \/ \E o \in WaitTargets[t], to \in Timeouts : WaitSynchronization1(c, t, o, to)
    \/ \E objs \in WaitLists[t], all \in BOOLEAN, to \in Timeouts :
         WaitSynchronizationN(c, t, objs, all, to)
    \/ \E e \in Events : SignalEvent(c, t, e)
    \/ \E e \in Signals : ClearSignal(c, t, e)
    \/ \E s \in Semaphores, n \in ReleaseCounts : ReleaseSemaphore(c, t, s, n)
    \/ \E m \in Mutexes : ReleaseMutex(c, t, m)
    \/ \E tm \in Timers, immediate, repeat \in BOOLEAN :
         SetTimer(c, t, tm, immediate, repeat)
    \/ \E tm \in Timers : CancelTimer(c, t, tm)
    \/ \E to \in Timeouts : SleepThread(c, t, to)
    \/ \E a \in Addresses, v \in MemoryValues, dec \in BOOLEAN, to \in Timeouts \cup {"none"} :
         ArbitrateWait(c, t, a, v, dec, to)
    \/ \E a \in Addresses, v \in MemoryValues :
         ArbitratePass(c, t, a, v) \/ ArbitrateSignal(c, t, a, v) \/ Store(c, t, a, v)
    \/ \E new \in Threads, p \in NewPriorities : CreateThread(c, t, new, p)
    \/ \E u \in Threads, p \in NewPriorities : SetThreadPriority(c, t, u, p)
    \/ ExitThread(c, t)
    \/ \E p \in Terminated : TerminateProcess(c, t, p)

KernelLoop ==
    \/ AddNext \/ AcquireNext \/ WakeNext \/ RemoveNext
    \/ DetachNext \/ ReleaseNext \/ TerminateNext
    \/ PriorityNext \/ ArbitrateNext

TimingEvent ==
    \/ \E c \in Cores, tm \in Timers : TimerCallback(c, tm)
    \/ \E t \in Threads : ThreadWakeupCallback(t)

Next ==
    \/ \E c \in Cores, t \in Threads : SystemCall(c, t)
    \/ KernelLoop
    \/ TimingEvent
    \/ \E c \in Cores : Reschedule(c)

Spec == Init /\ [][Next]_vars

\* The kernel finishes its calls, and Timing::Timer::Advance, which RunLoop
\* calls for every core in every iteration, runs every event whose time has
\* come: a pending wakeup cannot be passed over for ever.
FairSpec == /\ Spec
            /\ WF_vars(KernelLoop)
            /\ \A t \in Threads : SF_vars(ThreadWakeupCallback(t))

-----------------------------------------------------------------------------
(***************************************************************************)
(* A mutex is locked exactly when a thread holds it, and that thread alone *)
(* lists it in held_mutexes.  Thread::Stop is the one exception: until it  *)
(* ends, the stopped thread still lists mutexes it has given up.           *)
(***************************************************************************)
MutexOwnership ==
    \A m \in Mutexes :
        /\ lock_count[m] > 0 <=> holding_thread[m] # None
        /\ \A t \in Threads :
             /\ holding_thread[m] = t => m \in held_mutexes[t]
             /\ m \in held_mutexes[t] =>
                  holding_thread[m] = t \/ (t = k.stop /\ k.pc # "detach" /\ m \notin k.mutexes)

(***************************************************************************)
(* Between calls a thread is on an object's waiting list exactly when it   *)
(* sleeps in WaitSynchronization on that object, and once at most: timeouts,*)
(* signals, exits and duplicate handles leave no stale or missing entry.   *)
(***************************************************************************)
WaitingListsExact ==
    k.pc = "user" =>
        \A o \in WaitObjects :
            /\ \A t \in Threads : IsIn(t, waiting_threads[o]) <=>
                  status[t] \in WaitSynch /\ IsIn(o, wait_objects[t])
            /\ \A i, j \in 1 .. Len(waiting_threads[o]) :
                  waiting_threads[o][i] = waiting_threads[o][j] => i = j

(***************************************************************************)
(* No lost wakeup: between calls no thread sleeps in WaitSynchronization   *)
(* although what it waits for is available (one of its objects, or all of  *)
(* them), whichever of signal, release, exit and timeout came first.       *)
(***************************************************************************)
NoLostWakeup ==
    k.pc = "user" /\ failed = "none" =>
        \A t \in Threads :
            LET objs == wait_objects[t]
            IN  /\ status[t] = "WaitSynchAny" =>
                     \A i \in 1 .. Len(objs) : ShouldWait(objs[i], t)
                /\ status[t] = "WaitSynchAll" =>
                     \E i \in 1 .. Len(objs) : ShouldWait(objs[i], t)

(***************************************************************************)
(* Between calls every living thread runs at the best of its nominal       *)
(* priority and the priorities of the mutexes it holds, no better and no   *)
(* worse: Acquire, Release, new and leaving waiters and SetThreadPriority  *)
(* all keep the boost of Thread::UpdatePriority up to date.                *)
(***************************************************************************)
BoostUpToDate ==
    k.pc = "user" =>
        \A t \in Threads : status[t] # "Dead" =>
            IsBest(current_priority[t],
                   {nominal_priority[t]} \cup {mutex_priority[m] : m \in held_mutexes[t]})

(***************************************************************************)
(* Between calls a thread that was stopped holds no mutex, is on no        *)
(* object's waiting list, waits for nothing, and no timing event will wake *)
(* it: Thread::Stop cleans up whatever the thread was doing.               *)
(***************************************************************************)
DeadThreadsDetached ==
    k.pc = "user" =>
        \A t \in Threads : status[t] = "Dead" =>
            /\ \A m \in Mutexes : holding_thread[m] # t
            /\ held_mutexes[t] = {}
            /\ \A o \in WaitObjects : ~IsIn(t, waiting_threads[o])
            /\ t \notin wake_events /\ t \notin thread_list

(***************************************************************************)
(* At most one thread of a core is Running, the core's current thread, and *)
(* a core whose current thread is not Running has been stopped by          *)
(* PrepareReschedule, so it does not execute a sleeping thread.            *)
(***************************************************************************)
OneRunningThread ==
    /\ \A t \in Threads : status[t] = "Running" => current_thread[CoreOf[t]] = t
    /\ k.pc = "user" => \A c \in Cores :
          current_thread[c] # None /\ ~halted[c] => status[current_thread[c]] = "Running"

(***************************************************************************)
(* Between calls a thread is on the address arbiter's list, once, exactly  *)
(* when it sleeps in an arbitration: neither the timeout nor the signal    *)
(* that ends the wait, nor a wakeup left over from an earlier sleep, leaves*)
(* a stale entry.                                                          *)
(***************************************************************************)
ArbiterListExact ==
    k.pc = "user" =>
        /\ \A t \in Threads : IsIn(t, arbiter) <=> status[t] = "WaitArb"
        /\ \A i, j \in 1 .. Len(arbiter) : arbiter[i] = arbiter[j] => i = j

(***************************************************************************)
(* A timer has at most one callback event pending, however Set, Cancel and *)
(* the periodic callback interleave: timer.h warns that Signal called from *)
(* elsewhere would get multiple events scheduled, and Set does call it.    *)
(***************************************************************************)
OneTimerEvent == \A tm \in Timers : timer_events[tm] <= 1

(***************************************************************************)
(* No ASSERT of the kernel code is reached: waiting lists and the arbiter's*)
(* list hold waiting threads only, an object is available when acquired, a *)
(* wakeup event finds its thread, a resumed thread has no callback left.   *)
(***************************************************************************)
NoAssertFails == failed = "none"

(***************************************************************************)
(* A wait with a timeout ends: a thread with a wakeup event pending does   *)
(* not stay asleep, however often others signal, acquire and exit.         *)
(***************************************************************************)
TimedWaitsEnd ==
    \A t \in Threads :
        t \in wake_events /\ status[t] \in WaitSynch \cup {"WaitArb", "WaitSleep"}
            ~> status[t] \notin WaitSynch \cup {"WaitArb", "WaitSleep"}

(***************************************************************************)
(* Every system call and timing event ends: the wake loop, which goes on   *)
(* while some waiter can run, and the loops around it terminate.           *)
(***************************************************************************)
KernelCallsEnd == k.pc # "user" ~> k.pc = "user"

(***************************************************************************)
(* thread.h says Thread::Stop "Stops a thread, invalidating it from        *)
(* further use": a dead thread never becomes anything else.                *)
(***************************************************************************)
DeadStaysDead ==
    [][\A t \in Threads : status[t] = "Dead" => status'[t] = "Dead"]_vars

(***************************************************************************)
(* wait_object.cpp: "The list of waiting threads must not contain threads  *)
(* that are not waiting to be awakened."                                   *)
(***************************************************************************)
WaitersAreWaiting == failed # "Inconsistent thread statuses in waiting_threads"
=============================================================================
