--------------------------- MODULE KernelObjects ---------------------------
(***************************************************************************)
(* The state of the emulated kernel's threads and wait objects and the     *)
(* primitives every kernel operation is built from: ShouldWait, Acquire,   *)
(* AddWaitingThread, RemoveWaitingThread, the priority inheritance of      *)
(* mutexes and ResumeFromWait (core/hle/kernel/thread.cpp, wait_object.cpp, *)
(* mutex.cpp, event.cpp, semaphore.cpp, timer.cpp).                        *)
(*                                                                         *)
(* The kernel is sequential: one emulated core runs at a time, and a       *)
(* system call or timing event runs to its end before anything else does.  *)
(* Its loops over threads, objects and mutexes are steps of their own here *)
(* (module KernelSync): `k` says which loop the kernel is in and what is   *)
(* left of it, and nothing else moves until it is "user" again.            *)
(***************************************************************************)
EXTENDS Integers, Sequences

CONSTANTS Threads, Mutexes, Events, Semaphores, Timers,
          None,          \* a null pointer
          Cores,         \* emulated cores, numbered from 0
          CoreOf,        \* thread -> core (Thread::core_id)
          Processes,
          OwnerOf,       \* thread -> process (Thread::owner_process)
          ResetType,     \* event or timer -> "OneShot", "Sticky" or "Pulse"
          MaxCount,      \* semaphore -> max_count
          ThreadPrioLowest,
          Addresses,     \* addresses used with the address arbiter
          S32            \* s32 holds -S32 .. S32 - 1 (2^31 in the code)

WaitObjects == Threads \cup Mutexes \cup Events \cup Semaphores \cup Timers
Signals == Events \cup Timers
Priorities == 0 .. ThreadPrioLowest
Int32 == -S32 .. S32 - 1

ASSUME KernelConstants ==
    /\ None \notin WaitObjects
    /\ Threads \cap (Mutexes \cup Signals \cup Semaphores) = {}
    /\ Mutexes \cap (Signals \cup Semaphores) = {}
    /\ Signals \cap Semaphores = {} /\ Events \cap Timers = {}
    /\ Cores \subseteq Nat
    /\ CoreOf \in [Threads -> Cores]
    /\ OwnerOf \in [Threads -> Processes]
    /\ ResetType \in [Signals -> {"OneShot", "Sticky", "Pulse"}]
    /\ S32 \in Nat \ {0}
    /\ MaxCount \in [Semaphores -> Int32]
    /\ ThreadPrioLowest \in Nat

VARIABLES
    status,            \* Thread::status; "Unborn" before CreateThread
    nominal_priority,
    current_priority,
    held_mutexes,      \* thread -> set of mutexes
    wait_objects,      \* thread -> sequence of wait objects
    wakeup_callback,   \* thread -> "null", "sync" or "arbiter"
    waiting_threads,   \* wait object -> sequence of threads
    lock_count,
    mutex_priority,    \* Mutex::priority
    holding_thread,
    signaled,          \* Event::signaled and Timer::signaled
    available_count,
    wake_events,       \* threads with a ThreadWakeup event in the timing queue
    timer_events,      \* timer -> TimerCallback events in the timing queue
    periodic,          \* timer -> interval_delay != 0
    arbiter,           \* AddressArbiter::waiting_threads
    wait_address,
    memory,            \* words the address arbiter compares
    current_thread,    \* core -> ThreadManager::current_thread
    halted,            \* core -> PrepareReschedule stopped it, until Reschedule
    thread_list,       \* union of the ThreadManagers' thread lists
    exited,            \* processes that were terminated
    k,                 \* where the kernel is in the current call
    failed             \* the ASSERT that aborted the program, or "none"

priorityVars == <<nominal_priority, current_priority, mutex_priority>>
mutexVars == <<lock_count, holding_thread, held_mutexes>>
signalVars == <<signaled, available_count, timer_events, periodic>>
waitVars == <<wait_objects, waiting_threads, wakeup_callback, wake_events>>
arbiterVars == <<arbiter, wait_address, memory>>
processVars == <<thread_list, exited>>
coreVars == <<current_thread, halted>>
vars == <<status, priorityVars, mutexVars, signalVars, waitVars, arbiterVars,
          processVars, coreVars, k, failed>>

WaitSynch == {"WaitSynchAny", "WaitSynchAll"}

Statuses == WaitSynch \cup
    {"Running", "Ready", "WaitArb", "WaitSleep", "Dead", "Unborn"}

\* Where the kernel may be: "user" between calls, otherwise the loop it is in.
Loops == {"user", "add", "acquire", "wake", "remove", "detach", "release",
          "terminate", "priority", "arbitrate"}

KernelState ==
    [pc : Loops,
     core : Cores,                      \* KernelSystem::current_cpu
     thread : Threads \cup {None},      \* the thread being put to sleep or woken
     object : WaitObjects \cup {None},  \* the object whose waiters are woken
     rest : Seq(WaitObjects),           \* wait objects the loop still visits
     stop : Threads \cup {None},        \* the thread in Thread::Stop
     mutexes : SUBSET Mutexes,          \* mutexes the loop still visits
     kill : SUBSET Threads,             \* threads TerminateProcess still stops
     address : Addresses \cup {None},
     count : Int]                       \* threads the arbiter still resumes

UserMode(c) ==
    [pc |-> "user", core |-> c, thread |-> None, object |-> None, rest |-> << >>,
     stop |-> None, mutexes |-> {}, kill |-> {}, address |-> None, count |-> 0]

ReturnToUser == k' = UserMode(k.core)

\* The ASSERTs and ASSERT_MSGs there are, by their text.
Asserts ==
    {"object unavailable!", "wakeup_callback == nullptr", "wakeup_callback_table.at",
     "Process has already exited", "Inconsistent thread statuses in waiting_threads",
     "Inconsistent AddressArbiter state", "Thread is waking up while waiting for objects"}

\* ASSERT and ASSERT_MSG abort the emulator: no step follows.
Abort(message) ==
    /\ failed' = message
    /\ UNCHANGED <<status, priorityVars, mutexVars, signalVars, waitVars,
                   arbiterVars, processVars, coreVars, k>>

-----------------------------------------------------------------------------
\* Sequences as the std::vector of the code uses them.

IsIn(x, s) == \E i \in 1 .. Len(s) : s[i] = x

\* find and erase: s without its first x.
Without(s, x) ==
    IF IsIn(x, s)
    THEN LET f == CHOOSE i \in 1 .. Len(s) :
                     s[i] = x /\ \A j \in 1 .. Len(s) : s[j] = x => i <= j
         IN  [j \in 1 .. Len(s) - 1 |-> IF j < f THEN s[j] ELSE s[j + 1]]
    ELSE s

Waiters(o) == {t \in Threads : IsIn(t, waiting_threads[o])}

-----------------------------------------------------------------------------
\* ShouldWait and Acquire of the five kinds of wait object.

ThreadShouldWait(u) == status[u] # "Dead"
MutexShouldWait(m, t) == lock_count[m] > 0 /\ holding_thread[m] # t
SignalShouldWait(e) == ~signaled[e]
SemaphoreShouldWait(s) == available_count[s] <= 0

ShouldWait(o, t) ==
    \/ o \in Threads /\ ThreadShouldWait(o)
    \/ o \in Mutexes /\ MutexShouldWait(o, t)
    \/ o \in Signals /\ SignalShouldWait(o)
    \/ o \in Semaphores /\ SemaphoreShouldWait(o)

IsBest(p, S) == p \in S /\ \A q \in S : p <= q

\* Mutant: a boost is never taken back.
UpdatePriorityNeverDrops(t, held, mp) ==
    \E p \in Priorities :
        /\ IsBest(p, {current_priority[t]} \cup {mp[m] : m \in held})
        /\ current_priority' = [current_priority EXCEPT ![t] = p]

\* Thread::UpdatePriority: t's nominal priority or a better one of the
\* mutexes in `held`, whose priorities are `mp`.
UpdatePriority(t, held, mp) ==
    \E p \in Priorities :
        /\ IsBest(p, {nominal_priority[t]} \cup {mp[m] : m \in held})
        /\ current_priority' = [current_priority EXCEPT ![t] = p]

\* Mutant: a mutex that is given up keeps naming its last holder.
WithHolderKept(m, t) ==
    IF t = None THEN holding_thread ELSE [holding_thread EXCEPT ![m] = t]

WithHolder(m, t) == [holding_thread EXCEPT ![m] = t]

PrepareReschedule == halted' = [halted EXCEPT ![k.core] = TRUE]

AcquireMutex(m, t) ==
    \/ /\ lock_count[m] = 0
       /\ mutex_priority' = [mutex_priority EXCEPT ![m] = current_priority[t]]
       /\ held_mutexes' = [held_mutexes EXCEPT ![t] = @ \cup {m}]
       /\ holding_thread' = WithHolder(m, t)
       /\ UpdatePriority(t, held_mutexes'[t], mutex_priority')
       /\ lock_count' = [lock_count EXCEPT ![m] = 1]
       /\ PrepareReschedule
       /\ UNCHANGED nominal_priority
    \/ /\ lock_count[m] # 0
       /\ lock_count' = [lock_count EXCEPT ![m] = @ + 1]
       /\ UNCHANGED <<holding_thread, held_mutexes, priorityVars, halted>>

\* Event::Acquire and Timer::Acquire
AcquireSignal(e) ==
    signaled' = IF ResetType[e] = "OneShot" THEN [signaled EXCEPT ![e] = FALSE] ELSE signaled

AcquireSemaphore(s) ==
    available_count' = IF available_count[s] <= 0 THEN available_count
                       ELSE [available_count EXCEPT ![s] = @ - 1]

\* A thread that has exited (Thread::Acquire) is not changed by being waited for.
AcquireOther(o) ==
    /\ IF o \in Signals THEN AcquireSignal(o) ELSE UNCHANGED signaled
    /\ IF o \in Semaphores THEN AcquireSemaphore(o) ELSE UNCHANGED available_count

-----------------------------------------------------------------------------
\* Mutex::UpdatePriority once the waiters of m are the threads W.
MutexUpdatePriority(m, W) ==
    LET h == holding_thread[m]
    IN  IF h = None
        THEN UNCHANGED <<mutex_priority, current_priority>>
        ELSE \E b \in Priorities :
               /\ IsBest(b, {ThreadPrioLowest} \cup {current_priority[w] : w \in W})
               /\ mutex_priority' = [mutex_priority EXCEPT ![m] = b]
               /\ IF b # mutex_priority[m]
                  THEN UpdatePriority(h, held_mutexes[h], mutex_priority')
                  ELSE UNCHANGED current_priority

\* Mutex overrides both with a version that also updates pending_mutexes
\* (PendingMutexes below) and its priority.
AddWaitingThread(o, t) ==
    /\ waiting_threads' =
         [waiting_threads EXCEPT ![o] = IF IsIn(t, @) THEN @ ELSE Append(@, t)]
    /\ IF o \in Mutexes
       THEN MutexUpdatePriority(o, Waiters(o) \cup {t})
       ELSE UNCHANGED <<mutex_priority, current_priority>>

\* Mutant: only the mutex's priority is brought up to date.
RemoveWaitingThreadNot(o, t) ==
    /\ UNCHANGED waiting_threads
    /\ IF o \in Mutexes
       THEN MutexUpdatePriority(o, Waiters(o) \ {t})
       ELSE UNCHANGED <<mutex_priority, current_priority>>

RemoveWaitingThread(o, t) ==
    /\ waiting_threads' = [waiting_threads EXCEPT ![o] = Without(@, t)]
    /\ IF o \in Mutexes
       THEN MutexUpdatePriority(o, Waiters(o) \ {t})
       ELSE UNCHANGED <<mutex_priority, current_priority>>

\* Thread::pending_mutexes holds exactly the mutexes whose waiting list the
\* thread is on: AddWaitingThread and RemoveWaitingThread change both.
PendingMutexes(t) == {m \in Mutexes : t \in Waiters(m)}

-----------------------------------------------------------------------------
\* WaitObject::GetHighestPriorityReadyThread.

\* Every thread on a waiting list must be waiting: an ASSERT of the code.
WaitersConsistent(o) == \A t \in Waiters(o) : status[t] \in WaitSynch

\* Mutants: the other objects of a wait for all are not looked at, or such
\* a wait is passed over.
ReadyToRunAny(o, t) == ~ShouldWait(o, t)
ReadyToRunAlone(o, t) == ~ShouldWait(o, t) /\ status[t] # "WaitSynchAll"

ReadyToRun(o, t) ==
    /\ ~ShouldWait(o, t)
    /\ status[t] = "WaitSynchAll" =>
         \A i \in 1 .. Len(wait_objects[t]) : ~ShouldWait(wait_objects[t][i], t)

\* The first of the ready threads with the best priority.
HighestPriorityReady(o, i) ==
    LET w == waiting_threads[o]
    IN  /\ ReadyToRun(o, w[i])
        /\ \A j \in 1 .. Len(w) :
             ReadyToRun(o, w[j]) =>
                \/ current_priority[w[i]] < current_priority[w[j]]
                \/ current_priority[w[i]] = current_priority[w[j]] /\ i <= j

-----------------------------------------------------------------------------
\* Thread::ResumeFromWait.  Its ASSERTs: a thread already Ready must have
\* lost its callback, and wait_objects is empty (the callers clear it for the
\* waits that use it).  The release build ignores running and dead threads.
CanResume(t) ==
    /\ status[t] = "Ready" => wakeup_callback[t] = "null"
    /\ status[t] \notin WaitSynch \cup {"WaitArb"} => wait_objects[t] = << >>

\* Mutant: the switch has no case for ThreadStatus::WaitArb.
ResumeFromWaitSynchOnly(t) ==
    IF status[t] \in {"Ready", "Running", "Dead", "WaitArb"}
    THEN UNCHANGED <<status, wakeup_callback, halted>>
    ELSE /\ status' = [status EXCEPT ![t] = "Ready"]
         /\ wakeup_callback' = [wakeup_callback EXCEPT ![t] = "null"]
         /\ PrepareReschedule

ResumeFromWait(t) ==
    IF status[t] \in {"Ready", "Running", "Dead"}
    THEN UNCHANGED <<status, wakeup_callback, halted>>
    ELSE /\ status' = [status EXCEPT ![t] = "Ready"]
         /\ wakeup_callback' = [wakeup_callback EXCEPT ![t] = "null"]
         /\ PrepareReschedule
=============================================================================
