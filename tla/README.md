# A verification of the Lime3DS emulator's kernel and of its rooms

Lime3DS emulates a Nintendo 3DS. What its own code decides, as opposed to what
it decodes, renders or mixes, is in the high-level emulation of the Horizon
kernel (`src/src/core/hle/kernel`), in the loop that shares host time between
the emulated cores (`src/src/core/core.cpp`, `core_timing.cpp`), and in the
structures these rest on (`src/src/common/thread_queue_list.h`). Beside that
core stands the multiplayer network (`src/src/network`), a distributed program of
its own. This project models both in TLA+, checks them with TLC on small
instances, and proves part of them with TLAPS for every size.

Contents: [the system](#the-system), [the modules](#the-modules),
[the runs](#the-runs), [fairness](#fairness), [findings](#findings),
[the proofs](#the-proofs), [what is not modelled](#what-is-not-modelled),
[plan](#plan).

## The system

One host thread executes `System::RunLoop`. It runs the emulated cores one
after the other; emulated code enters the kernel through `SVC::CallSVC`, and
timed events enter it through the callbacks of `Timing::Timer::Advance`. The
kernel is therefore sequential, but the *emulated* threads interleave at every
system call, a timeout may fall between any two of them, two cores are
rescheduled at different moments, and host threads put events into the
timing queues at any time.

| Component | State | Operations | Hard part | What makes it correct |
|---|---|---|---|---|
| Handle table | `objects`, `generations` (which doubles as the free list), `next_generation`, `next_free_slot` | Create, Duplicate, Close, IsValid, GetGeneric, Clear | stale handles, counter wrap, free list after Clear | the list holds every empty slot once; a closed handle stays invalid; the table is a map |
| Wait objects | `waiting_threads`; a thread's `wait_objects`, `wakeup_callback`, status | add, remove, `GetHighestPriorityReadyThread`, `WakeupAllWaitingThreads` | each wakeup changes what the others may do; timeouts race signals | lists agree with statuses; nobody sleeps for what is available; the loop ends |
| Mutexes, inheritance | `lock_count`, `holding_thread`, `priority`, `held_mutexes`, `pending_mutexes` | Acquire, Release, UpdatePriority, ReleaseThreadMutexes | redundant copies, boosts through chains, death of the holder | one owner; boosts up to date |
| Events, semaphores, timers | `signaled`, `available_count`, pending timer event | Signal, Clear, Release, Set, Cancel, callback | pulse reset, limits, setting a timer that is firing | no lost wakeup; one event for a timer |
| Address arbiter | its own `waiting_threads`, the words in memory | five arbitration types, timeout | a second waiting list outside WaitObject | the list is exact |
| Threads, processes | status, priorities, TLS, `thread_list`; process status | Create, Stop, SetPriority, TerminateProcess | killed in the middle of anything, by another core | nothing of a dead thread remains, and it does not run |
| Scheduler | `ready_queue` (a linked list of deques), `current_thread`, `unscheduled_ready_threads` | PopNextReadyThread, SwitchContext, Reschedule, and every push, move and remove | a walk without null tests; threads put aside while it chooses | the queue is exact; the best thread gets the core; equals take turns |
| Core timing, run loop | clocks (`executed_ticks`, `slice_length`, `downcount`), event heaps, `ts_queue` | ScheduleEvent, UnscheduleEvent, Advance, SetNextSlice, RunLoop | cutting a running slice, unlocked host reads, cores drifting apart | clocks never go back; events on time; cores together |
| Ports, sessions | pending sessions and requests, `currently_handling`, `active_sessions`, the endpoints' references | Connect, Accept, SendSyncRequest, ReplyAndReceive, destructors | either side leaves or dies at any moment; several servers | slots returned; a request in one place; servers woken |
| Kernel memory | `vma_map` and the page table, `free_blocks`, `holding_memory`, `tls_slots`, memory blocks, mapped buffers, committed memory | ControlMemory's five operations, thread local storage, memory blocks, IPC buffers, FreeAllMemory | areas split and merged while they are walked over; one frame known to four owners; calls that fail half-way | areas and page table agree; each frame has one holder; a call changes what it names |
| Multiplayer rooms | the server's member and ban lists; each member's state, list of members and `send_list`; the connections | Join, Leave, game, chat, frames, kick, ban, unban, Destroy | two threads per member; connections that break between request and answer; peers that are used again | members unique and connected; pictures of the room agree; ghosts removed |
| Resource limits, process loading | counters | Reserve, Release | failure in the middle of a creation | committed memory only |
| Host queues, worker pools | ring indices | push, pop | real host concurrency | planned |
| Emulated memory, CPU, GPU, DSP, HLE services, loaders, file systems, frontends | | | | not modelled, see below |

`PROJECT.json` lists every component with its files, and every place where the
code is hard to test ("hazards") with the property that watches it.

How they interact: the system calls look objects up in the handle table
(`HandleTable`), change waiting lists, mutexes and statuses (`KernelSync`);
these call `ResumeFromWait` and `SetPriority`, which move threads in the ready
queue, and `PrepareReschedule`, which makes the core stop and reschedule
(`Scheduler`); waits with a timeout schedule an event (`CoreTiming`), which
`RunLoop` fires. IPC (`Sessions`) uses the same waiting lists for its ports and
sessions, and maps its buffers into the server's address space (`ProcessMemory`).
Creating a thread takes an entry of its process' thread local storage there, and
`Thread::Stop` gives it back. The rooms touch the emulated machine only through
the frames of the emulated Wi-Fi service.

## The modules

| Module | Models | State and actions |
|---|---|---|
| `HandleTable` | `handle_table.{h,cpp}` | the four fields under their names; a handle is a record of slot, generation and bit 31; one action per method; `ret` is what the call returned. `MAX_COUNT`, `GEN_LIMIT` (2^15) and `SLOT_LIMIT` (2^16) are constants |
| `HandleMap` | what `handle_table.h` documents | an abstract map from open handles to objects |
| `MCHandleTable`, `HandleTableProofs` | | the instance, with a history of issued handles; proofs about both |
| `KernelObjects` | `wait_object.*`, `mutex.*`, `event.*`, `semaphore.*`, `timer.*`, the fields of `thread.h` | the kernel's state and the methods that run without being interrupted (ShouldWait, Acquire, UpdatePriority, ResumeFromWait, ...) |
| `KernelSync` | the system calls and callbacks on them (`svc.cpp`, `thread.cpp`, `address_arbiter.cpp`) | one action per call, per timing event and per round of a kernel loop |
| `MCKernelSync` | | instances: who may wait for what, priorities, cores, processes |
| `KernelSyncProofs`, `KernelThreadProofs` | | proofs: lists, mutexes, timers; wakeups, termination, priorities, arbiter, assertions |
| `ReadyPool` | what a reschedule promises | statuses and priorities only; the core goes to a best Ready thread |
| `ThreadQueueList` | `thread_queue_list.h` | the deques and the chain `first`/`next_nonempty` through the levels |
| `Scheduler` | `ThreadManager` in `thread.cpp` | calls that move threads, and Reschedule as the steps of its loops |
| `SchedulerProofs`, `MCScheduler` | | proofs; the instance |
| `CoreTiming` | `core_timing.{h,cpp}` | per core clock, slice, heap, `ts_queue`; scheduling from the core itself, another core, a host thread |
| `RunLoop`, `RunLoopProofs`, `MCRunLoop` | `System::RunLoop`, `Timing::Timer::Advance` | `pc` walks through the loops of RunLoop and Advance |
| `Sessions`, `SessionsProofs`, `MCSessions` | `client_port`, `server_port`, `client_session`, `server_session`, the IPC calls of `svc.cpp` | endpoints, their references, requests; one action per call and destructor |
| `VMManager` | `vm_manager.{h,cpp}`, the page table of `core/memory.cpp` | operators from address spaces to address spaces: carve, split, merge, map, unmap, protect |
| `MemoryRegion` | `MemoryRegionInfo` in `memory.{h,cpp}` | which frames an allocation takes |
| `PageMap` | what an address space promises | pages and their attributes, no areas |
| `ProcessMemory`, `ProcessMemoryProofs`, `MCProcessMemory` | memory in `process.cpp`, `shared_memory.cpp`, and the calls of `svc.cpp` and `ipc.cpp` on it | one action per call |
| `ENet` | the ENet library (external), from how `network/` uses it | peer slots, channels, connections that break |
| `Room` | `network/room.cpp` | one action per handler of ServerLoop; Create, Destroy |
| `RoomMember` | `network/room_member.cpp` | the caller's thread and the loop thread of each member |
| `Multiplayer`, `MultiplayerProofs`, `MCMultiplayer` | a room with its members | their composition; proofs; the instance with a host and a guest |

### KernelSync in more detail

* The kernel is sequential, but a system call contains loops that call back into
  the objects. The record `k` says where the kernel is: `k.pc` is `"user"`
  between calls and otherwise the loop it is in (`add`, `acquire`, `wake`,
  `remove`, `detach`, `release`, `terminate`, `priority`, `arbitrate`); each
  round of a loop is a step. Nothing else happens until the call is back in
  `"user"`, so properties that speak of the state between calls say
  `k.pc = "user"`.
* `failed` names the ASSERT that aborted the program. A run with `NoAssertFails`
  shows that none is reachable.
* `halted[c]` is the effect of `PrepareReschedule`: the core executes no more
  until `Reschedule`. `Executes(c, t)` says that core `c` runs its current
  thread; it does not look at the thread's status, and neither does `RunLoop`.
* `wake_events` and `timer_events` are the timing events pending in
  `CoreTiming`; which of them fires next is left open, as times are not
  modelled here. A wait has no timeout, a zero one, or a finite one.
* The order of the ready queue among equal priorities is left open (`Scheduler`
  has it). `thread_list` also stands for `wakeup_callback_table`, which has an
  entry for the same threads. `pending_mutexes` is derived from the waiting
  lists. The reordering that `stable_partition` does to the arbiter's list is
  left out, and so are the result registers.
* Integers of type `s32` wrap at `S32` (2^31 in the code).

### Scheduler in more detail

`PopNextReadyThread` walks the chain of levels, pops threads, puts those whose
`can_schedule` is false aside in `unscheduled_ready_threads`, and pushes them
back at the end. Each pop, skip and push is a step (`PopTakes`, `PopSkips`,
`PopEnds`, `Restore`), followed by `SwitchContext`. `cur` and `stop` are the two
pointers of `pop_first_better`; following a null one would take `cur` out of
the levels. Levels are numbers; a smaller one is more urgent.

### RunLoop in more detail

One iteration of `RunLoop` either catches up the core that is furthest behind
(phase `sync`) or aligns all of them (phase `align`). Both call `Advance`, which
moves `ts_queue` into the heap, settles the clock, fires what is due and sets
the next slice; every one of these is a step, as host threads may schedule
between them. `TicksRead` is what a host thread may read of a clock that is
changing at the same time. An event carries its origin, because what punctuality
can mean depends on it.

### Sessions in more detail

An endpoint exists (`client`, `server`) as long as something refers to it: a
handle, the port's pending list, an HLE handler, a waiting thread, the context
of a sleeping HLE request. When the last reference goes, its destructor is the
next thing that happens (`Quiet` holds back everything else). The wake loop of
an object (`waking`) is stepped like in `KernelSync`. Command buffers always
translate, and an HLE handler may answer at once or put its client to sleep.
A pair is used again when both its ends are gone. Threads stop at any time.

### ProcessMemory in more detail

* Addresses, sizes and counters are in pages. An area is a base with size,
  permissions, state and backing page; it is Free exactly when nothing backs it.
  `vma_map` is a function from bases, and iterators are bases. The loops
  (`ForEachVMA`, `GetBackingBlocksForRange`, `MapBlocks`, the intervals of `Blocks`,
  the releases of `Terminate`) are recursive functions of the number of rounds, and
  a round is an operator of its own (`VisitVMA`, `AddBlock`, `MapBlock`,
  `NextInterval`). An area that was merged into its predecessor is passed over,
  as in the code, which goes on behind the iterator that the merge returned.
* `free_blocks` is an interval set that joins what touches, so it is modelled by
  its set of frames, and its intervals by the runs of that set (`Blocks`).
* The process belongs to the BASE region, so that heap, thread local storage and
  memory block compete for the same frames. `Init` is a process before its image
  is loaded; the image is memory it never frees.
* One memory block exists at a time, and its creator is the one that maps it.
  Buffers come from clients whose own memory is not modelled.
* A call that returns an error and has changed nothing is a step not taken; one
  that fails after it has changed something (Unmap, CreateMemoryBlock) is one.
  An ASSERT that fails sets `failed` and ends the behaviour.
* `memory_used` wraps like the `u32` it is; `MaxUnderflow` bounds how far below
  zero the failing CreateMemoryBlock may take it.
* The areas of `memory.h` are constants. `LayoutAssumption` says that they are
  apart, as they are in a process made for a later kernel, and that the program
  maps aliases and memory blocks outside of its heaps: the code does not ask for
  that, and what happens otherwise is the TODO of `svc.cpp:483` (see the hazards).
* Left out: size 0, the privileged Map of a range onto itself (ldr:ro uses it
  inside the process image), CreateSharedMemory in a full region (it aborts).

### The rooms in more detail

* Each handler of `ServerLoop` runs in one thread and is one step; what it sends
  is appended to the channels in the order of its calls. A member's loop thread
  takes a step per iteration: one event, then the whole send list. The caller of
  `Join` or `Leave` (`api`) is a second thread with a step per call that blocks or
  can be overtaken. `thread[c] = "tested"` is a loop that has passed its test of
  `IsConnected` when `Leave` changes the state; other interleavings of the test
  change nothing. `SendJoinRequest` and `SendGameInfo` at the end of `Join` are
  one step.
* ENet: packets of one connection arrive in order and are lost only with the
  connection. It may break at any moment (`NetworkFault`); from then on each end
  receives what is left or its DISCONNECT event, in its own time. A new
  connection takes the first free peer of the server.
* A client's console id, address and forum user are constants. Names, addresses
  and packets are values without structure; text is dropped.
* `MaxCalls` bounds the calls from outside and the faults of a behaviour; what
  the threads do by themselves is not bounded.

## The runs

| Run | Instance | Distinct states | Shows |
|---|---|---|---|
| `handle_table` | 2 objects, 2 slots, generations below 4 | 1,754 | `FreeListOK`; `StaleHandlesRejected` through slot reuse, Clear and the wrap of the counter; `ImplementsHandleMap` |
| `kernel_signals` | 2 threads on 2 cores, a pulse event, a periodic timer, a semaphore at its limit, lists with a duplicate | 274,428 | `NoLostWakeup`, `OneTimerEvent`, `OneRunningThread`, `NoAssertFails` |
| `kernel_exit` | 3 threads of 2 processes (one created on the way, priorities changing), 2 mutexes, joins, a list that names a mutex twice, timeouts; threads exit, a process is terminated | 1,126,056 | `MutexOwnership`, `WaitingListsExact`, `NoLostWakeup`, `BoostUpToDate`, `DeadThreadsDetached`, `WaitersAreWaiting` |
| `kernel_liveness` | 2 threads, a mutex, an event, an arbitrated address | 95,208 | `ArbiterListExact`; `TimedWaitsEnd`, `KernelCallsEnd` under fairness |
| `scheduler` | 3 threads, 2 levels | 89,630 | `LevelsChained`, `QueuesExact`, `WalkAndSwitchSafe`, `ImplementsReadyPool`; `FairAmongEquals` under fairness |
| `run_loop` | 2 cores, one event at a time, slices of 3, delays 0 and 2, overshoot 1, horizon 8 | 920,573 | `Punctual`, `LagBounded`, `ClocksMonotonic` |
| `sessions` | 2 clients, 1 server, a port and a service, 2 pairs | 10,673 (up to symmetry) | `SlotsReturned`, `RequestsExact`, `NoLostRequest` |
| `memory` | 20 pages, a region of 3 frames, sizes 1 and 2, one block, one buffer, one thread, 6 calls | 49,279 | `VMAsExact`, `FramesExact`, `OnlyBuffersFail`; `ImplementsPageMap` |
| `rooms` | a host and a guest, 3 peers, 2 member slots, 2 addresses, 2 calls or faults | 306,775 | `MembersUnique`, `MembersConnected`, `NoAssertFails`, `ViewsAgree`; `GhostsRemoved` under fairness |
| `dead_thread_runs`, `room_not_found`, `leave_hangs` | | | counterexamples, see [findings](#findings) |

Every property of a passing run has a mutant: a definition of the model changed
the way a slip in the code would change it, for which TLC finds the property
violated. The mutants stand next to the definitions they change.

Why the bounds are enough for what they are for:

* `handle_table`: two slots are the least for a free list with order; a
  generation limit of 4 lets the counter wrap several times. The proofs cover
  the other sizes.
* `kernel_signals`: `S32 = 2` makes the additions of `Semaphore::Release` wrap
  with counts of -1 and 1. The event is Pulse and the timer OneShot; Sticky
  objects do less than either.
* `kernel_exit`: a holder, a waiter and a joiner. Three threads and two mutexes
  are the least for a boost that a third thread causes, for a waiter that needs a
  mutex another one holds, and for a release that has a choice. `MaxLock` = 1
  bounds recursive locking: the count goes up and down by one and nothing else
  depends on it. `CHECK_DEADLOCK FALSE`, since a
  program whose threads have all exited, or that terminated a process twice
  (which aborts by ASSERT), does stop. Threads do not wait for themselves in it:
  see the lines outside the model below (`thread.cpp:98`).
* `scheduler`: three threads make a queue whose middle element is removed; two
  levels make every case of `link` but the insertion between two others, which the
  proof covers (the safety properties were also checked with three levels).
* `run_loop`: the bounds that `Punctual` and `LagBounded` state are formulas in
  the constants, and are tight: with one less TLC finds them exceeded. Three
  cores and two events were also checked. `CHECK_DEADLOCK FALSE`: at `Horizon`
  the emulation is shut down.
* `sessions`: two clients compete for slots and for a session's single
  `currently_handling`; with two pairs a slot is reused while the other is in
  any state. `max_sessions` = 2 with 2 pairs lets the port be full.
  `CHECK_DEADLOCK FALSE`: all threads may have stopped.
* `memory`: three frames and heap pages are the least for an allocation in two
  pieces and for an area with two neighbours; in an address space of 20 pages
  every area of `memory.h` lies next to another. Six calls (`MaxCalls`) are enough for an
  alias of memory that came in two pieces to be made, protected and removed,
  and for every action; the mutants fall in at most five.
  `CHECK_DEADLOCK FALSE`: the calls run out.
* `rooms`: the host is in the room when the guest calls Join, a state that `Init`
  reaches; the proofs start from `Init`. Two calls or faults let the guest leave
  and join again while its old connection is still in a slot, be kicked or
  banned while it leaves, or lose its connection between request and answer.
  Three peers leave one free for the new connection. The host does not rejoin.
  `CHECK_DEADLOCK FALSE`: everyone may have left.

## Fairness

* `KernelSync!FairSpec`: weak fairness of `KernelLoop`, because a kernel call is
  host code that runs to its end; strong fairness of `ThreadWakeupCallback(t)`,
  because `RunLoop` calls `Advance` in every iteration and `Advance` fires
  every event whose time has come before it returns, so that a pending wakeup
  cannot be passed over for ever although other events and calls keep coming in
  between. Nothing is assumed of the emulated program: it may never make
  another call. `TimedWaitsEnd` and `KernelCallsEnd` use both.
* `Scheduler!FairSpec`: weak fairness of `RescheduleStep` (a reschedule begins
  and its steps go on), because `RunLoop` reschedules each core in every
  iteration. `FairAmongEquals` says that a thread that stays Ready, schedulable,
  at the best priority and not moved to the back of its level by `SetPriority`
  gets the core, provided that no thread keeps it for ever.
* `Multiplayer!ServerFairness`: weak fairness of the server's events, because
  `ServerLoop` services ENet until the room is closed. `GhostsRemoved` needs
  nothing else: no client has to run. `MemberFairness` adds that each loop thread
  and a caller inside Join or Leave goes on; `leave_hangs` assumes it, so that its
  counterexample is not a thread that merely stopped.
* `HandleTable`, `RunLoop`, `Sessions` and `ProcessMemory` are checked for safety
  only.

## Findings

1. `dead_thread_runs`. `TerminateProcessThreads` (`thread.cpp:206`) stops the
   current thread of another core, but `PrepareReschedule` flags only the
   running core. `RunLoop` runs the other core with the dead thread as its
   current thread, and its next wait makes it live again. `thread.h:258` says
   Stop invalidates a thread "from further use".
2. `room_not_found`. `MapBackingMemoryToBase` (`vm_manager.cpp:90`) takes the first
   Free area whose end lies at least `size` behind the base of the region, not the
   first in which `size` pages fit. Three buffers one behind the other, the middle
   one unmapped: a larger one is tried in the hole and fails, although there is
   room behind the third, and `ipc.cpp:213` unwraps the error. `vm_manager.h:126`
   says that memory is mapped "at the first free address after the given base".
   The instance has room for four buffers and buffers of two sizes.
3. `leave_hangs`. `RoomMember::Leave` (`room_member.cpp:682`) sets the state to Idle
   and waits for the loop thread. If that thread has just passed its test of the
   state and receives JoinSuccess, it sets the state to Joined (`:190`) and goes
   on, and Leave waits as long as the room exists. `room_member.h:269` says
   "Leaves the current room."

Four more disagreements were met and stand among the hazards of
`PROJECT.json`, as the lines show them without a run: a boost that stops after
one mutex (`thread.cpp:409`), a thread terminated in an arbitration that stays on
the arbiter's list (`address_arbiter.cpp:35`), a second server thread that is
not woken for a pending request (`svc.cpp:935`), and areas that stay apart.
`ReprotectRange` (`vm_manager.cpp:226`) and `ChangeMemoryState` (`:166`) continue
behind the area that the last merge returned; when the first area of the range has
been merged with the second, the second's border with what follows is never
tried. Three pages of one piece: protect the first read-only, then the first two
read-write again, and the third stays an area of its own, although
`vm_manager.h:107` says that "no two similar and adjacent regions exist that have
not been merged". `memory` and the theorems about it show what this does not
cost: no two Free areas stay apart, and the page map is right.

## The proofs

`HandleTableProofs` (assumption `HandleConstants`: positive widths, fewer slots
than slot numbers), for every table size and generation width:

* `TypeCorrect` and `FreeListCorrect`, `Spec => []TypeOK` and `Spec => []FreeListOK`.
  The invariant is their conjunction: `FreeListOK` says that a sequence of
  distinct empty slots exists along which `generations` points, from
  `next_free_slot` to `MAX_COUNT`, and that it has all of them. Create takes its
  head, Close puts one in front, which needs that there is room
  (`RoomForOneMore`, a cardinality argument), Clear builds it anew.
* `TableRefinesMap`, `Spec => ImplementsHandleMap`. `GenerationsOK` adds that an
  occupied slot has a generation Create could have given it. The map is full
  exactly when no slot is free, as the open handles and the occupied slots are in
  one-to-one correspondence.
* `StaleHandlesAreRejected`, `HistSpec => []StaleHandlesRejected`, for the table
  with a history of the last `GEN_LIMIT - 1` handles it issued. `HistoryOK` says
  that the i-th last of them has the i-th last generation, so that a slot which
  is used again gets a generation none of them has.

`KernelSyncProofs` (assumptions `KernelConstants`, `CallConstants`) proves
`KernelTypes`, `MutexesOwned`, `WaitingListsAreExact` and `TimersHaveOneEvent` for
any number of threads, objects, cores and processes, whatever they call and
whoever is terminated when. None of the properties is inductive, since each
round of a loop of the kernel is a step and the lists are wrong in between.
The inductive invariant `Inv` is:

| Part | Says | Needed for |
|---|---|---|
| `TypeOK` | ranges | everything |
| `ControlOK` | which fields of `k` are set in which loop | where a loop returns to |
| `CoresOK`, `RunningOK` | whose thread a core has, and what it may be | the caller of a system call does not sleep |
| `SubjectOK` | the status of the thread a loop is about | who is added, woken, stopped |
| `SleepersOK` | only sleepers, and the thread being stopped, have wait objects | a new wait starts from nothing |
| `ListsUnique`, `ListsOK` | lists and wait objects agree, but for what the loop has not reached | `WaitingListsExact` |
| `MutexesOK` | the three copies of ownership agree, but for what ReleaseThreadMutexes has still to do | `MutexOwnership` |
| `TimersOK` | the timer whose waiters are woken has no event | `OneTimerEvent` |

`KernelThreadProofs` builds on it. Each theorem adds a part that is inductive
relative to `Inv`, and an assumption where the code needs one:

| Theorem | Part | Assumption | Without it |
|---|---|---|---|
| `WakeupsAreNotLost` | `WakeupsOK`: sleepers are blocked, where the object being woken counts as unavailable | | |
| `OneThreadRuns`, `DeadAreDetached`, `BoostsAreUpToDate`, `DeadForGood` | `LocalOK`: the kernel runs on the core of the threads it stops; a core executes a Running thread or the one it stops; what the living and the dead own; boosts | `SameCore`: a process is only terminated from the core of its threads (or nobody is, and threads use ExitThread) | finding 1: the dead thread goes on and takes mutexes and waits |
| `WaitersWait` | `AskedOK`: a thread waits for what it asked for | `NoSelfWait` | a thread that waits for itself is Dead on its own list (`thread.cpp:98`) |
| `ArbiterListIsExact` | `ArbiterOK`: list, statuses, callbacks and pending wakeups agree | `NobodyTerminated` | Stop leaves a thread on the arbiter's list (`address_arbiter.cpp:35`) |
| `AssertsNeverFail` | `TakingOK`: what the acquire loop has still to take is there | `NobodyTerminated`, `NoSelfWait`, `NoRepeatedSignals` | a process terminated twice, and a OneShot event named twice in one wait, run into an ASSERT |

The assumptions are conditions on the emulated program, not on the emulator;
the instances that check a property satisfy the assumptions of its theorem.

`SessionsProofs` (assumption `SessionConstants`), for any number of threads, ports
and pairs:

* `RequestsAreExact`, without further assumptions. `Inv` is `RequestsExact` with
  types, `EndsOK` (references are to endpoints that exist, a pending session
  is one of the port it is pending at) and `SleepersOK` (only servers wait for
  objects; a scheduled wakeup is of a thread whose request is answered).
* `SlotsAreReturned`, when the pairs are finitely many. `CountOK`: a port counts
  exactly its server endpoints, also while destructors are due; between calls
  these are the sessions somebody can still use.
* `RequestsAreNotLost`, when one thread serves (`OneServer`): `WaitersOK` says that a
  sleeper is blocked by all it waits for but the object whose wake loop is
  running. With two servers it is false (see [findings](#findings)).

`SchedulerProofs` (assumption `LevelsAssumption`: there is a level), for every
set of threads and number of levels. The inductive invariant `Inv` is:

| Part | Says | Needed for |
|---|---|---|
| `TypeOK` | ranges | everything |
| `LevelsChained` | the chain visits exactly the prepared levels, ascending | the walk |
| `QueuesExact` | Ready threads, each once, on the level of their priority, but for those put aside or chosen | the choice |
| `Prepared` | the level of a created thread's priority is linked | `pop_first_better`'s stop is on the chain |
| `OneRunning` | at most the current thread is Running | SwitchContext |
| `AsideExact` | what is put aside is Ready and not schedulable | nobody is lost |
| `WalkExact` | where the walk's pointers are, and that the levels before them hold no candidate | the choice is best |
| `ChoiceBest` | the choice is one the pool allows | the refinement |

`AlwaysInv` is `Spec => []Inv`. From it `QueueCorrect`, `ChainCorrect` and
`WalkCorrect` follow for the three invariants the run checks, and
`QueueRefinesPool` for the refinement of `ReadyPool`: the steps of the walk
stutter, `SwitchContext` is the abstract reschedule, the calls are the abstract
calls. There is one lemma for each action, and below them lemmas on deques
(what append, front, back and removal do to who is in them) and on `prepare`.

`RunLoopProofs` (assumptions `TimingConstants` and `LoopConstants`: there is a
core, slices are positive, delays are natural numbers) proves
`ClockCorrect`, `Spec => ClocksMonotonic`. A clock is read from `executed_ticks`,
`slice_length`, `downcount` and `is_timer_sane`, which change separately, so the
property needs to know where the loop is: slices are not negative and no core has
run less than nothing of its slice (`SlicesSound`); the current timer is the one
of the core the loop is at (`AtCore`), so that a callback cuts no other core's
slice; between Advance's settling and return the slice is empty (`Settled`); and a
core is given a slice only when it lags or when it was advanced and has not run
since, with nothing due on its heap (`SlicesDue`), which is why replacing the
slice moves no clock and why a slice is never negative. `SliceAfterAdvance` is the
lemma behind it: once nothing is due, the slice up to the next event is positive.

Two more invariants are inductive relative to that one. `CoresStayTogether`,
`Spec => []LagBounded`, for any number of cores: the bound on how far a core may
fall behind has one overshoot for each core that is ahead, so `LagInv` counts them.
`Near(t, y, S)` says that the time y is ahead of no core by more than a slice, the
tolerated lag and an overshoot for each core of S in between (`Span`); every pair
of cores is `Near`, the core that catches up and those that have run in this round
are `Near` the time they aimed at (`CatchUpOK`, `RoundOK`), and a core that
overruns its slice is one more to count. `EventsArePunctual`, `Spec => []Punctual`:
`TimeInv` says that the heap of a core holds nothing due within its slice, but for
the time between the move of `ts_queue` into the heap and the return of Advance
(`HeapFits`, `HeapMoved`, `HeapLate`), and what waits in `ts_queue` was computed from
a clock that was not far behind (`TsAfter`), where the distance of clocks comes
from `LagInv`.

`ProcessMemoryProofs` (assumptions `SpaceAssumption`, `MemoryAssumption` and
`LayoutAssumption`), for any address space, region, areas, sizes, permissions and
numbers of calls, buffers and threads:

* `AddressSpaceExact`, `Spec => []VMAsExact`. The invariant `MemInv` says of an address
  space that its areas follow each other without a gap (`Tiles`), that no two Free
  ones are left apart (`FreesMerged`) and that the page table agrees with the areas
  (`Matches`); of frames, threads, block and buffers only what their operands need.
  Split, join, merge and carve are lemmas on functions; between a split and the
  merge that follows, Free areas are merged with the exception of one
  (`MergedBut`). A loop is a recursive function: that the function exists and that
  every round keeps the loop's invariant is proved by induction on the number of
  rounds, through the set of the numbers for which it holds (`SetInduction`).
  `FreesMerged` for all areas instead of the Free ones would be false
  ([findings](#findings)).
* `FramesStayExact`, `Spec => []FramesExact`. `FrameInv` says which page may hold which
  frame (`Owned`: own memory lies in heap, linear heap or thread local storage, is
  held, and no frame is at two pages; a linear page holds its own frame), that every
  frame has one holder (`Divided`), that `used`, the committed memory and the pages
  of thread local storage are counts of frames (`CountsInv`) and what is behind a
  memory block (`BlockFrames`). Below it are lemmas that say, page by page, what each
  operation of VMManager does to state and memory (`MapPages`, `MappedWhere`,
  `UnmapPages`, `ChangePages`), that the intervals of a set of frames hold each of them
  once (`BlocksExact`) and that the blocks of a range are what its pages hold
  (`BackingBlocksExact`).
* `MemoryTyped`, `Spec => []TypeOK`, with `WordsInv` for the counters.
* `ProgramFailsNoAssert`, `Spec => OnlyBuffersFail`. Pages that are not backed lie in
  one Free area, because no two of these meet (`FreeIsCarved`), so mapping blocks one
  behind the other in a range that was free succeeds (`MapBlocksDone`), and the pages
  of free frames are free in the linear heap (`FreeFramesUnmapped`).
* `PagesKeepMemory`: of the refinement of `PageMap`, the part about memory. Every step
  but the end of a process satisfies `SameMemory` of `PageMap` (a page that stays
  mapped keeps its memory), and `Change` says of none that it both gains and loses
  pages, also when a call fails half way. A page table grows or shrinks (`Grows`):
  what is mapped was carved from a Free area (`MapGrows`, `BlocksGrow`), and
  `UnmapRange` maps nothing (`UnmapShrinks`).

`MultiplayerProofs` (assumptions `PeersAssumption`: peers are numbers, and no
client or peer is `None` or `Lost`; `RoomAssumption`; `PacketsAssumption`: a
RoomMember's requests carry its own console id) proves `RoomMembersUnique` and
`RoomMembersConnected`, `Spec => []MembersUnique` and `Spec => []MembersConnected`,
for any number of clients, peers, slots and calls. The two invariants are not
inductive: that two members never share a peer follows from no check of the
handler, but from the console id, which is checked, because every request that
waits in the `send_list` of a client or in the channel of a peer names the console
of that client. The inductive invariant `IInv` is `Channels` (types of slots and
links), `Senders` (that fact about requests) and `Listed` (the members are
finitely many, unique, and each is on a peer in use by its console). There is one
lemma for each action, and lemmas for what sending, flushing, connecting and
disconnecting do to channels and slots.

On top of it stand `RoomTypes`, `JoinSuccessIsExpected` and `PicturesAgree`,
`Spec => []TypeOK`, `Spec => []NoAssertFails` and `Spec => []ViewsAgree`. What a
client shows is the room's list only when nothing is on its way any more, so the
invariant, `Pictures`, is about the packets in `down`, and is inductive relative to
`IInv`:

| Part | What it says | Why it is needed |
|---|---|---|
| `MemberTypes` | types of the clients' fields and of the packets to them | a room information carries records of members |
| `ConnectingOK` | a `Join` that connects is in state Joining and has no loop thread | a new connection starts outside the room, with an empty channel |
| `SuccessesOK` | right before a JoinSuccess comes, or came, a room information with the client's address | the assertion, and `ViewsAgree` the moment the client enters |
| `PicturesOK` | for a client in the room or about to be: the last room information on its way is the room's list, or none is and the list shown is | every change of the list is followed by a broadcast of it, and packets to one client keep their order |
| `AdmittedOK` | a client in the room, or about to be, is a member with its address | who is removed is disconnected; no member's address changes |

The step proofs are about one client at a time (`PictureOK`): an operation of the
room appends the same kind of packets to every channel, whatever it does to the
list, and a step of a client leaves the others alone (`OthersStay`). The theorems
start from `Init`, the run from the hosted room that `Init` reaches.

Only model-checked: liveness (`TimedWaitsEnd`, `KernelCallsEnd`,
`FairAmongEquals`, `GhostsRemoved`), which is out of the prover's reach,
and `ImplementsPageMap`, but for the part that `PagesKeepMemory` proves: it also speaks
of permissions, while the lemmas on pages are about states and memory. That no ASSERT fails at all is not stated of
`ProcessMemory`, as a buffer of a client fails where finding 2 or a full area of
IPC leaves it no room; `OnlyBuffersFail` is what holds in every instance.

## What is not modelled

* Resource limits other than committed memory, process loading.
* Memory blocks of applets, special mappings, block copies and the pages that
  the rasterizer caches.
* The translation of command buffers (`ipc.cpp`, `hle_ipc.cpp`), but for mapped
  buffers, and the fifty or so HLE services: request handlers over emulated
  memory.
* Event order within one tick (`fifo_order`), clock scaling, `RemoveEvent`.
* Serialization of every component, and the save, load and reset signals of
  `System`.
* ARM, GPU and DSP emulation, loaders, file systems, cryptography: numeric code
  and byte layouts, where a model would repeat the program.
* Frontends, input, HTTP clients: input and output.
* The host-side queues and worker pools; the frontend's callbacks on a room, its
  announcement on the web, the encoding of packets.

Lines met on the way that no model covers and that a reader of the code should
know of: `handle_table.cpp:21` (a 17-bit slot returned in 16 bits), `thread.cpp:98`
(a thread that waits for itself), `timer.cpp:96` (a periodic timer of interval
zero), `hle_ipc.cpp:190` (a descriptor word compared with `MoveHandle`),
`core_timing.cpp:120` (`ts_queue` is not searched), `svc.cpp:1993` (areas are
visited while they merge), `lime_qt/multiplayer/state.cpp:225` (`Leave` without a
loop thread).

## Plan

Done, in this order: `HandleTable` with its map and proofs; `KernelObjects` and
`KernelSync` with proofs; `ThreadQueueList` and `Scheduler` over `ReadyPool` with
proofs; `CoreTiming` and `RunLoop` with proofs; `Sessions` with proofs; `VMManager`,
`MemoryRegion` and `ProcessMemory` over `PageMap` with proofs; `Room`, `RoomMember` and
`Multiplayer` with proofs.

Next, the models:

1. `ResourceLimit`: Reserve and Release around creations that fail half-way
   (`svc.cpp:1203`) and destructors.
2. Timeouts on top of `CoreTiming`: a wakeup that a host thread (`RunAsync`) puts
   into `ts_queue` and `UnscheduleEvent` does not see, against `Thread::Stop`
   and later waits (`core_timing.cpp:120`, `hle_ipc.h:310`).
3. The bounded queue and the worker pool against an abstract queue.
4. Save and load signals against a running loop.

Next, the theorems: `ImplementsPageMap`, from lemmas on permissions next to those on
states and memory.
