CONSTANTS
  t1 = t1
  t2 = t2
  t3 = t3
  m1 = m1
  m2 = m2
  e1 = e1
  e2 = e2
  s1 = s1
  tm1 = tm1
  p1 = p1
  p2 = p2
  None = None
  a1 = a1
  Threads = {t1, t2, t3}
  Mutexes = {m1, m2}
  Events = {}
  Semaphores = {}
  Timers = {}
  Cores = {0}
  CoreOf <- OneCore
  Processes = {p1, p2}
  OwnerOf <- TwoProcesses
  ResetType <- OneShotEvents
  MaxCount <- OneUnit
  ThreadPrioLowest = 2
  Addresses = {}
  S32 = 4
  WaitTargets <- NotItself
  WaitLists <- JoinLists
  Timeouts = {"timed"}
  ReleaseCounts = {}
  NewPriorities = {2}
  MemoryValues = {}
  Terminated = {p1}
  MaxLock = 1
  InitialThreads = {t1, t3}
  InitialPriority <- DistinctPriorities
SPECIFICATION Spec
INVARIANTS
  MutexOwnership
  WaitingListsExact
  DeadThreadsDetached
  WaitersAreWaiting
  NoLostWakeup
  BoostUpToDate
CHECK_DEADLOCK FALSE
