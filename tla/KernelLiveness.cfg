CONSTANTS
  t1 = t1
  t2 = t2
  t3 = t3
  m1 = m1
  m2 = m2
  e1 = e1
  e2 = e2
  s1 = s1
  tm1 = tm1
  p1 = p1
  p2 = p2
  None = None
  a1 = a1
  Threads = {t1, t2}
  Mutexes = {m1}
  Events = {e1}
  Semaphores = {}
  Timers = {}
  Cores = {0}
  CoreOf <- OneCore
  Processes = {p1}
  OwnerOf <- OneProcess
  ResetType <- OneShotEvents
  MaxCount <- OneUnit
  ThreadPrioLowest = 2
  Addresses = {a1}
  S32 = 2
  WaitTargets <- NotItself
  WaitLists <- MutexAndEvent
  Timeouts = {"timed"}
  ReleaseCounts = {}
  NewPriorities = {}
  MemoryValues <- WordValues
  Terminated = {}
  MaxLock = 1
  InitialThreads = {t1, t2}
  InitialPriority <- DistinctPriorities
SPECIFICATION FairSpec
INVARIANTS
  ArbiterListExact
PROPERTIES
  TimedWaitsEnd
  KernelCallsEnd
