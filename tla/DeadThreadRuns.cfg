CONSTANTS
  t1 = t1
  t2 = t2
  t3 = t3
  m1 = m1
  m2 = m2
  e1 = e1
  e2 = e2
  s1 = s1
  tm1 = tm1
  p1 = p1
  p2 = p2
  None = None
  a1 = a1
  Threads = {t1, t2}
  Mutexes = {}
  Events = {e1}
  Semaphores = {}
  Timers = {}
  Cores = {0, 1}
  CoreOf <- TwoCores
  Processes = {p1, p2}
  OwnerOf <- TwoProcesses
  ResetType <- OneShotEvents
  MaxCount <- OneUnit
  ThreadPrioLowest = 2
  Addresses = {}
  S32 = 4
  WaitTargets <- NotItself
  WaitLists <- NoLists
  Timeouts = {"timed"}
  ReleaseCounts = {}
  NewPriorities = {}
  MemoryValues = {}
  Terminated = {p1}
  MaxLock = 1
  InitialThreads = {t1, t2}
  InitialPriority <- DistinctPriorities
SPECIFICATION Spec
PROPERTIES
  DeadStaysDead
CHECK_DEADLOCK FALSE
