SPECIFICATION FairSpec
CONSTANTS
    t1 = t1
    t2 = t2
    t3 = t3
    None = None
    Threads <- ThreeThreads
    NUM_LEVELS = 2
INVARIANT LevelsChained
INVARIANT QueuesExact
INVARIANT WalkAndSwitchSafe
PROPERTY ImplementsReadyPool
PROPERTY FairAmongEquals
