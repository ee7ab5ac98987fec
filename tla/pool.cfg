CONSTANTS
    NumThreads = 6
    NumWorkers = 3
SPECIFICATION PoolFairSpec
INVARIANTS
    PoolMutex
    WorkOnce
    JoinedLast
PROPERTY PoolEnds
CHECK_DEADLOCK FALSE
