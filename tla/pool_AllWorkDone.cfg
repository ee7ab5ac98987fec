CONSTANTS
    NumThreads = 3
    NumWorkers = 2
SPECIFICATION PoolSpec
INVARIANT AllWorkDone
CHECK_DEADLOCK FALSE
