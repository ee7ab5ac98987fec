CONSTANT NumCores = 4
SPECIFICATION BootFairSpec
INVARIANTS
    NoInterruptLost
    SetUpFirst
    NewlibMutex
PROPERTY AllStart
CHECK_DEADLOCK FALSE
