CONSTANTS
    NumCores = 2
    Thread = {t1}
    Masks = {{0, 1}}
    TickMod = 2
    ClockDivd = 1
    Sem = {s1}
    MaxCount = 1
SPECIFICATION SemaphoreSpec
INVARIANTS
    NoSleeperWithToken
    SemMutex
    NoLostSleeper
    SemSleepersApart
PROPERTY Atomic
