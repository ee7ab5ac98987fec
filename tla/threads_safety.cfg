CONSTANTS
    NumCores = 2
    Thread = {t1, t2}
    Masks = {{0, 1}}
    TickMod = 2
    ClockDivd = 1
SPECIFICATION ThreadSpec
SYMMETRY ThreadSymmetry
INVARIANTS
    NextNeverNull
    WaitMutex
    NoLostThread
    SleepersApart
    ZombieGone
    LiveExact
    NoSpinCycle
