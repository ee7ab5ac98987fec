CONSTANTS
    NumCores = 2
    Thread = {t1}
    Masks = {{0}, {0, 1}}
    TickMod = 2
    ClockDivd = 1
SPECIFICATION ThreadSpec
INVARIANT NoWaiterLeft
