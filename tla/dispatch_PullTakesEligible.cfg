CONSTANTS
    NumCores = 2
    Thread = {t1}
    Masks = {{}, {0}, {1}, {0, 1}}
    TickMod = 3
    ClockDivd = 2
SPECIFICATION Spec
INVARIANT PullTakesEligible
