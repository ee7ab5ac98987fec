CONSTANTS
    NumCores = 2
    Thread = {}
    Masks = {{0, 1}}
    TickMod = 2
    ClockDivd = 1
    Sem = {s1}
    MaxCount = 1
SPECIFICATION SemaphoreFairSpec
PROPERTY WokenRuns
