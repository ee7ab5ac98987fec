CONSTANTS
    Core = {c1, c2}
    HeapSize = 8
    ProcessSize = 1
    StackSize = 2
    UserSize = 1
    PidMod = 4
    TextLength = 2
SPECIFICATION NewlibFairSpec
INVARIANTS
    BlocksApart
    PidsApart
PROPERTIES
    OutputWhole
    CallEnds
CHECK_DEADLOCK FALSE
