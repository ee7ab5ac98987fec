CONSTANTS
    Core = {c1, c2}
    MaxPid = 3
    Buckets = 1
    Mortal = {1, 2, 3}
SPECIFICATION TableSpec
SYMMETRY CoreSymmetry
INVARIANTS
    TableTypeOK
    ListsRight
    NeverNull
PROPERTIES
    OneAtATime
    LiveFound
CHECK_DEADLOCK FALSE
