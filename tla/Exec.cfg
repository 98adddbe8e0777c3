SPECIFICATION Spec
CONSTANTS
    i1 = i1
    i2 = i2
    i3 = i3
    none = none
    NoId = none
    Ids <- ThreeIds
    MaxCalls = 4
    MaxTurns = 2
    Limit = 2
    Protected = 1
SYMMETRY IdSymmetry
INVARIANTS
    WithinLimit
    EndedOnce
    RunningIsFound
    EndIsComing
PROPERTY
    PrunedIsOld
\* Every turn comes to an end.
CHECK_DEADLOCK FALSE
