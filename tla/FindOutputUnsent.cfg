SPECIFICATION Spec
CONSTANTS
    MaxCalls = 2
    MaxRetries = 1
    Kinds <- OnlyParallel
INVARIANTS
    OutputReachesModel
CHECK_DEADLOCK FALSE
