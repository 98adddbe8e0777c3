SPECIFICATION Spec
CONSTANTS
    MaxCalls = 2
    MaxRetries = 1
    Kinds <- EveryKind
INVARIANTS
    ExclusiveAlone
    OutputsInOrder
    AbortedIsFinal
    NothingLeaks
    RetryBudget
CHECK_DEADLOCK FALSE
