SPECIFICATION FairSpec
CONSTANTS
    MaxRequests = 4
    Kinds <- EveryKind
INVARIANTS
    TypeOK
    AnsweredOrPending
    RollbackMatches
PROPERTIES
    RollbackAnswered
    InterruptAnswered
\* The client may stop asking.
CHECK_DEADLOCK FALSE
