SPECIFICATION Spec
CONSTANTS
    MaxNumber = 3
    MaxTurns = 2
    MaxRollback = 2
    MaxProcesses = 2
    MaxTokens = 3
INVARIANTS
    TypeOK
    ReplayIsHistory
    ForkKeepsTurnsBefore
PROPERTY
    UserWordsKept
CHECK_DEADLOCK FALSE
