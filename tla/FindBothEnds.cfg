SPECIFICATION Spec
CONSTANTS
    MaxSubs = 1
    MaxRounds = 1
    Kinds <- OnlyInput
    Contended = FALSE
INVARIANTS
    AbortedOrComplete
\* The client may stop submitting, and the session ends after a shutdown.
CHECK_DEADLOCK FALSE
