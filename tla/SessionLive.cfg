SPECIFICATION LoopSpec
CONSTANTS
    MaxSubs = 2
    MaxRounds = 0
    Kinds <- InputAndReviews
    Contended = TRUE
PROPERTIES
    AbortReported
    EveryTurnEnds
VIEW EndsOnly
\* The client may stop submitting, and the session ends after a shutdown.
CHECK_DEADLOCK FALSE
