SPECIFICATION Spec
CONSTANTS
    MaxSubs = 2
    MaxRounds = 1
    Kinds <- AllKinds
    Contended = TRUE
INVARIANTS
    IdleMeansQuiet
    MarkerDurableBeforeAborted
    StrayIsCancelled
PROPERTIES
    FinishClearsOwnTurn
    SlotSpec
VIEW EndsOnly
\* The client may stop submitting, and the session ends after a shutdown.
CHECK_DEADLOCK FALSE
