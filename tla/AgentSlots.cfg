SPECIFICATION FairSpec
CONSTANTS
    c1 = c1
    c2 = c2
    c3 = c3
    Calls <- ThreeCalls
    Limit = 1
INVARIANTS
    CountIsSlots
    FoundHasSlot
PROPERTIES
    PoolSpec
    ClosedIsReleased
\* Every call comes to an end.
CHECK_DEADLOCK FALSE
