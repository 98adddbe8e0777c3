SPECIFICATION FairSpec
CONSTANTS
    s1 = s1
    s2 = s2
    w1 = w1
    w2 = w2
    NoOne = NoOne
    Subscribers <- TwoSubscribers
    Waiters <- TwoWaiters
INVARIANTS
    GateHoldsCallsBack
    NoTokenOnceReady
PROPERTIES
    GateSpec
    AttachedCallsPass
\* Every actor comes to an end.
CHECK_DEADLOCK FALSE
