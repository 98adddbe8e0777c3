SPECIFICATION CancelSpec
CONSTANTS
    MaxCalls = 2
    MaxRetries = 0
    Kinds <- ThreeKinds
PROPERTIES
    CancelEnds
    ApprovalSettles
CHECK_DEADLOCK FALSE
