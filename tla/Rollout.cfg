SPECIFICATION FairSpec
CONSTANTS
    loop = loop
    turn = turn
    nobody = nobody
    Senders <- MCSenders
    Loop = loop
    Nobody = nobody
    Capacity = 2
    MaxItems = 3
    MaxTears = 1
    MaxProcesses = 3
INVARIANTS
    FlushedIsWritten
    OneLossPerTear
PROPERTIES
    LogSpec
    CallsReturn
CHECK_DEADLOCK FALSE
