SPECIFICATION FairSpec
CONSTANTS
    Client = {c1}
    ChCap = 1
    SockCap = 1
    MaxVersion = 5
PROPERTY OverflowReconnects
CHECK_DEADLOCK FALSE
