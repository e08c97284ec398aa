SPECIFICATION FairClientSpec
CONSTANTS
    Client = {c1}
    ChCap = 2
    SockCap = 1
    MaxVersion = 6
INVARIANTS
    NoSendOnClosed
    Gapless
    UpToDate
PROPERTIES
    LeaverUnregistered
    OverflowReconnects
CHECK_DEADLOCK FALSE
