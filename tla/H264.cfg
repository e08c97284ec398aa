SPECIFICATION Spec
CONSTANTS
    NUnits = 3
    NFrags = 3
    NetCap = 2
    MaxKept = 3
INVARIANTS
    InOrderExact
    Resync
    Framed
CHECK_DEADLOCK FALSE
