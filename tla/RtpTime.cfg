SPECIFICATION Spec
CONSTANTS
    W = 8
    Second = 10
    Rate = 3
    MaxStep = 3
    MaxLate = 1
    MaxTime = 24
INVARIANTS
    UnwrapExact
    NoDrift
    OffByWraps
CHECK_DEADLOCK FALSE
