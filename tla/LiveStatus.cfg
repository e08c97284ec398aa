SPECIFICATION StatusFairSpec
CONSTANTS
    Session = {s1, s2}
    None = None
INVARIANTS
    NoNewsAfterStop
PROPERTY StatusConverges
CHECK_DEADLOCK FALSE
