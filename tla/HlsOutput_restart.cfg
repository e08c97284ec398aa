SPECIFICATION HlsSpec
CONSTANTS
    Session = {s1, s2}
    None = None
INVARIANT DiscontinuitySeparates
CHECK_DEADLOCK FALSE
