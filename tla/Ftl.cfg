SPECIFICATION FairSpec
CONSTANTS
    Conn = {c1, c2}
    Addr = {1, 2}
    Ssrc = {0, 1}
    Media = {"Video"}
    RchCap = 1
    None = None
INVARIANTS
    RoutesInFlight
    NewestKeepsRoute
    PacketsFromSender
PROPERTIES
    UnauthDropped
    EndTogether
CHECK_DEADLOCK FALSE
