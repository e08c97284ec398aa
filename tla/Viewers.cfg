SPECIFICATION ViewFairSpec
CONSTANTS
    Session = {s1, s2}
    Viewer = {v1}
    None = None
INVARIANTS
    OwnerInFlight
    LiveStreamHasHls
    EndedQueuesClosed
    NoStrandedViewer
    ViewerCount
PROPERTIES
    ImplementsSlot
    ClosedSessionEnds
    HlsReleased
    ViewersDrain
CHECK_DEADLOCK FALSE
