SPECIFICATION Spec
CONSTANTS
    Stream = {s1, s2}
    Layouts <- MCLayouts
    Plays = {p1}
    NoStream = NoStream
    Offers <- MCOffers
    DefaultType = 102
    MaxChanges = 4
    Host = {h1, h2}
    Counter = {c1, c2}
    Timeout = 1
    MaxTime = 7
    MaxSlices = 2
    Window = 2
INVARIANTS TracksFit LowestPayload HlsCount NoHiddenBframe
PROPERTIES PlayDelivers SendersStop LostPeerLeaves WholePicture
CHECK_DEADLOCK FALSE
