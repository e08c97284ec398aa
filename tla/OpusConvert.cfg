SPECIFICATION OpusFairSpec
CONSTANTS
    NAudio = 4
    Cap = 1
    MaxPcm = 3
    ChunkLen = 2
INVARIANTS
    NothingLost
PROPERTY ConvertReturns
CHECK_DEADLOCK FALSE
