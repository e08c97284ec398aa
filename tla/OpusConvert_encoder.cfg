SPECIFICATION OpusFairSpec
CONSTANTS
    NAudio = 4
    Cap = 1
    MaxPcm = 3
    ChunkLen = 2
PROPERTY StoppedAndWaited
CHECK_DEADLOCK FALSE
