\* One tier of two chunks of two fragments; the connection may break at any time.
SPECIFICATION FairSpec
CONSTANTS
    N = 2
    MaxM = 1
    DefaultM = 1
    NumTiers = 1
    NumChunks <- TwoChunksEach
    GenM <- AllMax
    Threshold = 2
    LinkMayBreak = TRUE
    UdpMayFail = FALSE
PROPERTIES SenderEnds ReceiverConcludes
CHECK_DEADLOCK FALSE
