\* Two tiers of one chunk of two fragments; UDP loses, repeats, reorders, and may fail for good.
SPECIFICATION Spec
CONSTANTS
    N = 2
    MaxM = 1
    DefaultM = 1
    NumTiers = 2
    NumChunks <- OneChunkEach
    GenM <- MaxThenNone
    Threshold = 1
    LinkMayBreak = FALSE
    UdpMayFail = TRUE
INVARIANTS TypeOK OneTurn NoSendOnClosedSocket StoppedImpliesReceived
PROPERTIES RequestsExactlyTheMissing ImplementsDelivery
CHECK_DEADLOCK FALSE
