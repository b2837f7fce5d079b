\* The chunks of a tier generated without parity are declared received too soon.
SPECIFICATION Spec
CONSTANTS
    N = 3
    MaxM = 2
    DefaultM = 1
    NumTiers = 2
    NumChunks <- OneChunkEach
    GenM <- MaxThenNone
    Threshold = 3
    LinkMayBreak = FALSE
    UdpMayFail = FALSE
INVARIANTS VerifiedChunksDecodable
CHECK_DEADLOCK FALSE
