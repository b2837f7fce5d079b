SPECIFICATION Spec
CONSTANTS
    NumTiers = 3
    N = 4
    M <- Parity
    FragmentSize = 1
    Pieces <- ThreeTiers
    UnavailableSites = {0, 1, 2}
CHECK_DEADLOCK FALSE
INVARIANTS TypeOK CountIncludesAbandoned DecodedIsWhole RecoveredAreRead
