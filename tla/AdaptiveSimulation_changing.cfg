SPECIFICATION FairSpec
CONSTANTS
    NumTiers = 2
    N = 3
    Frags <- TwoTiers
    Ms = {0, 1}
    BatchSize = 2
    MaxLosses = 3
CHECK_DEADLOCK FALSE
INVARIANTS LossCountExact StopsQuiet DecodableUnderOneCode CoversTiers
PROPERTIES Finishes
