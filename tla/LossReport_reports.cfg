SPECIFICATION Spec
CONSTANTS
    NumTiers = 2
    NumChunks <- TwoAndOne
    N = 2
    Threshold = 2
    Analyzed = 2
    ByCount = FALSE
    MaxArrivals = 6
CHECK_DEADLOCK FALSE
INVARIANTS ReportsAscend NeverNegative
PROPERTIES NothingHidden
