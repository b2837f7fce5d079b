SPECIFICATION Spec
CONSTANTS
    Interleaver = {"direct", "blocked", "sfc"}
    Dims <- SomeDims
    TargetLevels = {0, 1, 2}
    BlockSize = 2
CHECK_DEADLOCK FALSE
INVARIANTS LevelsPartition PutBack
