SPECIFICATION FairSpec
CONSTANTS
    NumLevels = 3
    B = 3
    Start <- ThreeLevels
    MaxErr <- ThreeMaxErr
    HalfUnit <- ThreeHalfUnit
    StoppingIndex <- ThreeStopping
    LatterIndex = 2
    Interpreters = {"in_order", "round_robin", "greedy", "sign_exclude", "negabinary"}
    Tolerances = {20, 80, 110, 200, 300, 420}
    MaxCalls = 3
CHECK_DEADLOCK FALSE
INVARIANTS TypeOK OffsetsAgree EachPlaneOnce WithinBounds ToleranceReached RoundRobinBalanced
PROPERTIES CallsReturn
