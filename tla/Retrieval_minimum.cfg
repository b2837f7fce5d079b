SPECIFICATION Spec
CONSTANTS
    NumLevels = 3
    B = 3
    Start <- ThreeLevels
    MaxErr <- OtherMaxErr
    HalfUnit <- ThreeHalfUnit
    StoppingIndex <- ThreeStopping
    LatterIndex = 2
    Interpreters = {"sign_exclude"}
    Tolerances = {20, 80, 110, 200, 300, 420}
    MaxCalls = 3
CHECK_DEADLOCK FALSE
INVARIANTS TheMinimumIsReached
