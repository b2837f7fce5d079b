SPECIFICATION Spec
CONSTANTS
    Encoders = {"grouped", "per_bit", "negabinary"}
    BlockSize = 2
    B = 4
    F = 1
    Width = 6
    Lengths = {1, 2, 3}
    Values <- SomeValues
CHECK_DEADLOCK FALSE
INVARIANTS DecodesPrefix ReadsToTheEnd ErrorsAreExact
