SPECIFICATION FairSpec
CONSTANTS
    NumPackets = 2
    WindowSize = 2
    DupAckThreshold = 2
    MaxLosses = 2
    MaxTransit = 2
CHECK_DEADLOCK FALSE
INVARIANTS TypeOK KeysPresent AckedWasDelivered
PROPERTIES DeliversInOrder DeliversAll
