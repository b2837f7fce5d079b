SPECIFICATION FairSpec
CONSTANTS
    NumFragments = 3
    MaxReports = 2
CHECK_DEADLOCK FALSE
INVARIANTS OneAfterStop
PROPERTIES Ends
