CONSTANTS
    Brain = {b1, b2}
    Interval = 2
    MaxHead = 4
    MaxFaults = 2
    None = None
SPECIFICATION FairSpec
INVARIANTS
    NothingMissed
PROPERTIES
    DueIsProcessed
    StopEnds
CHECK_DEADLOCK FALSE
