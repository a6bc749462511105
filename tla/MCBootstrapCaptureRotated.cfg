CONSTANTS
    MaxCapture = 2
    QueueCapacity = 1
    MaxRotations = 1
    MaxFaults = 0
    None = None
SPECIFICATION FairSpec
PROPERTY
    EveryReservationDisposed
CHECK_DEADLOCK FALSE
