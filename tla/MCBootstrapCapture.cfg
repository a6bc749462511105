CONSTANTS
    MaxCapture = 4
    QueueCapacity = 1
    MaxRotations = 1
    MaxFaults = 2
    None = None
SPECIFICATION FairSpec
INVARIANTS
    HeldOnceInOrder
    HealthIsExact
    SidesAgree
PROPERTIES
    EveryCaptureHandedOver
CHECK_DEADLOCK FALSE
