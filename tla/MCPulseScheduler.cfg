CONSTANTS
    Engine = {e1}
    EventId = {v1, v2, v3, v4, v5, v6, v7}
    Kind = {"note", "tick", "broadcast", "reflected", "failure", "recovered"}
    MaxCycle = 2
    MaxLog = 7
    MaxFaults = 2
    None = None
SPECIFICATION PulseSpec
INVARIANTS
    HealthTellsLastStep
    PulseOrder
CHECK_DEADLOCK FALSE
