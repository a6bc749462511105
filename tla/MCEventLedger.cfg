CONSTANTS
    Engine = {e1, e2}
    EventId = {v1, v2, v3}
    Kind = {"note", "broadcast"}
    MaxCycle = 2
    MaxLog = 3
    MaxFaults = 2
    None = None
SPECIFICATION LedgerSpec
SYMMETRY LedgerSymmetry
INVARIANTS
    AlwaysReopens
    EnginesFollowLedger
    StoredOnce
    AnswersHold
CHECK_DEADLOCK FALSE
