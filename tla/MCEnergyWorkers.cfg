CONSTANTS
    Lease = {l1, l2, l3}
    NoLease = NoLease
    MaxAction = 2
    Capacity = 1
    Choice = {c1, c2}
    FailureCode = {f1}
    NoEvidence = NoEvidence
    Worker = {w1, w2}
    Refused = {}
    MaxFaults = 1
SPECIFICATION FairSpec
CHECK_DEADLOCK FALSE
INVARIANTS
    DecidedOnce
    AuditAccepts
    OneAssessorPerLease
    NoIntentIsRefused
    AcknowledgedIsStored
PROPERTIES
    EveryActionDecided
    IntentsDrain
