CONSTANTS
    Op = {o1, o2}
    Brain = {b1, b2, b3}
    Old = {b1}
    Profile = {p1}
    None = None
    MaxFaults = 3
SPECIFICATION FairSpec
INVARIANTS
    EveryBrainHasItsWriter
    ClosedIsQuiet
    NeverForgotten
PROPERTIES
    WrittenBrainsStay
    RequestsEnd
CHECK_DEADLOCK FALSE
