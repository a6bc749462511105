CONSTANTS
    Launch = {n1, n2, n3}
    Path = {home, elsewhere}
    Home = home
    Dir = {d1, d2}
    Cli = {c1, c2}
    None = None
    MaxFaults = 1
    MaxMeddling = 1
SPECIFICATION Spec
SYMMETRY ControlSymmetry
INVARIANTS
    OneWriter
    ServingIsDiscoverable
    LiveDaemonHasEvidence
    OnlyItsOwnIsSignalled
CHECK_DEADLOCK FALSE
