CONSTANTS
    b1 = b1
    b2 = b2
    w1 = w1
    w2 = w2
    n1 = n1
    n2 = n2
    m1 = m1
    Brain = {b1, b2}
    Worker = {w1, w2}
    Lease = {l1, l2, l3}
    Name = {n1, n2, m1}
    None = None
    Serves <- OneBrain
    Norm <- Spelling
    MaxRenames = 1
    MaxFaults = 1
SPECIFICATION Spec
SYMMETRY Symmetry
INVARIANTS
    NamingAudit
    NamesOnlyTheUnnamed
    AnswersAreTrue
CHECK_DEADLOCK FALSE
