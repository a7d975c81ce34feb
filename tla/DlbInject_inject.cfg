SPECIFICATION Spec
CONSTANTS
    g1 = g1
    g2 = g2
    m1 = m1
    m2 = m2
    n1 = n1
    n2 = n2
    Group <- MCGroup
    Member <- MCMember
    NextHop <- MCNextHop
    NoObj = NoObj
    Stable = 2
    MaxBulk = 2
SYMMETRY MCSymmetry
CHECK_DEADLOCK FALSE
INVARIANTS
    OrchSurvives
    NoResidualResponse
    CleanupComplete
    SyncdSurvives
