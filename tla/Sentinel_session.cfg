SPECIFICATION Spec
CONSTANTS
    k1 = k1
    k2 = k2
    t1 = t1
    t2 = t2
    Key <- MCKey
    Test <- MCTest
    NoTest = NoTest
CHECK_DEADLOCK FALSE
INVARIANTS
    LeaksAreExact
PROPERTIES
    NoInnocentBlamed
    KeepsLedger
