SPECIFICATION Spec
CONSTANTS
    p1 = p1
    p2 = p2
    p3 = p3
    q1 = q1
    v1 = v1
    v2 = v2
    Port <- TwoBlock
    Block <- TwoBlock
    Role <- TwoBlock
    PIn = p1
    POut = p2
    TestPorts <- TwoBlock
    L3Ports <- TwoBlock
    DefaultVid = 1000
    TestVid = 2000
    IsoVids <- MCIsoVids
    Listed <- MCListed
    NoVid = 0
    ByDiscard = 9999
    SwitchportOS = TRUE
    Faults = {"reisolate", "abandon", "residue", "gate", "crash"}
SYMMETRY Interchangeable
INVARIANTS
    SessionLeavesBaseline
