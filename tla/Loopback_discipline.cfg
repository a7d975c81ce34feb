SPECIFICATION Spec
CONSTANTS
    p1 = p1
    p2 = p2
    p3 = p3
    q1 = q1
    v1 = v1
    v2 = v2
    Port <- MCPort
    Block <- MCBlock
    Role <- MCBlock
    PIn = p1
    POut = p2
    TestPorts <- MCTestPorts
    L3Ports <- MCL3Ports
    DefaultVid = 1000
    TestVid = 2000
    IsoVids <- MCIsoVids
    Listed <- MCListed
    NoVid = 0
    ByDiscard = 9999
    SwitchportOS = FALSE
    Faults = {}
SYMMETRY Interchangeable
INVARIANTS
    TableIsChip
    LoopFree
    PvidHome
