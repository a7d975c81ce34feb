SPECIFICATION Spec
CONSTANTS
    p1 = p1
    p2 = p2
    p3 = p3
    v10 = v10
    vlan1 = vlan1
    vlan500 = vlan500
    Port <- MCPort
    BasePorts <- MCBase
    UserVid <- MCUser
    Berth = vlan1
    Home = vlan1
    StpLocked = FALSE
    BerthDelOk = FALSE
SYMMETRY MCSymmetry
INVARIANTS
    NotStranded
    NoMixedLoop
    DefaultRestored
    L3UpNeverRefused
