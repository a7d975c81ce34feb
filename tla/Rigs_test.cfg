SPECIFICATION RigSpec
CONSTANTS
    p_in = ingress
    p_out = egress
    MaxFaults = 1
    MaxTries = 2
CHECK_DEADLOCK FALSE
INVARIANTS
    RigTypeOK
    NoStorm
    SplitWhenSending
    PassLeavesHome
    SessionHome
