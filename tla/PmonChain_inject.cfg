SPECIFICATION ChainSpec
CONSTANTS
    MaxLog = 2
    MaxHands = 2
    MaxTests = 2
    MaxSessions = 2
    MaxRules = 2
CHECK_DEADLOCK FALSE
INVARIANTS
    ChainTypeOK
    NoGhost
    RecoveredMeansClean
PROPERTIES
    StopReturns
    CacheHeals
