SPECIFICATION Spec
CONSTANTS
    r1 = r1
    r2 = r2
    Prefix <- MCPrefix
    InitAdv <- MCInitAdv
    Window = 2
    MaxCommands = 2
    DutQuits = TRUE
CHECK_DEADLOCK FALSE
INVARIANTS
    NoLostAnnounce
    DeadMeansCleared
PROPERTIES
    StartReturns
    StopEndsThread
    TeardownPurges
