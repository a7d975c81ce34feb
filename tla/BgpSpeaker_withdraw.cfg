SPECIFICATION Spec
CONSTANTS
    r1 = r1
    r2 = r2
    Prefix <- MCPrefix
    InitAdv <- MCInitAdv
    Window = 6
    MaxCommands = 2
    DutQuits = FALSE
CHECK_DEADLOCK FALSE
INVARIANT WithdrawnIsGone
