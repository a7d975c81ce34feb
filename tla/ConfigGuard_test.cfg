SPECIFICATION Spec
CONSTANTS
    Object <- Objects
    Legal <- LegalConfigs
    Base <- Start
    Shallow <- Pair
    MaxChanges = 4
    Habits <- AllHabits
    MayAbort = FALSE
CHECK_DEADLOCK FALSE
INVARIANTS
    Retraces
    Restored
    LeakIsVisible
