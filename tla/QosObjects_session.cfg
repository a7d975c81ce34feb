SPECIFICATION Spec
CONSTANTS
    Scripts <- MCScripts
    MaxTests = 2
    MaxCrashes = 1
    MaxTries = 1
CHECK_DEADLOCK FALSE
INVARIANTS
    UndoRestores
    NoSilentShaper
