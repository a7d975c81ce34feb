SPECIFICATION Spec
CONSTANTS
    p1 = p1
    p2 = p2
    p3 = p3
    Worker <- MCWorker
    Port <- MCPort
    Block <- MCBlock
    Pool <- MCPool
    Flushed <- MCFlushed
    Used <- MCUsed
    Octets <- MCOctets
    Hextets <- MCHextets
    Asns <- MCAsns
    BaseVlan = 1000
    SwitchportOS = FALSE
CHECK_DEADLOCK FALSE
INVARIANTS
    ViewsDisjoint
    NoCrossStorm
PROPERTIES
    OthersUntouched
    RunEnds
