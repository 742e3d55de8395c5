SPECIFICATION Spec
CONSTANTS
    RingCapacity = 4
    StaticSmoke = TRUE
INVARIANTS RuntimeIsReleased FaultIsExplained LogKeepsTail
