SPECIFICATION Spec
CONSTANTS
    Profile <- MCProfile
    NameBytes <- MCNameBytes
    DefaultMax <- MCDefaultMax
    SigLen <- MCSigLen
    Device <- MCDevice
    Required <- MCRequired
    RuntimeDefault <- MCRuntimeDefault
    Inputs <- MCInputs
    Word = 16
    MaxCaps = 3
    ArenaBytes = 21
    DefaultPayloadMax = 11
    HeaderLen = 3
    BufferCap = 12
    SlotSize = 13
    AbiMajor = 1
    AbiMinor = 1
INVARIANTS
    LayoutTiles
    ProductionIsAuthentic
    GatesAgree
    GrantsAreWritten
    RunsWithinLimits
    WalkIsExact
