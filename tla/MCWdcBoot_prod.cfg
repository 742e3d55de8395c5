SPECIFICATION Spec
CONSTANTS
    old = old
    new = new
    forged = forged
    Bundle <- MCGenuine
    NoBundle = NoBundle
    Counter <- MCCounter
    Accepted <- MCAccepted
    AntiRollback = TRUE
    MaxCandidateBoots = 1
    FailRunningOnBoot = TRUE
    MaxInstalls = 3
PROPERTIES FloorNeverDrops FallbackNeverLost
