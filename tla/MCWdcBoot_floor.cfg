SPECIFICATION Spec
CONSTANTS
    old = old
    new = new
    forged = forged
    Bundle <- MCBundle
    NoBundle = NoBundle
    Counter <- MCCounter
    Accepted <- MCAccepted
    AntiRollback = TRUE
    MaxCandidateBoots = 1
    FailRunningOnBoot = TRUE
    MaxInstalls = 2
INVARIANT RollbackIsAdmitted
