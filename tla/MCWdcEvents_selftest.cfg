SPECIFICATION Spec
CONSTANTS
    Kind <- MCKind
    Capacity = 3
    IdModulus = 6
    MaxDropped = 2
INVARIANT SelfTestPasses
