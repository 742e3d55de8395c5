SPECIFICATION Spec
CONSTANTS
    Jobs <- MCJobs
    Keys = {0, 1}
    AbiVersion <- MCAbiVersion
    PayloadMax = 24
INVARIANTS ReadIsExact FindsFirst WrittenIsRead
