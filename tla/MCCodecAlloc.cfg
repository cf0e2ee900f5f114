CONSTANTS
    NoVal = NoVal
    Resources = {"G"}
    Inputs <- MCOneInput
    Frames <- MCHostileFrames
    ValSize = 32
    AllocLimitKiB <- MCAllocLimitKiB
SPECIFICATION Spec
INVARIANT DecodeFailsCall
CHECK_DEADLOCK FALSE
