CONSTANTS
    NoVal = NoVal
    Resources = {"G"}
    Inputs <- MCRemoteInputs
    Frames = {}
    ValSize = 32
    AllocLimitKiB <- MCAllocLimitKiB
SPECIFICATION Spec
INVARIANTS
    RoundTrip
CHECK_DEADLOCK FALSE
