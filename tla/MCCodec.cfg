CONSTANTS
    NoVal = NoVal
    Resources = {"G"}
    Inputs <- MCInputs
    Frames <- MCFrames
    ValSize = 32
    AllocLimitKiB <- MCAllocLimitKiB
SPECIFICATION Spec
INVARIANTS
    TypeOK
    RoundTrip
    PathAgreement
    FlagBijection
CHECK_DEADLOCK FALSE
