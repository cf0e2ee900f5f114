CONSTANTS
    MaxResources = 3
    Faults = TRUE
SPECIFICATION Spec
INVARIANT TypeOK
INVARIANT RemoteHandlesLive
CHECK_DEADLOCK FALSE
