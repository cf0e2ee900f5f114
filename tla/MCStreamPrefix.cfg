CONSTANTS
    Chunks <- MCChunks
    MaxFrames = 4
    DropOutcomes = {"closed", "broken"}
    Faults = TRUE
SPECIFICATION Spec
INVARIANTS
    TypeOK
    DeliveredPrefix
CHECK_DEADLOCK FALSE
