CONSTANTS
    Chunks <- MCChunks
    MaxFrames = 4
    DropOutcomes = {"closed"}
    Faults = TRUE
SPECIFICATION Spec
PROPERTY StreamRefinement
CHECK_DEADLOCK FALSE
