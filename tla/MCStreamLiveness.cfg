CONSTANTS
    Chunks <- MCChunks
    MaxFrames = 4
    DropOutcomes = {"closed"}
    Faults = FALSE
SPECIFICATION Spec
PROPERTY WriterTerminates
