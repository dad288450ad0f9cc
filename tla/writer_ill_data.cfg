SPECIFICATION Spec
CONSTANTS
    NumChannels = 1
    MaxBlocks = 2
    WriteFlag <- MCOneChannel
    Overlap = FALSE
    DryReads = TRUE
    OpenFails = FALSE
INVARIANT NoIllData
