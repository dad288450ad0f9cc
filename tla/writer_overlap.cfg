SPECIFICATION Spec
CONSTANTS
    NumChannels = 1
    MaxBlocks = 3
    WriteFlag <- MCOneChannel
    Overlap = TRUE
    DryReads = FALSE
    OpenFails = FALSE
INVARIANT JoinedComplete
