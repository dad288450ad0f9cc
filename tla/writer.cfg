SPECIFICATION FairSpec
CONSTANTS
    NumChannels = 2
    MaxBlocks = 2
    WriteFlag <- MCTwoChannels
    Overlap = FALSE
    DryReads = TRUE
    OpenFails = TRUE
INVARIANTS
    TypeOK
    
    JoinedComplete
PROPERTIES
    Recording
    SessionEnds
