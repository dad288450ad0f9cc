SPECIFICATION FairSpec
CONSTANTS
    Modes = {"cold", "steady", "batch"}
    Verbs = {"read", "stop", "exit"}
    MaxCmds = 2
    ColdCmds = 1
    MaxTime = 0
    Outcomes <- MCPrepared
PROPERTIES
    StopEnds
    AcceptedStarts
    
    
CHECK_DEADLOCK FALSE
