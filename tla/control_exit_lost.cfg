SPECIFICATION FairSpec
CONSTANTS
    Modes = {"steady"}
    Verbs = {"read", "exit"}
    MaxCmds = 2
    ColdCmds = 0
    MaxTime = 0
    Outcomes <- MCPrepared
PROPERTIES
    ExitReturns
CHECK_DEADLOCK FALSE
