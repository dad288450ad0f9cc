SPECIFICATION FairSpec
CONSTANTS
    MaxConns = 2
    MaxSent = 1
    MaxOutputs = 0
    Lockstep = FALSE
    Exits = TRUE
    Breaks = {"reset", "noAccept"}
    Timeouts = TRUE
PROPERTIES
    Reaccepts
    
CHECK_DEADLOCK FALSE
