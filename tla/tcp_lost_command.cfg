SPECIFICATION Spec
CONSTANTS
    MaxConns = 1
    MaxSent = 2
    MaxOutputs = 0
    Lockstep = TRUE
    Exits = FALSE
    Breaks = {}
    Timeouts = FALSE
INVARIANTS
    LockstepServed
CHECK_DEADLOCK FALSE
