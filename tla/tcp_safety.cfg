SPECIFICATION Spec
CONSTANTS
    MaxConns = 2
    MaxSent = 2
    MaxOutputs = 1
    Lockstep = FALSE
    Exits = FALSE
    Breaks = {"closed"}
    Timeouts = FALSE
INVARIANTS
    TypeOK
    RepliesInOrder
    NeverWedged
PROPERTIES
    Serves
CHECK_DEADLOCK FALSE
