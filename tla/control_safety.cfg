SPECIFICATION Spec
CONSTANTS
    Modes = {"cold", "steady", "batch"}
    Verbs = {"read", "stop", "exit"}
    MaxCmds = 2
    ColdCmds = 1
    MaxTime = 2
    Outcomes <- MCAnyOutcome
INVARIANTS
    TypeOK
    ExactLength
    OrderedSessions
    StopBound
CHECK_DEADLOCK FALSE
