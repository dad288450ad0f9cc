SPECIFICATION Spec
CONSTANTS
    IntBits = 6
    LongBits = 8
    MaxExp = 20
    Garbage <- MCGarbage
    Names <- MCNames
    Default <- MCDefault
    Frames <- MCFrames
    Files <- MCFiles
    Cuts <- MCCuts
    Lines <- MCLines
    MaxCmds = 2
    MaxEdits = 1
    MaxCrashes = 1
    MaxTime = 1
INVARIANTS
    TypeOK
    NumberRead
    StringRead
    ObjectRead
    WriteBack
    StartsAsMeant
    QuietSession
    BufferFits
    CommandRead
