SPECIFICATION Spec
CONSTANTS
    Samples <- MCSamples
    CheckA = 2
    CheckB <- MCCheckB
    MaxSamples = 3
    MaxBlocks = 2
    IntHalf = 16
    BufferSize = 2
    Garbage <- MCGarbage
INVARIANTS
    TypeOK
    RoundTrip
    TornPrefix
    RawRoundTrip
    TimeDiffs
