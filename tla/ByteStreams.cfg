CONSTANTS
    SectorBytes = 4
    ResidueBytes = 4
    LayerSizes <- MCLayerSizes
    DeltaBytes = 2
    ByteMod = 4
    ByteXor <- MCXor
    Sectors <- MCSectors
    Scale = 100
    WordMod = 65536
    MaxWrites = 2
    Missed = Missed
    Radix = 16
    BlockBytes = 4
    LengthBytes = 2
    Messages <- MCMessages
    Seeds <- MCSeeds
    SeedBytes = 1
    MaxPiece = 9
    Unset = Unset
    NoDigest = NoDigest
SPECIFICATION StreamsSpec
INVARIANTS
    ResidueUnfolds
    
    DigestsAreExact
\* The bounds end the work.
CHECK_DEADLOCK FALSE
