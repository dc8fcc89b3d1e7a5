CONSTANTS
    EntriesPerBlock = 5
    HopBytes = 2
    LensCount = 2
    Bytes = {0, 1, 2, 3}
    NoiseByte = 3
    NoiseBlocks <- MCNoiseBlocks
    Seeds <- MCSeeds
    Chains <- MCChains
    Contents <- MCContents
    MaxOps = 6
    Nothing = Nothing
SPECIFICATION ImageSpec
INVARIANTS
    ImageTypeOK
    ReachableBytesReadBack
    LoadIsAllOrNothing
CHECK_DEADLOCK FALSE
