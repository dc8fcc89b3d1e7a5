SPECIFICATION StackSpec
CONSTANTS
    zero = zero  one = one  two = two  junk = junk
    PoolSize = 2
    BlockAtoms = 2
    VBlocks <- MCVBlocks
    BlockZero = 0
    Values <- MCValues
    Zero <- zero
    Garbage <- junk
    Extents <- MCExtents
    CounterMod = 4
    Lbas <- MCLbas
    Capacity = 4
    MaxSectors = 2
    LogBlock = 3
    MaxHint = 2
    MaxWork = 4
    None = None
SYMMETRY MCSymmetry
INVARIANTS
    StackTypeOK
    LastBlockReadsBack
    
    
    FetchesFromWindow
PROPERTIES
    KeepsPromise
\* After MaxWork requests and events nothing more is asked of the service.
CHECK_DEADLOCK FALSE
