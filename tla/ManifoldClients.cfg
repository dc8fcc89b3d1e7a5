CONSTANTS
    PoolSize = 2
    BlockAtoms = 2
    VBlocks = {0, 1, 2, 3}
    BlockZero = 0
    Values <- MCValues
    Zero <- MCZero
    junk = junk
    Garbage <- junk
    Junk <- MCJunk
    Extents <- MCExtents
    CounterMod = 4
    AtomBytes = 2
    LensCount = 4
    WordSpan = 16
    WordXor <- MCXor
    MaxOps = 5
    None = None
    TableSize = 2
    NameLimit = 1
    Names <- MCNames
    Coordinates = {9, 11}
    Intents = {1, 6, 9}
    Results = {0, 5}
    Scripts <- MCScripts
    SpatialSpan = 8
    Operands = {0, 1, 4}
    Threshold = 1
    Inputs = {0, 1}
    ResetStates = {0, 5}
    Transitions <- MCTransitions
    DispatchRoot = 8
    GuestBase = 4
    ImageSizes = {1, 3}
    ImageAtom <- MCImageAtom
    Reasons = {0, 1}
    HltReason = 1
    Handlers <- MCHandlers
    Words = {4}
    Rips = {2}
    NullResult = 10
SPECIFICATION ClientsSpec
INVARIANTS
    TypeOK
    UniqueUnlessRevived
    ResolutionsAreExact
    
PROPERTIES
    TableIsObeyed
    ExitsReachTheirHandlers
    ImplementsMachines
CHECK_DEADLOCK FALSE
