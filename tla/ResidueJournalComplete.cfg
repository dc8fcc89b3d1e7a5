SPECIFICATION Spec
CONSTANTS
    VBlocks = {0, 1}
    Entries = 4
    RecUnits = 2
    SectorUnits = 7
    RecsPerSector = 2
    JournalSectors = 3
    MaxCommits = 2
    MaxCrashes = 1
    MaxFaults = 0
    HiNoise = {0}
    Leftovers = {Zeros}
    Zeros = Zeros  Noise = Noise  None = None
PROPERTIES
    ResurrectionIsComplete
CHECK_DEADLOCK FALSE
