CONSTANTS
    Start = 6
    Total = 47
    Align = 4
    WordMod = 128
    Sizes <- MCSizes
    MaxGrants = 7
    SmallSize = 1
    PoolBytes = 12
    Machines <- MCMachines
    Null = Null
SPECIFICATION BootSpec
INVARIANTS
    TypeOK
    GrantsDisjoint
    GrantsInArena
    BuffersAreGranted
    ReadyMeansOn
PROPERTIES
    RefusalIsCheap
    BootReachesMenu
\* The boot ends in the menu, or hangs where the code hangs.
CHECK_DEADLOCK FALSE
