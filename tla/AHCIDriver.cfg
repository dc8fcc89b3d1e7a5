SPECIFICATION DriverSpec
CONSTANTS
    Lbas = {0, 1}
    Values = {1, 2}
    None = None
    SpinLimit = 2
    StaleStatus = {FALSE}
    MaxCalls = 3
INVARIANTS
    DriverTypeOK
    QuietWhenIdle
    PollHasAnAnswer
PROPERTIES
    ImplementsSectorDisk
    CallsReturn
\* After MaxCalls calls the driver has nothing more to do.
CHECK_DEADLOCK FALSE
