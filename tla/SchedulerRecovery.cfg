SPECIFICATION Spec
CONSTANTS
    LastDue <- MCLastDue
    Minute = 2
    Tolerance = 3
    Window = 4
    StaleMax = 8
    MaxAttempts = 2
    MaxTime = 11
    MaxFeed = 2
    MaxStops = 2
PROPERTY BootRecovers
CHECK_DEADLOCK FALSE
