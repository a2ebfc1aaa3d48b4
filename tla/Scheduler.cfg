SPECIFICATION Spec
CONSTANTS
    LastDue <- MCLastDue
    Minute = 2
    Tolerance = 3
    Window = 4
    StaleMax = 8
    MaxAttempts = 2
    MaxTime = 11
    MaxFeed = 2
    MaxStops = 2
INVARIANTS SchedulerTypeOK NoRunSilentlyDropped ActionAtMostOnce HitSentOrStaged HitSentOnce
CHECK_DEADLOCK FALSE
