SPECIFICATION FairSpec
CONSTANTS
    N = 2
    Worked = {1}
    Threads = {1}
    ThreadOf <- OneThread
    RepresentMax = 1
    EscalateMax = 1
    MaxFaults = 0
PROPERTY EventuallySettled
