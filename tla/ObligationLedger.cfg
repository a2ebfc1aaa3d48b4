SPECIFICATION FairSpec
CONSTANTS
    N = 1
    Worked = {1}
    Threads = {0, 1}
    ThreadOf <- OneThread
    RepresentMax = 1
    EscalateMax = 2
    MaxFaults = 2
INVARIANTS LedgerTypeOK NeverDropped OneNudge LadderBounded
PROPERTY EventuallySettled
