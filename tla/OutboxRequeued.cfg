SPECIFICATION Spec
CONSTANTS
    g1 = g1
    g2 = g2
    t1 = t1
    f1 = f1
    Gateways = {g1}
    Turns = {}
    Floods = {f1}
    Withheld = {}
    Unroutable = {}
    TextOf <- MCTextOf
    MaxFaults = 2
    MaxWrites = 2
INVARIANT QueuedRepliesKept
CHECK_DEADLOCK FALSE
