SPECIFICATION FairSpec
CONSTANTS
    g1 = g1
    g2 = g2
    t1 = t1
    f1 = f1
    Gateways = {g1, g2}
    Turns = {t1}
    Floods = {f1}
    Withheld = {}
    Unroutable = {}
    TextOf <- MCTextOf
    MaxFaults = 1
    MaxWrites = 2
INVARIANTS OutboxTypeOK OneOwnerUnlessBreached NeverBlockedAlone NeverLost PostedOnce
PROPERTY EventuallyPosted
CHECK_DEADLOCK FALSE
