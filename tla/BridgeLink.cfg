SPECIFICATION Spec
CONSTANTS
    k1 = k1
    k2 = k2
    c1 = c1
    c2 = c2
    c3 = c3
    v1 = v1
    Keys <- MCKeys
    ChatIdOf <- MCChatIdOf
    Conns <- MCConns
    Verdicts <- MCVerdicts
    TurnTtl = 1
    OutboundRecent = 1
    TickEvery = 1
SYMMETRY Symmetry
INVARIANTS LinkTypeOK SilentTurnsExpire NewestRoutable VerdictsResent
