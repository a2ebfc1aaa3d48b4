SPECIFICATION Spec
CONSTANTS
    m1 = m1
    m2 = m2
    k1 = k1
    k2 = k2
    Msgs <- MCMsgs
    Keys <- MCKeys
    KeyOf <- MCOneKey
    Timeout = 1
INVARIANT NeverDropped
