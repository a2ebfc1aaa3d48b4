SPECIFICATION Spec
CONSTANTS
    m1 = m1
    m2 = m2
    k1 = k1
    k2 = k2
    Msgs <- MCMsgs
    Keys <- MCKeys
    KeyOf <- MCOwnKey
    Timeout = 1
INVARIANTS ConfirmTypeOK LoneNeverDropped
PROPERTIES LoneLands
