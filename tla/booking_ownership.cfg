SPECIFICATION FairSpec
CONSTANTS
    Seats = {s1, s2}
    Sessions = {}
    NoSession = NoSession
    Keys = {k1, k2, k3}
    NoKey = NoKey
    Workers = {w1}
    Sweepers = {t1}
    HoldTime = 1
    MaxTime = 4
PROPERTIES ImplementsOwnership HoldsEnd
CHECK_DEADLOCK FALSE
