SPECIFICATION FairSpec
CONSTANTS
    Seats = {s1}
    Sessions = {}
    NoSession = NoSession
    Keys = {k1, k2}
    NoKey = NoKey
    Workers = {w1}
    Sweepers = {t1}
    HoldTime = 1
    MaxTime = 3
PROPERTIES ReservedSeatIsReleased
CHECK_DEADLOCK FALSE
