SPECIFICATION Spec
CONSTANTS
    Seats = {s1}
    Sessions = {evening}
    NoSession = NoSession
    Keys = {k1, k2}
    NoKey = NoKey
    Workers = {w1}
    Sweepers = {t1}
    HoldTime = 1
    MaxTime = 3
INVARIANTS SessionSeatSoldOnce
CHECK_DEADLOCK FALSE
