SPECIFICATION Spec
CONSTANTS
    Seats = {s1}
    Sessions = {evening}
    NoSession = NoSession
    Keys = {k1, k2, k3}
    NoKey = NoKey
    Workers = {w1, w2}
    Sweepers = {t1, t2}
    HoldTime = 1
    MaxTime = 4
SYMMETRY Symmetry
INVARIANTS TypeOK SoleClaim SeatRowAgrees SessionHoldsDisjoint RowsAgree AnnouncedOnce
PROPERTIES ForwardOnly LostOrderKept
CHECK_DEADLOCK FALSE
