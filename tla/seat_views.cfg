SPECIFICATION SpecViews
CONSTANTS
    early = early
    late = late
    Seats = {s1}
    Sessions = {early, late}
    NoSession = NoSession
    Keys = {k1, k2}
    NoKey = NoKey
    Workers = {w1}
    Sweepers = {t1}
    HoldTime = 1
    MaxTime = 4
    Blocked = {b1}
    Rowless = {r1}
    StartsAt <- Starts
    EventStart = 1
SYMMETRY Symmetry
INVARIANTS ViewTypeOK MapOffersWhatSells CountsAgree
PROPERTIES MapHonest NearestForward
CHECK_DEADLOCK FALSE
