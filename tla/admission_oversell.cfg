SPECIFICATION Spec
CONSTANTS
    concert = concert
    Events = {concert}
    SeatEvents = {}
    Total <- OneEvent
    Keys = {k1, k2, k3}
    NoKey = NoKey
    Quantities = {1, 2}
    Cancellers = {c1, c2}
    Commands = {}
    HoldTime = 1
    MaxTime = 0
SYMMETRY Symmetry
INVARIANTS NoOversell
CHECK_DEADLOCK FALSE
