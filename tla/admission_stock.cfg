SPECIFICATION Spec
CONSTANTS
    concert = concert
    Events = {concert}
    SeatEvents = {ballet, concert}
    Total <- OneEvent
    Keys = {k1, k2}
    NoKey = NoKey
    Quantities = {1, 2}
    Cancellers = {c1, c2}
    Commands = {x1, x2}
    HoldTime = 1
    MaxTime = 3
SYMMETRY Symmetry
INVARIANTS TypeOK Conserved LockedOrdersConfirmed AnswersStand
PROPERTIES BoughtOnce
CHECK_DEADLOCK FALSE
