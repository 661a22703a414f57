SPECIFICATION Spec
CONSTANTS
    Ids = {i1, i2}
    Events = {e1}
    Clerks = {c1, c2}
    Nothing = Nothing
SYMMETRY Symmetry
INVARIANTS TypeOK SellableHaveRows
PROPERTIES RowsStay
CHECK_DEADLOCK FALSE
