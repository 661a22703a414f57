SPECIFICATION Spec
CONSTANTS
    Positions = {p1, p2}
    Ids = {i1, i2, i3}
    NoId = NoId
    Admins = {a1}
    Draws <- Drawings
    Kinds = {"standard", "blocked"}
    Standard = "standard"
    Nothing = Nothing
SYMMETRY Symmetry
INVARIANTS TypeOK SeatsFollowLayout CellsAreSeats
CHECK_DEADLOCK FALSE
