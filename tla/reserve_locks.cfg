SPECIFICATION FairSpec
CONSTANTS
    Seats = {1, 2}
    NoSeat = NoSeat
    Requests = {r1, r2}
    Writers = {w1}
    Nobody = Nobody
INVARIANTS TypeOK TestStillTrue
PROPERTIES OnlyOwnKeys ReservesAtomically AllAnswered KeysComeFree
CHECK_DEADLOCK FALSE
