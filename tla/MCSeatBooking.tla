--------------------------- MODULE MCSeatBooking ---------------------------
(***************************************************************************)
(* Small instances of SeatBooking for TLC.  The members of each constant   *)
(* set are interchangeable, so safety runs identify states that differ by  *)
(* a permutation; liveness runs use no symmetry.                           *)
(***************************************************************************)
EXTENDS SeatBooking, TLC

Symmetry ==
    Permutations(Keys) \cup Permutations(Seats) \cup Permutations(Sessions)
        \cup Permutations(Workers) \cup Permutations(Sweepers)
=============================================================================
