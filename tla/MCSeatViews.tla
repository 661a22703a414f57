---------------------------- MODULE MCSeatViews ----------------------------
(***************************************************************************)
(* A small instance of SeatViews for TLC.                                  *)
(***************************************************************************)
EXTENDS SeatViews, TLC

CONSTANTS early, late

Starts == early :> 1 @@ late :> 3

Symmetry ==
    Permutations(Keys) \cup Permutations(Seats) \cup Permutations(Workers)
        \cup Permutations(Sweepers)
=============================================================================
