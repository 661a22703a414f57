---------------------------- MODULE MCHallLayout ----------------------------
(***************************************************************************)
(* A small hall for TLC: two squares, two labels, one of them drawn with a *)
(* kind that is no choice, which makes it standard, the other as blocked.  *)
(***************************************************************************)
EXTENDS HallLayout, TLC

Drawings ==
    {[label |-> "A1", kind |-> "standard"],
     [label |-> "B1", kind |-> "balcony"],
     [label |-> "B1", kind |-> "blocked"]}

Symmetry ==
    Permutations(Ids) \cup Permutations(Positions) \cup Permutations(Admins)
=============================================================================
