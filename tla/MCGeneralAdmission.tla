------------------------- MODULE MCGeneralAdmission -------------------------
(***************************************************************************)
(* Small instances of GeneralAdmission for TLC.                            *)
(***************************************************************************)
EXTENDS GeneralAdmission, TLC

CONSTANT concert

OneEvent == concert :> 2

Symmetry ==
    Permutations(Keys) \cup Permutations(Cancellers) \cup Permutations(Commands)
=============================================================================
