----------------------------- MODULE MCEventRows -----------------------------
(***************************************************************************)
(* A hall of two seats for TLC.                                            *)
(***************************************************************************)
EXTENDS EventRows, TLC

Symmetry == Permutations(Ids) \cup Permutations(Clerks) \cup Permutations(Events)
=============================================================================
