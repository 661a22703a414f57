-------------------------- MODULE MCReserveRequest --------------------------
(***************************************************************************)
(* Small instances of ReserveRequest for TLC.  Seats are ordered, requests *)
(* are not.                                                                *)
(***************************************************************************)
EXTENDS ReserveRequest, TLC

Symmetry == Permutations(Requests)
=============================================================================
