--------------------------- MODULE MCSubunitCache ---------------------------
(***************************************************************************)
(* SubunitCache for TLC.                                                   *)
(***************************************************************************)
EXTENDS SubunitCache, TLC

ItemSymmetry == Permutations(Item \ Base)
=============================================================================
