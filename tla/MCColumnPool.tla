---------------------------- MODULE MCColumnPool ----------------------------
(***************************************************************************)
(* ColumnPool for TLC: interchangeable clients.                            *)
(***************************************************************************)
EXTENDS ColumnPool

ClientSymmetry == Permutations(Client)
=============================================================================
