---------------------------- MODULE MCCellTable ----------------------------
(***************************************************************************)
(* CellTable for TLC.  Values of the 32-bit hash: in a table of 4 most of  *)
(* the keys meet in slots 3 and 0, which are neighbours across the end of  *)
(* the array; in a table of 8 they are spread over two runs.               *)
(***************************************************************************)
EXTENDS CellTable

CONSTANTS k1, k2, k3, k4, k5

MCHash == [k \in Key |-> CASE k = k1 -> 3 [] k = k2 -> 7 [] k = k3 -> 0
                           [] k = k4 -> 11 [] k = k5 -> 8]
=============================================================================
