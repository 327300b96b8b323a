---------------------------- MODULE MCCallFrames ----------------------------
(***************************************************************************)
(* CallFrames for TLC: f has the variables x and y, g has z.               *)
(***************************************************************************)
EXTENDS CallFrames

CONSTANTS f, g, x, y, z

MCOwnerOf == [v \in Var |-> IF v = z THEN g ELSE f]
=============================================================================
