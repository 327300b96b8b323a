----------------------------- MODULE MCSnapshots ----------------------------
(* A file with one pool of one column; a second label may be added. *)
EXTENDS Snapshots

CONSTANTS a, b, d

MCBase == << [label |-> a, pool |-> [EmptyPool EXCEPT !.made = 1],
              data |-> [i \in Column |-> IF i = 0 THEN d ELSE Nothing]] >>
=============================================================================
