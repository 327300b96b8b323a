---------------------------- MODULE MCPassStack ----------------------------
(***************************************************************************)
(* PassStack for TLC.  Which generation a column has reached does not      *)
(* matter, only how far each Ptr is behind it, so states are identified up *)
(* to the former: the operations and the invariants use nothing else.      *)
(***************************************************************************)
EXTENDS PassStack

Behind(p, ptr) ==
    IF IsLive(ptr)
    THEN <<ptr.idx, ptr.owning, (GenMod + p.gen[ptr.idx] - ptr.gen) % GenMod>>
    ELSE <<>>

RelativeGenerations ==
    <<contexts.made, contexts.free, names.made, names.free, lost,
      [n \in Node |-> Behind(names, name[n])],
      [i \in DOMAIN stack |->
          <<stack[i].kind, stack[i].parented,
            Behind(contexts, stack[i].ctx), Behind(names, stack[i].source)>>]>>
=============================================================================
