--------------------------- MODULE SubunitContent ---------------------------
(***************************************************************************)
(* What a subunit holds: its pools in order, each with a label, and what   *)
(* the columns of a pool store.  The operations are those of the program   *)
(* on a loaded subunit; modules SubunitStore and Snapshots share them.     *)
(***************************************************************************)
EXTENDS PoolOps

CONSTANTS
    Label,      \* labels of pools
    Datum,      \* what a column may store
    Nothing     \* a column of size 0

ASSUME NothingAssumption == Nothing \notin Datum

NamedPool ==
    [label : Label, pool : Pool, data : [Column -> Datum \cup {Nothing}]]

Content == Seq(NamedPool)

HasLabel(c, l) == \E p \in DOMAIN c : c[p].label = l

\* getOrPutPool with a label that is new.
AddedPool(c, l) ==
    Append(c, [label |-> l, pool |-> EmptyPool,
               data |-> [i \in Column |-> Nothing]])

\* get_ticket: a recycled column is erased before it is handed out.
Taken(c, p) ==
    [c EXCEPT ![p].data[CreatedCol(c[p].pool)] = Nothing,
              ![p].pool = Create(c[p].pool)]

Stored(c, p, i, d) == [c EXCEPT ![p].data[i] = d]

Recycled(c, p, i) == [c EXCEPT ![p].pool = RecycleCol(c[p].pool, i)]
=============================================================================
