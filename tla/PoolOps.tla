------------------------------ MODULE PoolOps ------------------------------
(***************************************************************************)
(* The pure operations on one pool (a ColCol) of Acorn-Core.hpp.  A pool   *)
(* is a growing array of columns with a stack of recycled indices; every   *)
(* column carries a uint16_t generation that a Ptr (a "ticket") copies     *)
(* when the column is handed out and that recycling increments.            *)
(*                                                                         *)
(* The bytes a column stores are left out.  What remains is what decides   *)
(* whether two users of the pool can ever meet in one column: which        *)
(* columns exist, which are on the free stack and their generations.       *)
(***************************************************************************)
EXTENDS Naturals, Sequences, SequencesExt

CONSTANTS
    MaxCols,    \* columns a pool may grow to (uint32_t indices in the code)
    GenMod      \* values of Col::gen: 65536 in the code

ASSUME MaxColsAssumption == MaxCols \in Nat \ {0}
ASSUME GenModAssumption == GenMod \in Nat \ {0, 1}

Column == 0 .. MaxCols - 1
Gen    == 0 .. GenMod - 1

Pool == [made : 0 .. MaxCols, gen : [Column -> Gen], free : Seq(Column)]

EmptyPool == [made |-> 0, gen |-> [c \in Column |-> 0], free |-> <<>>]

\* Mutant of NextGen: a generation kept in a wider type than Ptr::gen.
NextGenWide(g) == g + 1

\* Col::gen is a uint16_t: ++ wraps.
NextGen(g) == IF g + 1 = GenMod THEN 0 ELSE g + 1

MadeCols(p) == {c \in Column : c < p.made}
FreeCols(p) == Range(p.free)
UsedCols(p) == MadeCols(p) \ FreeCols(p)

\* The free stack lists each recycled column once, and only columns that exist.
FreeSound(p) == IsInjective(p.free) /\ FreeCols(p) \subseteq MadeCols(p)

\* create_column: the last recycled index if there is one, else a new column.
\* erase() empties the column but does not touch its generation.
CanCreate(p)  == p.free # <<>> \/ p.made < MaxCols
CreatedCol(p) == IF p.free # <<>> THEN Last(p.free) ELSE p.made

\* Mutant of Create: the free stack is read but not popped.
CreatePeek(p) ==
    IF p.free # <<>> THEN p ELSE [p EXCEPT !.made = @ + 1]

Create(p) ==
    IF p.free # <<>>
    THEN [p EXCEPT !.free = Front(@)]
    ELSE [p EXCEPT !.made = @ + 1]

\* Mutants of RecycleCol: the bump or the push is forgotten.
RecycleColNoBump(p, c) ==
    IF c \in FreeCols(p) THEN p ELSE [p EXCEPT !.free = Append(@, c)]
RecycleColNoPush(p, c) ==
    IF c \in FreeCols(p) THEN p ELSE [p EXCEPT !.gen[c] = NextGen(@)]

\* Mutant of RecycleCol: the index pushed is the one after.
RecycleColNext(p, c) ==
    IF c \in FreeCols(p)
    THEN p
    ELSE [p EXCEPT !.gen[c] = NextGen(@), !.free = Append(@, c + 1)]

\* recycle_column(ColCol&, id) without an error flag: an index already on the
\* free stack is ignored, any other is bumped and pushed.
RecycleCol(p, c) ==
    IF c \in FreeCols(p)
    THEN p
    ELSE [p EXCEPT !.gen[c] = NextGen(@), !.free = Append(@, c)]

\* Mutant of NukePool: the stack is not cleared before it is refilled.
NukePoolKeepStack(p) ==
    [p EXCEPT !.gen  = [c \in Column |-> IF c < p.made THEN NextGen(p.gen[c])
                                                       ELSE p.gen[c]],
              !.free = @ \o [i \in 1 .. p.made |-> p.made - i]]

\* nuke_subunit on one of its pools: every column, recycled or not, is bumped
\* and the stack is rebuilt so that column 0 is handed out first.
NukePool(p) ==
    [p EXCEPT !.gen  = [c \in Column |-> IF c < p.made THEN NextGen(p.gen[c])
                                                       ELSE p.gen[c]],
              !.free = [i \in 1 .. p.made |-> p.made - i]]
=============================================================================
