----------------------------- MODULE Snapshots ------------------------------
(***************************************************************************)
(* A subunit and its snapshot (Acorn-Core.hpp): getOrPutPool, which finds  *)
(* pools by the cells of the subunit, get_ticket and the recycling of      *)
(* columns, snapshot_col and load_snapshot_col with what they keep and     *)
(* what they leave in place, save_subunit, bounce_subunit, load_subunit    *)
(* with and without overwrite_cache, and the end of the process at any     *)
(* time.                                                                   *)
(*                                                                         *)
(* One script works at a time: it has the lock (module SubunitCache).  It  *)
(* loads the subunit before it works on it, keeps Ptrs to its columns over *)
(* a bounce, and drops them when it discards its work by a reload.  The    *)
(* columns of a subunit store no Ptrs to other subunits: adopt_ptrs would  *)
(* make them Ptrs to this one.                                             *)
(***************************************************************************)
EXTENDS SubunitContent, FiniteSets

CONSTANTS
    Base,       \* what is in the file at first
    Torn,       \* the file between truncation and the last byte
    MaxLife,    \* bound: columns recycled by one process
    MaxHeld     \* bound: Ptrs held at once

ASSUME LabelAssumption == IsFiniteSet(Label)

-----------------------------------------------------------------------------
(* snapshot_col and load_snapshot_col on the columns of a subunit. *)

Field == [gen : Gen, data : Datum \cup {Nothing}]

SavedPool ==
    {f \in [label : Label, free : Seq(Column), cols : Seq(Field)] :
        Len(f.cols) <= MaxCols}

\* Mutant of WritePool: the generations are not among the fields.
WritePoolNoGen(q) ==
    [label |-> q.label, free |-> q.pool.free,
     cols |-> [i \in 1 .. q.pool.made |->
                  [gen |-> 0, data |-> q.data[i - 1]]]]

\* snapshot_col on a pool: its label and free stack, and of each of its columns
\* the generation and the bytes.
WritePool(q) ==
    [label |-> q.label, free |-> q.pool.free,
     cols |-> [i \in 1 .. q.pool.made |->
                  [gen |-> q.pool.gen[i - 1], data |-> q.data[i - 1]]]]

\* load_snapshot_col into a pool that add() has just made: a new column for
\* each that was saved.
ReadPool(f) ==
    [label |-> f.label,
     pool  |-> [made |-> Len(f.cols), free |-> f.free,
                gen  |-> [i \in Column |-> IF i < Len(f.cols)
                                          THEN f.cols[i + 1].gen ELSE 0]],
     data  |-> [i \in Column |-> IF i < Len(f.cols)
                                THEN f.cols[i + 1].data ELSE Nothing]]

WritePools(c) == [p \in DOMAIN c |-> WritePool(c[p])]
ReadPools(f)  == [p \in DOMAIN f |-> ReadPool(f[p])]

\* Mutant of LoadedPools: the size is not reset first.
LoadedPoolsAppend(c, f) == c \o ReadPools(f)

\* col.size = 0: whatever the subunit held is replaced.
LoadedPools(c, f) == ReadPools(f)

\* The cells of the file join those that are there: bounce does not clear them.
LoadedKeys(k, f) == k \cup f

MaxPools == Cardinality(Label)
Index    == 1 .. MaxPools
Keys     == SUBSET (Label \X Index)
Snapshot ==
    {f \in [pools : Seq(SavedPool), keys : Keys] : Len(f.pools) <= MaxPools}

\* One cell for each pool, as getOrPutPool makes them.
KeysOf(c) == {<<c[p].label, p>> : p \in DOMAIN c}

\* Columns that have not been made have no generation and store nothing.
Blank(c) ==
    \A p \in DOMAIN c, i \in Column :
        i >= c[p].pool.made => c[p].pool.gen[i] = 0 /\ c[p].data[i] = Nothing

ASSUME BaseAssumption ==
    Base \in Content /\ Base # <<>> /\ Len(Base) <= MaxPools /\ Blank(Base)

ASSUME TornAssumption == Torn \notin Content /\ Torn \notin Snapshot

Life == [Index \X Column -> Nat]
Ptr  == [pool : Index, idx : Column, gen : Gen, life : Nat]

-----------------------------------------------------------------------------
VARIABLES
    pools,      \* the columns of the subunit
    keys,       \* its cells: pairs of a label and the index of a pool
    file,       \* Torn or a snapshot
    pc,         \* what the process is doing
    held,       \* Ptrs to columns, stale ones included
    life,       \* history: how often each column was recycled
    broken      \* history: pools were discarded or the file emptied

vars == <<pools, keys, file, pc, held, life, broken>>

PCs == {"up", "saving", "bouncing", "clearing", "down", "hung"}

TypeOK ==
    /\ pools \in Content /\ Len(pools) <= MaxPools
    /\ keys \in Keys
    /\ file \in Snapshot \cup {Torn}
    /\ pc \in PCs
    /\ held \in SUBSET Ptr
    /\ life \in Life
    /\ broken \in BOOLEAN

NoLife == [c \in Index \X Column |-> 0]

Init ==
    /\ pools = <<>> /\ keys = {}
    /\ file = [pools |-> WritePools(Base), keys |-> KeysOf(Base)]
    /\ pc = "down"
    /\ held = {} /\ life = NoLife
    /\ broken = FALSE

Loaded == pools # <<>>
Working == pc = "up" /\ Loaded
FileUnchanged == UNCHANGED <<file, pc, broken>>

Load(f) ==
    /\ pools' = LoadedPools(pools, f.pools)
    /\ keys' = LoadedKeys(keys, f.keys)

-----------------------------------------------------------------------------
(* Work on a loaded subunit. *)

\* The cells of one label may have come from several snapshots; which of them
\* find_cell meets first depends on the growth of the table.
Found(l) == {k[2] : k \in {k \in keys : k[1] = l}}

AddPool(l) ==
    /\ Working
    /\ Found(l) = {} /\ Len(pools) < MaxPools
    /\ pools' = AddedPool(pools, l)
    /\ keys' = keys \cup {<<l, Len(pools) + 1>>}
    /\ UNCHANGED <<held, life>> /\ FileUnchanged

\* get_ticket from getOrPutPool(label).
GetTicket(l) ==
    /\ Working /\ Cardinality(held) < MaxHeld
    /\ \E p \in Found(l) \cap DOMAIN pools :
          LET i == CreatedCol(pools[p].pool)
          IN  /\ CanCreate(pools[p].pool)
              /\ pools' = Taken(pools, p)
              /\ held' = held \cup {[pool |-> p, idx |-> i,
                                     gen |-> pools[p].pool.gen[i],
                                     life |-> life[<<p, i>>]]}
    /\ UNCHANGED <<keys, life>> /\ FileUnchanged

\* getOrPutPool with a cell whose index is past the last pool: the assertion
\* of sget reports it and the null Ptr that it returns ends the process.
MissPool(l) ==
    /\ Working
    /\ Found(l) \ DOMAIN pools # {}
    /\ pc' = "down" /\ pools' = <<>> /\ keys' = {} /\ held' = {}
    /\ life' = NoLife
    /\ UNCHANGED <<file, broken>>

InBounds(t) == t.pool \in DOMAIN pools /\ t.idx < pools[t.pool].pool.made
GenMatches(t) == InBounds(t) /\ pools[t.pool].pool.gen[t.idx] = t.gen
Current(t)    == life[<<t.pool, t.idx>>] = t.life

\* No Ptr is kept while its column is recycled GenMod times.
FreshEnough(t) ==
    \A s \in held : s.pool = t.pool /\ s.idx = t.idx =>
                       life[<<s.pool, s.idx>>] + 1 < s.life + GenMod

Store(t, d) ==
    /\ Working /\ GenMatches(t)
    /\ pools' = Stored(pools, t.pool, t.idx, d)
    /\ UNCHANGED <<keys, held, life>> /\ FileUnchanged

\* recycle, which compares generations; the Ptr stays where it is.
Recycle(t) ==
    /\ Working /\ GenMatches(t)
    /\ FoldFunction(+, 0, life) < MaxLife /\ FreshEnough(t)
    /\ t.idx \notin FreeCols(pools[t.pool].pool)
    /\ pools' = Recycled(pools, t.pool, t.idx)
    /\ life' = [life EXCEPT ![<<t.pool, t.idx>>] = @ + 1]
    /\ UNCHANGED <<keys, held>> /\ FileUnchanged

Drop(t) ==
    /\ Working
    /\ held' = held \ {t}
    /\ UNCHANGED <<pools, keys, life>> /\ FileUnchanged

-----------------------------------------------------------------------------
(* save, bounce, load and reload, by a script that has the lock. *)

\* openWriteStream truncates the file.  A subunit that is not loaded is saved
\* like any other, and its file loses everything.
OpenFile ==
    /\ pc = "up"
    /\ file # Torn
    /\ pc' \in {"saving", "bouncing"}
    /\ file' = Torn
    /\ broken' = (broken \/ ~Loaded)
    /\ UNCHANGED <<pools, keys, held, life>>

WriteFile ==
    /\ pc \in {"saving", "bouncing"}
    /\ file' = [pools |-> WritePools(pools), keys |-> keys]
    /\ pc' = IF pc = "saving" THEN "up" ELSE "clearing"
    /\ UNCHANGED <<pools, keys, held, life, broken>>

\* The rest of bounce_subunit: the columns are destroyed; the cells stay.
Clear ==
    /\ pc = "clearing"
    /\ pools' = <<>>
    /\ pc' = "up"
    /\ UNCHANGED <<keys, file, held, life, broken>>

\* load_subunit, as acquire_subunit calls it.
LoadSubunit ==
    /\ pc = "up" /\ ~Loaded
    /\ Load(file)
    /\ UNCHANGED <<held, life>> /\ FileUnchanged

\* load_subunit with overwrite_cache.  Work since the last save is discarded,
\* and with it the Ptrs into it; the cells of pools that go away stay.
Reload ==
    /\ pc = "up" /\ Loaded
    /\ Load(file)
    /\ IF pools = ReadPools(file.pools)
       THEN UNCHANGED <<held, life>>
       ELSE held' = {} /\ life' = NoLife
    /\ broken' = (broken \/ Len(pools) > Len(file.pools))
    /\ UNCHANGED <<file, pc>>

\* The process ends, by an error or from outside, wherever it is.
Crash ==
    /\ pc # "down"
    /\ pc' = "down"
    /\ pools' = <<>> /\ keys' = {} /\ held' = {} /\ life' = NoLife
    /\ UNCHANGED <<file, broken>>

\* load_subunit(path) in a new process.  On a file that is not whole, the loop
\* over its fields never meets SnapField::End: what read_raw returns at the end
\* of the file is whatever was on the stack.
Restart ==
    /\ pc = "down"
    /\ IF file = Torn
       THEN pc' = "hung" /\ UNCHANGED <<pools, keys>>
       ELSE pc' = "up" /\ Load(file)
    /\ UNCHANGED <<file, held, life, broken>>

Next ==
    \/ \E l \in Label : AddPool(l) \/ GetTicket(l) \/ MissPool(l)
    \/ \E t \in held : \/ \E d \in Datum : Store(t, d)
                       \/ Recycle(t) \/ Drop(t)
    \/ OpenFile \/ WriteFile \/ Clear \/ LoadSubunit \/ Reload
    \/ Crash \/ Restart

Spec == Init /\ [][Next]_vars

-----------------------------------------------------------------------------
(* Properties. *)

\* Acorn-Type.hpp asserts that a column is never indexed past its size:
\* getOrPutPool relies on the cells of a loaded subunit for that.
KeysInBounds == Working => \A k \in keys : k[2] \in DOMAIN pools

\* Generations are saved with the columns, so a Ptr to a recycled column stays
\* stale however often the subunit is unloaded and loaded again.
StaleStaysStale == Working => \A t \in held : GenMatches(t) => Current(t)

\* The refinement: unloading and loading do not show.
Unloaded == pc = "up" /\ ~Loaded
OnFile   == IF file = Torn THEN Torn ELSE ReadPools(file.pools)
Stands   == IF pc \in {"down", "hung"} \/ Unloaded THEN OnFile ELSE pools

Subunit == INSTANCE SubunitStore WITH
    content <- Stands,
    saved   <- OnFile,
    up      <- pc \notin {"down", "hung"},
    broken  <- broken

\* Pools are found by label, bounces and loads change nothing, what was saved
\* survives the end of the process, and only the writing of the file puts it
\* at risk.
ImplementsStore == Subunit!Spec
=============================================================================
