----------------------------- MODULE CellTable -----------------------------
(***************************************************************************)
(* A column whose rows can be found by key: the Robin Hood hash table      *)
(* QCellCol of Acorn-Type.hpp and the operations of Col that keep it and   *)
(* the rows together.  A cell holds a key and the index of its row; a row  *)
(* may have no key (push) or several (addcell).                            *)
(*                                                                         *)
(* A key stands for its bytes, and a row for the key or push that made it. *)
(* Keys are put when hasKey has said no, as Workshop's callers of qput and *)
(* getOrPut do; qput itself does not look.                                 *)
(*                                                                         *)
(* scan_for_slot calls itself for the cell it has displaced, and grow calls*)
(* it for every cell of the old storage before the cell that made the      *)
(* table grow is put.  One call is one step here; the cells it is still to *)
(* be called with wait in pending, and the operations of the column wait   *)
(* until none is left.                                                     *)
(***************************************************************************)
EXTENDS Integers, FiniteSets, Sequences, SequencesExt

CONSTANTS
    Key,
    EmptyKeys,  \* the keys of size 0: the empty string, if scripts use it
    Plain,      \* identities of rows pushed without a key
    Hash,       \* hashBytes on Key
    Word        \* 2^32, where an unsigned product wraps

ASSUME KeyAssumption == IsFiniteSet(Key) /\ EmptyKeys \subseteq Key
ASSUME HashAssumption == Hash \in [Key -> Nat]
ASSUME WordAssumption == Word \in Nat \ {0}

VARIABLES
    table,   \* Col::cells
    pending, \* cells scan_for_slot is still to be called with, the next one first
    rows,    \* the rows of the column, by index (from 0 in the code)
    rowOf,   \* history: the row each key was put for, NoRow if it is gone
    strays,  \* history: keys whose cell the removal of a row may have left behind
    err      \* ERROR_FLAG

vars == <<table, pending, rows, rowOf, strays, err>>

NoRow == "no row"
Free == [key |-> "none"]    \* a slot whose storage is nullptr

Row == Key \cup Plain
ASSUME RowAssumption == NoRow \notin Row

Cell == [key : Key, index : Nat]
IsFree(c) == "index" \notin DOMAIN c

\* A table is [cap, slots, size]; slots are numbered from 0.
NewTable(cap) == [cap |-> cap, slots |-> [p \in 0 .. cap - 1 |-> Free], size |-> 0]
Slots(t) == 0 .. t.cap - 1
Occupied(t) == {p \in Slots(t) : ~IsFree(t.slots[p])}

IsTable(t) ==
    /\ t = [cap |-> t.cap, slots |-> t.slots, size |-> t.size]
    /\ t.cap \in Nat /\ t.size \in Nat
    /\ t.slots \in [Slots(t) -> Cell \cup {Free}]

\* Slots are a circle: the slot d places after slot h, and how many places slot
\* p comes after slot h.
After(t, h, d) == (h + d) % t.cap
Apart(t, h, p) == (p + t.cap - h) % t.cap
Before(t, p) == (p + t.cap - 1) % t.cap

\* The home of key k, the slot d places after it, and cell_distance_from_home.
Home(t, k) == Hash[k] % t.cap
Probe(t, k, d) == After(t, Home(t, k), d)
Distance(t, k, p) == Apart(t, Home(t, k), p)
FromHome(t, p) == Distance(t, t.slots[p].key, p)

\* Where a loop that goes on until it stops ends.
First(stops) == {d \in stops : \A e \in stops : d <= e}

-----------------------------------------------------------------------------
(* QCellCol *)

\* Mutant of MustGrow: only a full table grows.
MustGrowLate(t) == IF t.cap = 0 THEN TRUE ELSE t.size > t.cap

\* load_factor() > 70, or no storage at all.
LoadFactor(t) == IF t.cap = 0 THEN 100 ELSE ((t.size * 100) % Word) \div t.cap
MustGrow(t) == LoadFactor(t) > 70

Place(t, c, p) == [t EXCEPT !.slots[p] = c]

\* Mutant of Displaces: no cell gives way.
DisplacesNever(t, d, p) == FALSE

Displaces(t, d, p) == d > FromHome(t, p)

\* The loop of scan_for_slot: the slot for a new cell with key k is the first
\* that is free or has a cell nearer to its home; there is none if the loop
\* goes round the whole table.
SlotFor(t, k) ==
    LET stops == {d \in Slots(t) :
                     LET p == Probe(t, k, d)
                     IN  IsFree(t.slots[p]) \/ Displaces(t, d, p)}
    IN  {Probe(t, k, d) : d \in First(stops)}

\* find_cell(key): the slot where the scan from the key's home stops, if it is
\* not a free one.
FindCell(t, k) ==
    LET stops == {d \in Slots(t) :
                     LET c == t.slots[Probe(t, k, d)] IN IsFree(c) \/ c.key = k}
    IN  {p \in {Probe(t, k, d) : d \in First(stops)} : ~IsFree(t.slots[p])}

HasKey(t, k) == FindCell(t, k) # {}

\* Mutant of Vacate: the slot is emptied and the cells after it stay.
VacateOnly(t, p) == [Place(t, Free, p) EXCEPT !.size = @ - 1]

\* The end of removeAt and removeAtByValue: slot p is emptied and the cells
\* after it move one slot back, up to a free slot or a cell that is at home.
Vacate(t, p) ==
    LET u == Place(t, Free, p)
        stops == {n \in Slots(t) :
                     LET q == After(t, p, n + 1)
                     IN  IsFree(u.slots[q]) \/ FromHome(u, q) = 0}
        Moved(q) == LET n == Apart(t, p, q)
                    IN  IF \A e \in stops : n < e THEN u.slots[After(t, p, n + 1)]
                        ELSE IF n \in First(stops) THEN Free ELSE u.slots[q]
    IN  [u EXCEPT !.slots = [q \in Slots(t) |-> Moved(q)], !.size = @ - 1]

\* The rows after a removed one move down, and so do the indices of their keys.
ShiftIndices(t, i) ==
    [t EXCEPT !.slots = [p \in Slots(t) |->
        LET c == t.slots[p]
        IN  IF IsFree(c) \/ c.index <= i THEN c ELSE [c EXCEPT !.index = @ - 1]]]

CellsAt(t, i) == {p \in Occupied(t) : t.slots[p].index = i}

\* removeAtByValue: of several cells with the index the last one is removed.
RemoveAtByValue(t, i) ==
    LET shifted == ShiftIndices(t, i)
        found == CellsAt(t, i)
    IN  IF found = {} THEN shifted
        ELSE Vacate(shifted, CHOOSE p \in found : \A q \in found : q <= p)

\* The copy constructor and assignment: copying a cell copies its key only if
\* it has bytes, and a cell without storage is a free slot.
CopyOf(t) ==
    [t EXCEPT !.slots = [p \in Slots(t) |->
        IF t.slots[p].key \in EmptyKeys THEN Free ELSE t.slots[p]]]

\* The storage of the table, slot by slot.
Storage(t) == [i \in 1 .. t.cap |-> t.slots[i - 1]]

-----------------------------------------------------------------------------
(* scan_for_slot, one call a step. *)

Idle == pending = <<>>

\* The call for a cell; grow's loop passes over the free slots of the old storage.
Calling == ~Idle /\ ~IsFree(Head(pending))

PassOver ==
    /\ ~Idle /\ IsFree(Head(pending))
    /\ pending' = Tail(pending)
    /\ UNCHANGED <<table, rows, rowOf, strays, err>>

\* The table is too full: grow puts every cell of the old storage again, in
\* slot order, and then it is this cell's turn again.
Grow ==
    /\ Calling
    /\ MustGrow(table)
    /\ table' = NewTable(IF table.cap = 0 THEN 4 ELSE 2 * table.cap)
    /\ pending' = Storage(table) \o pending
    /\ UNCHANGED <<rows, rowOf, strays, err>>

\* The cell takes a free slot.  If the loop finds no slot at all the table is
\* reported as corrupted and the cell is lost.
Fill ==
    /\ Calling
    /\ ~MustGrow(table)
    /\ LET at == SlotFor(table, Head(pending).key)
       IN  IF at = {} THEN err' = TRUE /\ UNCHANGED table
           ELSE \E p \in at :
                   /\ IsFree(table.slots[p])
                   /\ table' = [Place(table, Head(pending), p) EXCEPT !.size = @ + 1]
                   /\ UNCHANGED err
    /\ pending' = Tail(pending)
    /\ UNCHANGED <<rows, rowOf, strays>>

\* The cell takes the slot of one that is nearer to its home, which is put again.
Displace ==
    /\ Calling
    /\ ~MustGrow(table)
    /\ \E p \in SlotFor(table, Head(pending).key) :
          /\ ~IsFree(table.slots[p])
          /\ table' = Place(table, Head(pending), p)
          /\ pending' = [pending EXCEPT ![1] = table.slots[p]]
    /\ UNCHANGED <<rows, rowOf, strays, err>>

-----------------------------------------------------------------------------
(* The column. *)

Init ==
    /\ table = NewTable(0)
    /\ pending = <<>>
    /\ rows = <<>>
    /\ rowOf = [k \in Key |-> NoRow]
    /\ strays = {}
    /\ err = FALSE

NewCell(k, i) == [key |-> k, index |-> i]

\* qput(element, key): the cell gets the index of the row that is pushed.
Qput(k) ==
    /\ Idle
    /\ ~HasKey(table, k)
    /\ k \notin Range(rows)
    /\ rows' = Append(rows, k)
    /\ rowOf' = [rowOf EXCEPT ![k] = k]
    /\ strays' = strays \ {k}
    /\ pending' = <<NewCell(k, Len(rows))>>
    /\ UNCHANGED <<table, err>>

\* push(element): a row without a key.
Push(r) ==
    /\ Idle
    /\ r \notin Range(rows)
    /\ rows' = Append(rows, r)
    /\ UNCHANGED <<table, pending, rowOf, strays, err>>

\* addcell(idx, key): a key for a row that is already there.
AddCell(k, i) ==
    /\ Idle
    /\ ~HasKey(table, k)
    /\ k \notin Range(rows)
    /\ rowOf' = [rowOf EXCEPT ![k] = rows[i + 1]]
    /\ strays' = strays \ {k}
    /\ pending' = <<NewCell(k, i)>>
    /\ UNCHANGED <<table, rows, err>>

\* The keys of the cells with index i.
KeysAt(i) == {table.slots[p].key : p \in CellsAt(table, i)}

\* Col::removeAt(index).  Only one cell with the index is removed.
RemoveRow(i) ==
    /\ Idle
    /\ rows' = RemoveAt(rows, i + 1)
    /\ rowOf' = [k \in Key |-> IF rowOf[k] = rows[i + 1] THEN NoRow ELSE rowOf[k]]
    /\ table' = IF table.size = 0 THEN table ELSE RemoveAtByValue(table, i)
    /\ strays' = IF Cardinality(KeysAt(i)) > 1 THEN strays \cup KeysAt(i)
                                              ELSE strays \ KeysAt(i)
    /\ UNCHANGED <<pending, err>>

\* clear() and cells.clear(), as scripts' clear and erase do.
Clear ==
    /\ Idle
    /\ table' = NewTable(4)
    /\ rows' = <<>>
    /\ rowOf' = [k \in Key |-> NoRow]
    /\ strays' = {}
    /\ UNCHANGED <<pending, err>>

\* The column is copied and the copy used from here on.
Copy ==
    /\ Idle
    /\ table' = CopyOf(table)
    /\ UNCHANGED <<pending, rows, rowOf, strays, err>>

RowIndex == 0 .. Len(rows) - 1

Next ==
    \/ PassOver \/ Grow \/ Fill \/ Displace
    \/ \E k \in Key : Qput(k)
    \/ \E r \in Plain : Push(r)
    \/ \E k \in Key, i \in RowIndex : AddCell(k, i)
    \/ \E i \in RowIndex : RemoveRow(i)
    \/ Clear
    \/ Copy

Spec == Init /\ [][Next]_vars

-----------------------------------------------------------------------------
(* Properties. *)

\* "Size = the count of occupied slots": load_factor() counts on it, so that a
\* put always finds a slot and the report of corruption at the end of
\* scan_for_slot is never reached.
SizeExact ==
    /\ table.size = Cardinality(Occupied(table))
    /\ table.cap > 0 => table.size < table.cap
    /\ ~err

\* Type invariant.  The count is exact, and a put always finds a slot.
TypeOK ==
    /\ IsTable(table)
    /\ pending \in Seq(Cell \cup {Free})
    /\ rows \in Seq(Row)
    /\ rowOf \in [Key -> Row \cup {NoRow}]
    /\ strays \in SUBSET Key
    /\ err \in BOOLEAN
    /\ SizeExact

\* Between two operations, looking a key up gives the row it was put for,
\* whatever was put, displaced, moved back or reindexed since; a key whose row
\* was removed is not found, unless the row had another key when it was removed.
KeysFound ==
    Idle => \A k \in Key :
        IF rowOf[k] # NoRow
        THEN \E p \in FindCell(table, k) :
                /\ table.slots[p].index \in RowIndex
                /\ rows[table.slots[p].index + 1] = rowOf[k]
        ELSE k \notin strays => ~HasKey(table, k)

\* The slots of t are in Robin Hood order: a cell is at most one slot further
\* from its home than the cell before it.
Ordered(t) ==
    \A p \in Occupied(t) :
        FromHome(t, p) > 0 =>
            /\ Before(t, p) \in Occupied(t)
            /\ FromHome(t, p) <= FromHome(t, Before(t, p)) + 1

\* The Robin Hood order holds before and after every call, so that no slot
\* between a key's home and its cell is free.
RobinHood == Ordered(table)
=============================================================================
