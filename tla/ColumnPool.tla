----------------------------- MODULE ColumnPool -----------------------------
(***************************************************************************)
(* One column pool of a unit and the Ptrs ("tickets") handed out for it:   *)
(* Acorn-Core.hpp (create_column, recycle_column, nuke_subunit, the        *)
(* get_ticket family, Unit::recycle_column) and Acorn-Nodenet.hpp          *)
(* (duplicate_col, recycle, the generation test of recycle_value and       *)
(* recycle_node).                                                          *)
(*                                                                         *)
(* A client stands for a part of the program that keeps tickets.  A ticket *)
(* is exclusive (a field column of a record it owns: released with         *)
(* Unit::recycle_column, which tests nothing but liveness) or shared       *)
(* (copied: a node sits in its parent's children, in a scope and in a      *)
(* context at once; released with recycle_node or recycle_value, which     *)
(* compare generations first).  That clients keep to this discipline is    *)
(* the assumption; module PassStack examines code that must honour it.     *)
(***************************************************************************)
EXTENDS PoolOps

CONSTANTS
    Client,
    MaxLife,    \* bound: times one column may be recycled
    MaxShared,  \* bound: shared Ptrs outstanding at once
    MaxStrays   \* bound: columns named by Ptrs issued under an error

ASSUME MaxLifeAssumption == MaxLife \in Nat
ASSUME MaxSharedAssumption == MaxShared \in Nat

VARIABLES
    pool,       \* the ColCol
    own,        \* own[cl]: the exclusive tickets of client cl
    shared,     \* Ptrs anyone may hold, stale ones included
    err,        \* ERROR_FLAG
    life,       \* history: how often each column was really recycled
    orphans,    \* history: columns created under an error that no Ptr names
    strays      \* columns named by Ptrs that were issued under an error

vars == <<pool, own, shared, err, life, orphans, strays>>

\* idx and gen are fields of the Ptr; life, which the code does not have, is
\* the recycle count at which the ticket was issued.
Ticket == [idx : Column, gen : Gen, life : 0 .. MaxLife]

Outstanding == shared \cup UNION {own[cl] : cl \in Client}

\* The test of recycle_value and recycle_node, and of Nodenet's recycle.
GenMatches(t) == pool.gen[t.idx] = t.gen

\* What the test should mean: the column was never recycled since.
Current(t) == life[t.idx] = t.life

-----------------------------------------------------------------------------
(* Bounds and the environment's assumption. *)

LifeLeft(c) == life[c] < MaxLife

\* No Ptr is kept while its column is recycled GenMod times.
FreshEnough(c) ==
    \A t \in Outstanding : t.idx = c => life[c] + 1 < t.life + GenMod

MayRecycle(c) == LifeLeft(c) /\ FreshEnough(c)

SharedRoom == Cardinality(shared) < MaxShared

StrayRoom(c) == Cardinality(strays \cup {c}) <= MaxStrays

-----------------------------------------------------------------------------
TypeOK ==
    /\ pool \in Pool
    /\ own \in [Client -> SUBSET Ticket]
    /\ shared \in SUBSET Ticket
    /\ err \in BOOLEAN
    /\ life \in [Column -> 0 .. MaxLife]
    /\ orphans \in SUBSET Column
    /\ strays \in SUBSET Column

Init ==
    /\ pool = EmptyPool
    /\ own = [cl \in Client |-> {}]
    /\ shared = {}
    /\ err = FALSE
    /\ life = [c \in Column |-> 0]
    /\ orphans = {}
    /\ strays = {}

NewTicket ==
    LET c == CreatedCol(pool)
    IN  [idx |-> c, gen |-> pool.gen[c], life |-> life[c]]

\* The pool's effect of recycle_column(ColCol&, id), the error check included.
RecycleColumn(c) ==
    IF err
    THEN UNCHANGED <<pool, life, orphans>>
    ELSE /\ pool' = RecycleCol(pool, c)
         /\ life' = IF c \in FreeCols(pool) THEN life
                                            ELSE [life EXCEPT ![c] = @ + 1]
         /\ orphans' = orphans \ {c}

-----------------------------------------------------------------------------
(* Operations. *)

\* Acorn::get_ticket, Unit::get_ticket and, when no error is active,
\* duplicate_col: an owning Ptr with the generation of the column.
GetTicket(cl) ==
    /\ ~err
    /\ CanCreate(pool)
    /\ pool' = Create(pool)
    /\ own' = [own EXCEPT ![cl] = @ \cup {NewTicket}]
    /\ UNCHANGED <<shared, err, life, orphans, strays>>

\* The index create_column returns while an error is active: add_idx pushes
\* its column before it looks at the error, and then answers 0.
ErrorIndex == IF pool.free # <<>> THEN Last(pool.free) ELSE 0

\* The same calls once ERROR_FLAG is set.  The Ptr that comes back, owning or
\* weak, has generation 0 whatever the column's is, and when the free stack
\* was empty it names column 0, whoever owns that, and the new column nobody
\* knows of.  Any number of copies of the Ptr may exist from here on.
GetTicketUnderError ==
    /\ err
    /\ CanCreate(pool)
    /\ StrayRoom(ErrorIndex)
    /\ pool' = Create(pool)
    /\ strays' = strays \cup {ErrorIndex}
    /\ orphans' = orphans \cup ({CreatedCol(pool)} \ {ErrorIndex})
    /\ UNCHANGED <<own, shared, err, life>>

\* get_ticket through a Ptr that must be resolved: under an error that gives
\* a dummy pool, and an owning Ptr on column 0 of the real one.
GetTicketFromDummy ==
    /\ err
    /\ StrayRoom(0)
    /\ strays' = strays \cup {0}
    /\ UNCHANGED <<pool, own, shared, err, life, orphans>>

\* A client copies its ticket to places others can recycle it from.
Share(cl, t) ==
    /\ t \in own[cl]
    /\ SharedRoom
    /\ own' = [own EXCEPT ![cl] = @ \ {t}]
    /\ shared' = shared \cup {t}
    /\ UNCHANGED <<pool, err, life, orphans, strays>>

\* Unit::recycle_column(Ptr) by the exclusive holder.  The Ptr is not
\* cleared: its bits may live on.
Recycle(cl, t) ==
    /\ t \in own[cl]
    /\ MayRecycle(t.idx)
    /\ SharedRoom
    /\ RecycleColumn(t.idx)
    /\ own' = [own EXCEPT ![cl] = @ \ {t}]
    /\ shared' = shared \cup {t}
    /\ UNCHANGED <<err, strays>>

\* Mutant of RecycleIfCurrent: the generation is not compared.
RecycleUnchecked(t) ==
    /\ t \in shared
    /\ MayRecycle(t.idx)
    /\ RecycleColumn(t.idx)
    /\ UNCHANGED <<own, shared, err, strays>>

\* recycle_node, recycle_value: a stale Ptr is silently ignored.
RecycleIfCurrent(t) ==
    /\ t \in shared
    /\ MayRecycle(t.idx)
    /\ IF GenMatches(t)
       THEN RecycleColumn(t.idx)
       ELSE UNCHANGED <<pool, life, orphans>>
    /\ UNCHANGED <<own, shared, err, strays>>

\* Nodenet's recycle(Ptr): a stale Ptr raises "stale or double-owned Ptr".
RecyclePtr(t) ==
    /\ t \in shared
    /\ ~err
    /\ MayRecycle(t.idx)
    /\ IF GenMatches(t)
       THEN RecycleColumn(t.idx) /\ UNCHANGED err
       ELSE err' = TRUE /\ UNCHANGED <<pool, life, orphans>>
    /\ UNCHANGED <<own, shared, strays>>

\* The holder of a Ptr issued under an error recycles it.  Through
\* Unit::recycle_column nothing is compared; a checked recycle does the same
\* or, when the generation is not 0, nothing (RecyclePtr: SetError).
RecycleStray(c) ==
    /\ c \in strays
    /\ MayRecycle(c)
    /\ IF c \in MadeCols(pool)
       THEN RecycleColumn(c) /\ UNCHANGED err
       ELSE err' = TRUE /\ UNCHANGED <<pool, life, orphans>>
    /\ UNCHANGED <<own, shared, strays>>

\* The last copy of a stale Ptr is overwritten.
Forget(t) ==
    /\ t \in shared
    /\ ~Current(t)
    /\ shared' = shared \ {t}
    /\ UNCHANGED <<pool, own, err, life, orphans, strays>>

\* nuke_subunit while tickets are outstanding; its callers (overload_type)
\* also forget the records that held them.
Nuke ==
    /\ \A c \in MadeCols(pool) : MayRecycle(c)
    /\ Cardinality(Outstanding) <= MaxShared
    /\ pool' = NukePool(pool)
    /\ life' = [c \in Column |-> IF c < pool.made THEN life[c] + 1 ELSE life[c]]
    /\ own' = [cl \in Client |-> {}]
    /\ shared' = Outstanding
    /\ orphans' = {}
    /\ UNCHANGED <<err, strays>>

\* throw_error anywhere else in the program; flip_pages and post_mortem reset.
SetError(e) ==
    err' = e /\ UNCHANGED <<pool, own, shared, life, orphans, strays>>

ClientStep(cl) ==
    \/ GetTicket(cl)
    \/ \E t \in own[cl] : Share(cl, t) \/ Recycle(cl, t)

SharedStep(t) == RecycleIfCurrent(t) \/ RecyclePtr(t) \/ Forget(t)

Next ==
    \/ \E cl \in Client : ClientStep(cl)
    \/ \E t \in shared : SharedStep(t)
    \/ GetTicketUnderError
    \/ GetTicketFromDummy
    \/ \E c \in strays : RecycleStray(c)
    \/ Nuke
    \/ \E e \in BOOLEAN : SetError(e)

Spec == Init /\ [][Next]_vars

-----------------------------------------------------------------------------
(* Properties. *)

\* The free stack of create_column/recycle_column lists each recycled column
\* once and only columns that exist; a duplicate would be handed out twice.
FreeStackSound == FreeSound(pool)

\* Two exclusive tickets never name one column, and whatever the others
\* recycle, nuke or get wrong through stale Ptrs, the column of an exclusive
\* ticket stays off the free stack with the ticket's generation.  Only a
\* column that get_ticket also gave away under an error is unprotected, and
\* what happens to it touches no other.
OwnersIntact ==
    \A cl \in Client : \A t \in own[cl] : t.idx \notin strays =>
        /\ t.idx \in UsedCols(pool)
        /\ GenMatches(t)
        /\ \A cl2 \in Client : \A u \in own[cl2] :
              u.idx = t.idx => cl2 = cl /\ u = t
        /\ \A u \in shared : u.idx = t.idx => ~GenMatches(u)

\* The 16-bit generation test of recycle_node and recycle_value decides
\* exactly whether the column was recycled since the Ptr was made, wrap-around
\* included, and a Ptr that passes names a column in use.
StaleDetected ==
    \A t \in Outstanding :
        /\ GenMatches(t) <=> Current(t)
        /\ GenMatches(t) => t.idx \in UsedCols(pool)

\* Every column in use can still be recycled through some Ptr, except one
\* that add_idx pushed under an error without returning its index.
NoLeak ==
    \A c \in UsedCols(pool) :
        \/ c \in orphans \cup strays
        \/ \E t \in Outstanding : t.idx = c /\ GenMatches(t)

\* The generation of a column is the generation a ticket was issued with plus
\* the recycles since, which wraps at most once while the ticket is fresh.
TicketGenerations ==
    \A t \in Outstanding :
        LET age == life[t.idx] - t.life
        IN  /\ t.idx \in MadeCols(pool)
            /\ age \in 0 .. GenMod - 1
            /\ pool.gen[t.idx] \in {t.gen + age, t.gen + age - GenMod}

\* A ticket of the current life names a column in use, and an exclusive ticket
\* is of the current life and the only one of its column, unless a stray Ptr
\* names the column too.
TicketLives ==
    /\ \A t \in Outstanding : Current(t) => t.idx \in UsedCols(pool)
    /\ \A cl \in Client : \A t \in own[cl] : t.idx \notin strays =>
          /\ Current(t)
          /\ \A cl2 \in Client : \A u \in own[cl2] :
                u.idx = t.idx => cl2 = cl /\ u = t
          /\ \A u \in shared : u.idx = t.idx => ~Current(u)

\* A used column has a ticket of its current life, or a stray or no Ptr.
UsedReachable ==
    \A c \in UsedCols(pool) :
        \/ c \in orphans \cup strays
        \/ \E t \in Outstanding : t.idx = c /\ Current(t)

\* The inductive invariant: the properties above it speak of generations, it
\* speaks of lives and says how the two are related.
IInv ==
    /\ TypeOK
    /\ FreeStackSound
    /\ TicketGenerations
    /\ TicketLives
    /\ UsedReachable

\* The abstract identity of a ticket: its column in one of its lives.
IdOf(t) == <<t.idx, t.life>>
IdsOf(S) == {IdOf(t) : t \in S}

LiveIds == {<<c, life[c]>> : c \in UsedCols(pool)}
OwnIds  == [cl \in Client |-> IdsOf(own[cl])]

Allocator == INSTANCE ColumnAllocator WITH
    Place  <- Column,
    Use    <- 0 .. MaxLife,
    live   <- LiveIds,
    own    <- OwnIds,
    shared <- IdsOf(shared)

\* The pool with its recycled indices and wrapping generations behaves like an
\* allocator of identities that are never used twice, in which a Ptr issued
\* under an error can end the identities of the one place it names.
ImplementsAllocator == Allocator!Spec
=============================================================================
