----------------------------- MODULE PassStack -----------------------------
(***************************************************************************)
(* The contexts of the passes in Acorn-Nodenet.hpp and who owns their      *)
(* columns.  A pass, a sub process, a process_node, the tokenizer and      *)
(* compile_literal each run on a context column of the pool "Contexts".    *)
(* The source text of a context is a column of the pool "Names", the same  *)
(* pool that holds the names of the nodes handlers make and recycle while  *)
(* the pass runs.  Columns are handed out and recycled as in PoolOps; none *)
(* of the recycles here compares generations.                              *)
(*                                                                         *)
(* Handlers are abstracted to what they do to the two pools: start and end *)
(* nested activities in stack order, make nodes, recycle nodes.            *)
(***************************************************************************)
EXTENDS PoolOps

CONSTANTS
    Node,
    NestedKinds,    \* pass kinds that handlers start inside another pass
    MaxDepth,       \* bound: activities in progress
    MaxLost         \* bound: columns lost for good

ASSUME MaxDepthAssumption == MaxDepth \in Nat
ASSUME MaxLostAssumption == MaxLost \in Nat

VARIABLES
    contexts,   \* the pool "Contexts"
    names,      \* the pool "Names"
    stack,      \* the activities in progress, innermost last
    name,       \* name[n]: the name column of node n
    lost        \* history: columns whose only owning Ptr was overwritten

vars == <<contexts, names, stack, name, lost>>

PassKinds == {"direct", "resolving", "travel", "backwards", "memory"}
ASSUME NestedKindsAssumption == NestedKinds \subseteq PassKinds

\* Kinds whose exit tests is_owning before it recycles the source column.
GuardedKinds == {"travel"}

\* Kinds whose handlers call standard_pass_child_scopes.
ChildScopeKinds == {"resolving", "backwards", "memory"}

FrameKinds == PassKinds \cup {"sub", "process", "tokenize", "literal"}

Ptr    == [idx : Column, gen : Gen, owning : BOOLEAN]
DeadPtr == [idx |-> 0, gen |-> 0, owning |-> FALSE, dead |-> TRUE]
Source == Ptr \cup {DeadPtr}
Frame  == [kind : FrameKinds, ctx : Ptr, source : Source, parented : BOOLEAN]

IsLive(p) == p # DeadPtr
IsOwning(p) == IsLive(p) /\ p.owning
Weak(p) == IF IsLive(p) THEN [p EXCEPT !.owning = FALSE] ELSE p

\* The owning Ptr that get_ticket or duplicate_col returns from pool p.
Ticket(p) == [idx |-> CreatedCol(p), gen |-> p.gen[CreatedCol(p)], owning |-> TRUE]

\* Unit::recycle_column(Ptr): a dead Ptr is ignored, any other is recycled.
RecyclePtr(p, ptr) == IF IsLive(ptr) THEN RecycleCol(p, ptr.idx) ELSE p

\* Activities that set unit_ctx to their context; the others only pass it on.
SetsUnitCtx(f) == f.kind \in PassKinds \cup {"process"}
UnitCtxDepth == {i \in DOMAIN stack : SetsUnitCtx(stack[i])}
HasUnitCtx == UnitCtxDepth # {}
UnitCtx == stack[CHOOSE i \in UnitCtxDepth : \A j \in UnitCtxDepth : j <= i]
Top == stack[Len(stack)]

Push(f) == stack' = Append(stack, f)
Pop     == stack' = Front(stack)
Room    == Len(stack) < MaxDepth
LostRoom(n) == Cardinality(lost) + n <= MaxLost

TypeOK ==
    /\ contexts \in Pool
    /\ names \in Pool
    /\ stack \in Seq(Frame)
    /\ Len(stack) <= MaxDepth
    /\ name \in [Node -> Source]
    /\ lost \in SUBSET ({"Contexts", "Names"} \X Column)

Init ==
    /\ contexts = EmptyPool
    /\ names = EmptyPool
    /\ stack = <<>>
    /\ name = [n \in Node |-> DeadPtr]
    /\ lost = {}

-----------------------------------------------------------------------------
(* Starting and ending activities. *)

\* make_root_context: the new context owns a new source column.
RootFrame(kind) ==
    [kind |-> kind, ctx |-> Ticket(contexts), source |-> Ticket(names),
     parented |-> FALSE]

\* derive_context: a column of its own, a weak copy of the source.
DerivedFrame(kind, from) ==
    [kind |-> kind, ctx |-> Ticket(contexts), source |-> Weak(from.source),
     parented |-> TRUE]

\* The outermost standard_*_pass: no unit_ctx to derive from.
StartRootPass(kind) ==
    /\ ~HasUnitCtx
    /\ Room
    /\ CanCreate(contexts) /\ CanCreate(names)
    /\ contexts' = Create(contexts)
    /\ names' = Create(names)
    /\ Push(RootFrame(kind))
    /\ UNCHANGED <<name, lost>>

\* standard_travel_pass with a sub context and no unit_ctx (compile_literal
\* runs handlers so): the weak source of sub overwrites the Ptr that owned the
\* new source column.
StartRootTravel(sub) ==
    /\ ~HasUnitCtx
    /\ Room
    /\ LostRoom(1)
    /\ CanCreate(contexts) /\ CanCreate(names)
    /\ contexts' = Create(contexts)
    /\ names' = Create(names)
    /\ lost' = lost \cup {<<"Names", CreatedCol(names)>>}
    /\ Push([RootFrame("travel") EXCEPT !.source = Weak(sub.source)])
    /\ UNCHANGED name

\* A nested standard_*_pass derives from unit_ctx.
StartNestedPass(kind) ==
    /\ HasUnitCtx
    /\ kind \in NestedKinds
    /\ Room
    /\ CanCreate(contexts)
    /\ contexts' = Create(contexts)
    /\ Push(DerivedFrame(kind, UnitCtx))
    /\ UNCHANGED <<names, name, lost>>

\* A nested standard_travel_pass with a sub context borrows that one's source.
StartNestedTravel(sub) ==
    /\ HasUnitCtx
    /\ "travel" \in NestedKinds
    /\ Room
    /\ CanCreate(contexts)
    /\ contexts' = Create(contexts)
    /\ Push([DerivedFrame("travel", UnitCtx) EXCEPT !.source = Weak(sub.source)])
    /\ UNCHANGED <<names, name, lost>>

\* Mutant of EndPass: the exit of every kind recycles the source it finds.
EndPassUnguarded ==
    /\ stack # <<>>
    /\ Top.kind \in PassKinds
    /\ names' = RecyclePtr(names, Top.source)
    /\ contexts' = RecyclePtr(contexts, Top.ctx)
    /\ Pop
    /\ UNCHANGED <<name, lost>>

\* The end of standard_*_pass: the source column (standard_travel_pass asks
\* first whether the context owns it), then the context column.
EndPass ==
    /\ stack # <<>>
    /\ Top.kind \in PassKinds
    /\ names' = IF Top.kind \in GuardedKinds /\ ~IsOwning(Top.source)
                THEN names
                ELSE RecyclePtr(names, Top.source)
    /\ contexts' = RecyclePtr(contexts, Top.ctx)
    /\ Pop
    /\ UNCHANGED <<name, lost>>

\* standard_sub_process, backwards_sub_process, standard_qual_process: derive
\* from the context the handler was given.
StartSub ==
    /\ stack # <<>>
    /\ Room
    /\ CanCreate(contexts)
    /\ contexts' = Create(contexts)
    /\ Push(DerivedFrame("sub", Top))
    /\ UNCHANGED <<names, name, lost>>

\* Mutant of EndSub: deep_recycle_context where recycle_context is right.
EndSubDeep ==
    /\ stack # <<>>
    /\ Top.kind = "sub"
    /\ names' = RecyclePtr(names, Top.source)
    /\ contexts' = RecyclePtr(contexts, Top.ctx)
    /\ Pop
    /\ UNCHANGED <<name, lost>>

EndSub ==
    /\ stack # <<>>
    /\ Top.kind = "sub"
    /\ contexts' = RecyclePtr(contexts, Top.ctx)
    /\ Pop
    /\ UNCHANGED <<names, name, lost>>

\* make_context copies unit_ctx with make_from, which gives the copy a column
\* of its own for every owning Ptr field: an owned source is duplicated, a
\* borrowed one is left dead, and the parent context, which passes store with
\* an owning Ptr, is duplicated too.  The next statement overwrites that Ptr.
StartProcess ==
    /\ HasUnitCtx
    /\ UnitCtx.kind \in ChildScopeKinds
    /\ Room
    /\ CanCreate(contexts)
    /\ LET copied == Create(contexts)
           owned  == IsOwning(UnitCtx.source)
       IN  /\ owned => CanCreate(names)
           /\ names' = IF owned THEN Create(names) ELSE names
           /\ UnitCtx.parented => CanCreate(copied) /\ LostRoom(1)
           /\ contexts' = IF UnitCtx.parented THEN Create(copied) ELSE copied
           /\ lost' = IF UnitCtx.parented
                      THEN lost \cup {<<"Contexts", CreatedCol(copied)>>}
                      ELSE lost
           /\ Push([kind |-> "process", ctx |-> Ticket(contexts),
                    source |-> IF owned THEN Ticket(names) ELSE DeadPtr,
                    parented |-> TRUE])
    /\ UNCHANGED name

\* Mutant of EndProcess: recycle_context where deep_recycle_context is right.
EndProcessShallow ==
    /\ stack # <<>>
    /\ Top.kind = "process"
    /\ contexts' = RecyclePtr(contexts, Top.ctx)
    /\ Pop
    /\ UNCHANGED <<names, name, lost>>

\* deep_recycle_context.
EndProcess ==
    /\ stack # <<>>
    /\ Top.kind = "process"
    /\ names' = RecyclePtr(names, Top.source)
    /\ contexts' = RecyclePtr(contexts, Top.ctx)
    /\ Pop
    /\ UNCHANGED <<name, lost>>

\* tokenize and compile_literal make a root context that is not unit_ctx.
StartScratch(kind) ==
    /\ kind \in {"tokenize", "literal"}
    /\ Room
    /\ kind = "literal" => LostRoom(2)
    /\ CanCreate(contexts) /\ CanCreate(names)
    /\ contexts' = Create(contexts)
    /\ names' = Create(names)
    /\ Push(RootFrame(kind))
    /\ UNCHANGED <<name, lost>>

EndTokenize ==
    /\ stack # <<>>
    /\ Top.kind = "tokenize"
    /\ names' = RecyclePtr(names, Top.source)
    /\ contexts' = RecyclePtr(contexts, Top.ctx)
    /\ Pop
    /\ UNCHANGED <<name, lost>>

\* compile_literal returns without recycling its context or the source.
EndLiteral ==
    /\ stack # <<>>
    /\ Top.kind = "literal"
    /\ LostRoom(2)
    /\ lost' = lost \cup {<<"Contexts", Top.ctx.idx>>, <<"Names", Top.source.idx>>}
    /\ Pop
    /\ UNCHANGED <<contexts, names, name>>

-----------------------------------------------------------------------------
(* What handlers do to nodes: make_node gives the node a name column,       *)
(* recycle_node recycles it.                                                *)

MakeNode(n) ==
    /\ ~IsLive(name[n])
    /\ CanCreate(names)
    /\ names' = Create(names)
    /\ name' = [name EXCEPT ![n] = Ticket(names)]
    /\ UNCHANGED <<contexts, stack, lost>>

RecycleNode(n) ==
    /\ IsLive(name[n])
    /\ names' = RecyclePtr(names, name[n])
    /\ name' = [name EXCEPT ![n] = DeadPtr]
    /\ UNCHANGED <<contexts, stack, lost>>

PassStep ==
    \/ \E kind \in PassKinds : StartRootPass(kind) \/ StartNestedPass(kind)
    \/ \E i \in DOMAIN stack : StartRootTravel(stack[i]) \/ StartNestedTravel(stack[i])
    \/ EndPass

Next ==
    \/ PassStep
    \/ StartSub \/ EndSub
    \/ StartProcess \/ EndProcess
    \/ \E kind \in {"tokenize", "literal"} : StartScratch(kind)
    \/ EndTokenize \/ EndLiteral
    \/ \E n \in Node : MakeNode(n) \/ RecycleNode(n)

Spec == Init /\ [][Next]_vars

-----------------------------------------------------------------------------
(* Properties. *)

OwningFrames == {i \in DOMAIN stack : IsOwning(stack[i].source)}
NamedNodes   == {n \in Node : IsLive(name[n])}

Holds(p, ptr) == ptr.idx \in UsedCols(p) /\ p.gen[ptr.idx] = ptr.gen

\* The assertion of Nodenet's recycle ("stale or double-owned Ptr") for every
\* owning Ptr of the "Names" pool at all times: its column is in use, has the
\* Ptr's generation, and no other context or node owns it.
NamesOwned ==
    /\ \A i \in OwningFrames :
          /\ Holds(names, stack[i].source)
          /\ \A j \in OwningFrames \ {i} : stack[j].source.idx # stack[i].source.idx
          /\ \A n \in NamedNodes : name[n].idx # stack[i].source.idx
    /\ \A n \in NamedNodes :
          /\ Holds(names, name[n])
          /\ \A m \in NamedNodes \ {n} : name[m].idx # name[n].idx

\* Each activity has its context column to itself while it runs, so that
\* unit_ctx.parent() read on exit is the parent that was stored on entry.
ContextsOwned ==
    \A i \in DOMAIN stack :
        /\ Holds(contexts, stack[i].ctx)
        /\ \A j \in DOMAIN stack \ {i} : stack[j].ctx.idx # stack[i].ctx.idx

\* A source that a context only borrows is still there as long as the context
\* is: a sub process or nested pass never reads a recycled source text.
BorrowedSourcesLive ==
    \A i \in DOMAIN stack : IsLive(stack[i].source) => Holds(names, stack[i].source)

\* Every column in use belongs to an activity in progress or to a node, except
\* those lost where compile_literal, make_context and a root travel pass drop
\* the only Ptr to them.
OnlyKnownLosses ==
    /\ \A c \in UsedCols(contexts) :
          \/ <<"Contexts", c>> \in lost
          \/ \E i \in DOMAIN stack : stack[i].ctx.idx = c
    /\ \A c \in UsedCols(names) :
          \/ <<"Names", c>> \in lost
          \/ \E i \in OwningFrames : stack[i].source.idx = c
          \/ \E n \in NamedNodes : name[n].idx = c

-----------------------------------------------------------------------------
(* Inductive strengthening, for the case that only travel passes nest. *)

\* Which activities own the source text they run on.
SourceFits(f) ==
    /\ f.kind \in (PassKinds \ GuardedKinds) \cup {"tokenize", "literal"} => IsOwning(f.source)
    /\ f.kind = "process" /\ IsLive(f.source) => IsOwning(f.source)
    /\ f.kind = "sub" => ~IsOwning(f.source)

SourcesByKind == \A i \in DOMAIN stack : SourceFits(stack[i])

\* Whoever borrows a source runs inside the activity that owns it.
BorrowedFromBelow ==
    \A i \in DOMAIN stack \ OwningFrames : IsLive(stack[i].source) =>
        \E j \in OwningFrames :
            /\ j < i
            /\ stack[j].source.idx = stack[i].source.idx
            /\ stack[j].source.gen = stack[i].source.gen

IInv ==
    /\ TypeOK
    /\ FreeSound(contexts) /\ FreeSound(names)
    /\ SourcesByKind
    /\ BorrowedFromBelow
    /\ NamesOwned
    /\ ContextsOwned
    /\ OnlyKnownLosses
=============================================================================
