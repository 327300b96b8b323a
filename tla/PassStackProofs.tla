-------------------------- MODULE PassStackProofs --------------------------
(***************************************************************************)
(* Proofs about PassStack, for every depth of nesting, set of nodes and    *)
(* pool.  What happens to the context columns is right whatever passes     *)
(* nest.  What happens to the source columns is right where the passes     *)
(* that handlers start inside another pass are those whose exit asks       *)
(* whether it owns the source, which is the hypothesis OnlyGuardedNest.    *)
(***************************************************************************)
EXTENDS PassStack, TLAPS, SequenceTheorems, WellFoundedInduction

-----------------------------------------------------------------------------
(* The operations of a pool. *)

\* Popping a free stack: the rest is still a stack without duplicates.
LEMMA FrontFacts ==
    ASSUME NEW S, NEW f \in Seq(S), f # <<>>, IsInjective(f)
    PROVE  /\ Front(f) \in Seq(S)
           /\ IsInjective(Front(f))
           /\ Last(f) \in Range(f)
           /\ Range(f) \subseteq S
           /\ Range(Front(f)) = Range(f) \ {Last(f)}
<1>1. Len(f) \in Nat \ {0} /\ DOMAIN f = 1 .. Len(f) /\ \A i \in 1 .. Len(f) : f[i] \in S
  OBVIOUS
<1>2. /\ Front(f) \in Seq(S)
      /\ DOMAIN Front(f) = 1 .. Len(f) - 1
      /\ \A i \in 1 .. Len(f) - 1 : Front(f)[i] = f[i]
  BY <1>1 DEF Front
<1>3. \A i, j \in 1 .. Len(f) : f[i] = f[j] => i = j
  BY <1>1 DEF IsInjective
<1>4. IsInjective(Front(f))
  BY <1>1, <1>2, <1>3 DEF IsInjective
<1>5. Range(f) = {f[i] : i \in 1 .. Len(f)}
  BY <1>1 DEF Range
<1>6. Range(Front(f)) = {f[i] : i \in 1 .. Len(f) - 1}
  BY <1>2 DEF Range
<1>7. Last(f) = f[Len(f)]
  BY DEF Last
<1> QED
  BY <1>1, <1>2, <1>3, <1>4, <1>5, <1>6, <1>7

\* Pushing an index that is not listed keeps the stack without duplicates.
LEMMA AppendFacts ==
    ASSUME NEW S, NEW f \in Seq(S), NEW c \in S, IsInjective(f), c \notin Range(f)
    PROVE  /\ Append(f, c) \in Seq(S)
           /\ IsInjective(Append(f, c))
           /\ Range(Append(f, c)) = Range(f) \cup {c}
<1> DEFINE n == Len(f)
<1>1. n \in Nat /\ DOMAIN f = 1 .. n
  OBVIOUS
<1>2. /\ Append(f, c) \in Seq(S)
      /\ DOMAIN Append(f, c) = 1 .. n + 1
      /\ \A i \in 1 .. n : Append(f, c)[i] = f[i]
      /\ Append(f, c)[n + 1] = c
  OBVIOUS
<1>3. \A i \in 1 .. n : f[i] # c
  BY <1>1 DEF Range
<1>4. \A i, j \in 1 .. n : f[i] = f[j] => i = j
  BY <1>1 DEF IsInjective
<1> HIDE DEF n
<1>5. IsInjective(Append(f, c))
  BY <1>1, <1>2, <1>3, <1>4 DEF IsInjective
<1>6. Range(f) = {f[i] : i \in 1 .. n}
  BY <1>1 DEF Range
<1>7. Range(Append(f, c)) = {Append(f, c)[i] : i \in 1 .. n + 1}
  BY <1>2 DEF Range
<1>8. Range(Append(f, c)) = Range(f) \cup {c}
  BY <1>1, <1>2, <1>6, <1>7
<1> QED
  BY <1>2, <1>5, <1>8

\* A pool before its first column.
LEMMA EmptyFacts == EmptyPool \in Pool /\ FreeSound(EmptyPool) /\ UsedCols(EmptyPool) = {}
<1> USE MaxColsAssumption, GenModAssumption
<1>1. EmptyPool \in Pool
  BY DEF EmptyPool, Pool, Gen, Column
<1>2. MadeCols(EmptyPool) = {} /\ FreeCols(EmptyPool) = {} /\ EmptyPool.free = <<>>
  BY DEF EmptyPool, MadeCols, FreeCols, Range, Column
<1>3. IsInjective(<<>>)
  BY DEF IsInjective
<1> QED
  BY <1>1, <1>2, <1>3 DEF FreeSound, UsedCols

\* create_column: the column handed out was not in use, and no other changes.
LEMMA CreateFacts ==
    ASSUME NEW p \in Pool, FreeSound(p), CanCreate(p)
    PROVE  /\ Create(p) \in Pool
           /\ FreeSound(Create(p))
           /\ CreatedCol(p) \in Column \ UsedCols(p)
           /\ UsedCols(Create(p)) = UsedCols(p) \cup {CreatedCol(p)}
           /\ Create(p).gen = p.gen
           /\ MadeCols(p) \subseteq MadeCols(Create(p))
<1> USE MaxColsAssumption
<1>0. p.free \in Seq(Column) /\ IsInjective(p.free) /\ p.made \in 0 .. MaxCols
  BY DEF Pool, FreeSound
<1>1. CASE p.free # <<>>
  <2>1. /\ Front(p.free) \in Seq(Column)
        /\ IsInjective(Front(p.free))
        /\ Last(p.free) \in Range(p.free)
        /\ Range(p.free) \subseteq Column
        /\ Range(Front(p.free)) = Range(p.free) \ {Last(p.free)}
    BY <1>0, <1>1, FrontFacts
  <2>2. /\ Create(p) = [p EXCEPT !.free = Front(p.free)]
        /\ CreatedCol(p) = Last(p.free)
    BY <1>1 DEF Create, CreatedCol
  <2>3. /\ Create(p) \in Pool
        /\ Create(p).made = p.made
        /\ Create(p).gen = p.gen
        /\ Create(p).free = Front(p.free)
    BY <2>1, <2>2 DEF Pool
  <2>4. MadeCols(Create(p)) = MadeCols(p)
    BY <2>3 DEF MadeCols
  <2> QED
    BY <2>1, <2>2, <2>3, <2>4 DEF FreeSound, UsedCols, FreeCols
<1>2. CASE p.free = <<>>
  <2>1. p.made \in 0 .. MaxCols - 1
    BY <1>0, <1>2 DEF CanCreate
  <2>2. Create(p) = [p EXCEPT !.made = p.made + 1] /\ CreatedCol(p) = p.made
    BY <1>2 DEF Create, CreatedCol
  <2>3. /\ Create(p) \in Pool
        /\ Create(p).made = p.made + 1
        /\ Create(p).gen = p.gen
        /\ Create(p).free = p.free
    BY <2>1, <2>2 DEF Pool
  <2>4. MadeCols(Create(p)) = MadeCols(p) \cup {p.made} /\ p.made \notin MadeCols(p)
    BY <2>1, <2>3 DEF MadeCols, Column
  <2>5. FreeCols(Create(p)) = {} /\ FreeCols(p) = {}
    BY <1>2, <2>3 DEF FreeCols, Range
  <2> QED
    BY <1>0, <2>1, <2>2, <2>3, <2>4, <2>5 DEF FreeSound, UsedCols, Column
<1> QED
  BY <1>1, <1>2

\* A Ptr from create_column names a column of the pool, sound or not, and
\* neither it nor the others lose their generations.
LEMMA CreateTyped ==
    ASSUME NEW p \in Pool, CanCreate(p)
    PROVE  /\ Create(p) \in Pool
           /\ CreatedCol(p) \in Column
           /\ Create(p).gen = p.gen
           /\ Create(p).made \in p.made .. MaxCols
<1> USE MaxColsAssumption
<1>1. CASE p.free # <<>>
  <2>1. p.free \in Seq(Column)
    BY DEF Pool
  <2>2. Front(p.free) \in Seq(Column) /\ Last(p.free) \in Column
    BY <1>1, <2>1 DEF Front, Last
  <2>3. Create(p) = [p EXCEPT !.free = Front(p.free)] /\ CreatedCol(p) = Last(p.free)
    BY <1>1 DEF Create, CreatedCol
  <2> QED
    BY <2>2, <2>3 DEF Pool
<1>2. CASE p.free = <<>>
  <2>1. p.made \in 0 .. MaxCols - 1
    BY <1>2 DEF CanCreate, Pool
  <2>2. Create(p) = [p EXCEPT !.made = p.made + 1] /\ CreatedCol(p) = p.made
    BY <1>2 DEF Create, CreatedCol
  <2> QED
    BY <2>1, <2>2 DEF Pool, Column
<1> QED
  BY <1>1, <1>2

\* The generation stays in range: one more, or GenMod less after a wrap.
LEMMA NextGenFacts ==
    ASSUME NEW g \in Gen
    PROVE  NextGen(g) \in Gen /\ NextGen(g) \in {g + 1, g + 1 - GenMod}
BY GenModAssumption DEF Gen, NextGen

\* Recycling keeps a pool a pool, whatever column is named: no other column is
\* bumped, and that one only if it is not on the free stack.
LEMMA RecycleTyped ==
    ASSUME NEW p \in Pool, NEW i \in Column
    PROVE  /\ RecycleCol(p, i) \in Pool
           /\ RecycleCol(p, i).made = p.made
           /\ \A j \in Column \ {i} : RecycleCol(p, i).gen[j] = p.gen[j]
           /\ i \notin FreeCols(p) => RecycleCol(p, i).gen[i] = NextGen(p.gen[i])
<1>1. CASE i \in FreeCols(p)
  BY <1>1 DEF RecycleCol
<1>2. CASE i \notin FreeCols(p)
  <2>1. p.gen[i] \in Gen /\ p.gen \in [Column -> Gen] /\ p.free \in Seq(Column)
    BY DEF Pool
  <2>2. NextGen(p.gen[i]) \in Gen
    BY <2>1, NextGenFacts
  <2>3. Append(p.free, i) \in Seq(Column)
    BY <2>1
  <2>4. RecycleCol(p, i) = [p EXCEPT !.gen = [p.gen EXCEPT ![i] = NextGen(p.gen[i])],
                                     !.free = Append(p.free, i)]
    BY <1>2 DEF RecycleCol
  <2> QED
    BY <2>1, <2>2, <2>3, <2>4 DEF Pool
<1> QED
  BY <1>1, <1>2

\* recycle_column of a used column: it alone is bumped and freed.
LEMMA RecycleFacts ==
    ASSUME NEW p \in Pool, FreeSound(p), NEW c \in UsedCols(p)
    PROVE  /\ RecycleCol(p, c) \in Pool
           /\ FreeSound(RecycleCol(p, c))
           /\ UsedCols(RecycleCol(p, c)) = UsedCols(p) \ {c}
           /\ RecycleCol(p, c).gen = [p.gen EXCEPT ![c] = NextGen(p.gen[c])]
           /\ MadeCols(RecycleCol(p, c)) = MadeCols(p)
<1>1. c \in Column /\ c \notin Range(p.free) /\ c \in MadeCols(p) /\ p.gen[c] \in Gen
  BY DEF UsedCols, FreeCols, MadeCols, Pool
<1>2. RecycleCol(p, c) = [p EXCEPT !.gen  = [p.gen EXCEPT ![c] = NextGen(p.gen[c])],
                                   !.free = Append(p.free, c)]
  BY <1>1 DEF RecycleCol, FreeCols, Pool
<1>3. /\ Append(p.free, c) \in Seq(Column)
      /\ IsInjective(Append(p.free, c))
      /\ Range(Append(p.free, c)) = Range(p.free) \cup {c}
  BY <1>1, AppendFacts DEF Pool, FreeSound
<1>4. NextGen(p.gen[c]) \in Gen
  BY <1>1, NextGenFacts
<1>5. /\ RecycleCol(p, c) \in Pool
      /\ RecycleCol(p, c).made = p.made
      /\ RecycleCol(p, c).gen = [p.gen EXCEPT ![c] = NextGen(p.gen[c])]
      /\ RecycleCol(p, c).free = Append(p.free, c)
  BY <1>2, <1>3, <1>4 DEF Pool
<1>6. MadeCols(RecycleCol(p, c)) = MadeCols(p)
  BY <1>5 DEF MadeCols
<1> QED
  BY <1>1, <1>3, <1>5, <1>6 DEF FreeSound, UsedCols, FreeCols

-----------------------------------------------------------------------------

\* Only travel passes are started inside a pass, as when a program executes.
OnlyGuardedNest == NestedKinds \subseteq GuardedKinds

ContextsAccounted ==
    \A c \in UsedCols(contexts) :
        \/ <<"Contexts", c>> \in lost
        \/ \E i \in DOMAIN stack : stack[i].ctx.idx = c

NamesAccounted ==
    \A c \in UsedCols(names) :
        \/ <<"Names", c>> \in lost
        \/ \E i \in OwningFrames : stack[i].source.idx = c
        \/ \E n \in NamedNodes : name[n].idx = c

\* The two halves of IInv: each pool has its own.
ContextsInv ==
    /\ FreeSound(contexts)
    /\ ContextsOwned
    /\ ContextsAccounted

NamesInv ==
    /\ FreeSound(names)
    /\ SourcesByKind
    /\ BorrowedFromBelow
    /\ NamesOwned
    /\ NamesAccounted

-----------------------------------------------------------------------------
(* Ptrs and the stack. *)

\* A recycled Ptr field is no Ptr.
LEMMA DeadIsNoPtr == DeadPtr \notin Ptr
<1> SUFFICES ASSUME DeadPtr \in Ptr PROVE FALSE
  OBVIOUS
<1>1. DOMAIN DeadPtr = {"idx", "gen", "owning"}
  BY DEF Ptr
<1>2. "dead" \in DOMAIN DeadPtr
  BY DEF DeadPtr
<1> QED
  BY <1>1, <1>2

\* The Ptr a pool hands out names the column it created and owns it.
LEMMA TicketFacts ==
    ASSUME NEW p \in Pool, CanCreate(p)
    PROVE  /\ Ticket(p) \in Ptr
           /\ Ticket(p) # DeadPtr
           /\ Ticket(p).idx = CreatedCol(p)
           /\ Ticket(p).gen = p.gen[CreatedCol(p)]
           /\ IsOwning(Ticket(p))
<1>1. CreatedCol(p) \in Column /\ p.gen[CreatedCol(p)] \in Gen
  BY CreateTyped DEF Pool
<1>2. Ticket(p) \in Ptr /\ Ticket(p).owning
  BY <1>1 DEF Ticket, Ptr
<1> QED
  BY <1>2, DeadIsNoPtr DEF Ticket, IsOwning, IsLive

\* A weak copy names the same column and does not own it.
LEMMA WeakFacts ==
    ASSUME NEW s \in Source
    PROVE  /\ Weak(s) \in Source
           /\ ~IsOwning(Weak(s))
           /\ IsLive(Weak(s)) => /\ IsLive(s)
                                 /\ Weak(s).idx = s.idx
                                 /\ Weak(s).gen = s.gen
<1>1. CASE s = DeadPtr
  BY <1>1 DEF Weak, IsLive, IsOwning, Source
<1>2. CASE s # DeadPtr
  <2>1. s \in Ptr /\ Weak(s) = [s EXCEPT !.owning = FALSE]
    BY <1>2 DEF Weak, IsLive, Source
  <2> QED
    BY <1>2, <2>1 DEF IsLive, IsOwning, Source, Ptr
<1> QED
  BY <1>1, <1>2

\* Recycling through a Ptr field keeps a pool a pool.
LEMMA RecyclePtrTyped ==
    ASSUME NEW p \in Pool, NEW s \in Source
    PROVE  RecyclePtr(p, s) \in Pool
BY RecycleTyped DEF RecyclePtr, IsLive, Source, Ptr

\* The positions of a stack with one activity more.
LEMMA PushFacts ==
    ASSUME stack \in Seq(Frame), NEW f \in Frame, Push(f)
    PROVE  /\ stack' \in Seq(Frame)
           /\ Len(stack) \in Nat
           /\ Len(stack') = Len(stack) + 1
           /\ DOMAIN stack = 1 .. Len(stack)
           /\ DOMAIN stack' = 1 .. Len(stack) + 1
           /\ \A i \in DOMAIN stack : stack'[i] = stack[i] /\ stack[i] \in Frame
           /\ stack'[Len(stack) + 1] = f
BY DEF Push

\* The positions of a stack with one activity less.
LEMMA PopFacts ==
    ASSUME stack \in Seq(Frame), stack # <<>>, Pop
    PROVE  /\ stack' \in Seq(Frame)
           /\ Len(stack) \in Nat \ {0}
           /\ Len(stack') = Len(stack) - 1
           /\ DOMAIN stack = 1 .. Len(stack)
           /\ DOMAIN stack' = 1 .. Len(stack) - 1
           /\ \A i \in DOMAIN stack' : stack'[i] = stack[i]
           /\ \A i \in DOMAIN stack : stack[i] \in Frame
           /\ Len(stack) \in DOMAIN stack
           /\ Top = stack[Len(stack)]
<1>1. Len(stack) \in Nat \ {0} /\ DOMAIN stack = 1 .. Len(stack)
  OBVIOUS
<1>2. \A i \in 1 .. Len(stack) : stack[i] \in Frame
  BY <1>1
<1>3. stack' = [i \in 1 .. Len(stack) - 1 |-> stack[i]]
  BY <1>1 DEF Pop, Front
<1> QED
  BY <1>1, <1>2, <1>3 DEF Top

-----------------------------------------------------------------------------
(* Type correctness. *)

\* The contexts that activities start on are well-formed frames.
LEMMA FramesTyped ==
    ASSUME TypeOK, CanCreate(contexts)
    PROVE  /\ \A kind \in FrameKinds : CanCreate(names) => RootFrame(kind) \in Frame
           /\ \A kind \in FrameKinds, from \in Frame : DerivedFrame(kind, from) \in Frame
<1>1. Ticket(contexts) \in Ptr
  BY TicketFacts DEF TypeOK
<1>2. CanCreate(names) => Ticket(names) \in Source
  BY TicketFacts DEF TypeOK, Source
<1>3. \A from \in Frame : Weak(from.source) \in Source
  BY WeakFacts DEF Frame
<1> QED
  BY <1>1, <1>2, <1>3 DEF RootFrame, DerivedFrame, Frame

\* Every set of naturals that is not empty has a least member.
LEMMA LeastMember ==
    ASSUME NEW T \in SUBSET Nat, T # {}
    PROVE  \E m \in T : \A k \in T : m <= k
<1> DEFINE R == {s \in Nat \X Nat : s[1] < s[2]}
<1>1. IsWellFoundedOn(R, Nat)
  BY NatLessThanWellFounded DEF OpToRel
<1>2. \A x, y \in Nat : x < y => <<x, y>> \in R
  OBVIOUS
<1> HIDE DEF R
<1>3. \E x \in T : \A y \in T : ~(<<y, x>> \in R)
  BY <1>1, WFMin
<1>4. PICK m \in T : \A k \in T : <<k, m>> \notin R
  BY <1>3
<1>5. \A k \in T : ~(k < m) /\ k \in Nat /\ m \in Nat
  BY <1>2, <1>4
<1>6. \A k \in T : m <= k
  BY <1>5
<1> QED
  BY <1>6

\* A bounded set of naturals that is not empty has a greatest member.
LEMMA GreatestMember ==
    ASSUME NEW n \in Nat, NEW T \in SUBSET (1 .. n), T # {}
    PROVE  \E m \in T : \A k \in T : k <= m
<1> DEFINE U == {n - k : k \in T}
<1>1. U \in SUBSET Nat /\ U # {}
  <2>1. \A k \in T : n - k \in Nat
    OBVIOUS
  <2> QED
    BY <2>1
<1> HIDE DEF U
<1>2. \E m \in U : \A k \in U : m <= k
  BY <1>1, LeastMember
<1> QED
  BY <1>2 DEF U

\* unit_ctx is the context of an activity in progress.
LEMMA UnitCtxFacts ==
    ASSUME stack \in Seq(Frame), HasUnitCtx
    PROVE  \E i \in DOMAIN stack : UnitCtx = stack[i] /\ stack[i] \in Frame
<1>1. UnitCtxDepth \subseteq 1 .. Len(stack) /\ UnitCtxDepth # {} /\ Len(stack) \in Nat
  BY DEF UnitCtxDepth, HasUnitCtx
<1>2. \E i \in UnitCtxDepth : \A j \in UnitCtxDepth : j <= i
  BY <1>1, GreatestMember
<1> DEFINE top == CHOOSE i \in UnitCtxDepth : \A j \in UnitCtxDepth : j <= i
<1>3. top \in UnitCtxDepth
  BY <1>2
<1>4. UnitCtx = stack[top]
  BY DEF UnitCtx
<1> HIDE DEF top
<1> QED
  BY <1>1, <1>3, <1>4

\* Starting an activity keeps the types if the pools and the loss keep theirs.
LEMMA PushTyped ==
    ASSUME TypeOK, NEW f \in Frame, Push(f), Room,
           contexts' \in Pool, names' \in Pool, name' = name,
           lost' \in SUBSET ({"Contexts", "Names"} \X Column)
    PROVE  TypeOK'
BY PushFacts, MaxDepthAssumption DEF TypeOK, Room

\* Ending an activity keeps the types.
LEMMA PopTyped ==
    ASSUME TypeOK, stack # <<>>, Pop,
           contexts' \in Pool, names' \in Pool, name' = name,
           lost' \in SUBSET ({"Contexts", "Names"} \X Column)
    PROVE  TypeOK'
BY PopFacts, MaxDepthAssumption DEF TypeOK

\* Every step keeps the types.
LEMMA NextTyped == TypeOK /\ [Next]_vars => TypeOK'
<1> SUFFICES ASSUME TypeOK, [Next]_vars PROVE TypeOK'
  OBVIOUS
<1>1. /\ contexts \in Pool /\ names \in Pool
      /\ stack \in Seq(Frame)
      /\ name \in [Node -> Source]
      /\ lost \in SUBSET ({"Contexts", "Names"} \X Column)
  BY DEF TypeOK
<1>2. /\ CanCreate(contexts) => /\ Create(contexts) \in Pool
                                /\ Ticket(contexts) \in Ptr
      /\ CanCreate(names) => /\ Create(names) \in Pool
                             /\ CreatedCol(names) \in Column
                             /\ Ticket(names) \in Source
  BY <1>1, CreateTyped, TicketFacts DEF Source
<1>3. \A i \in DOMAIN stack : stack[i] \in Frame
  BY <1>1
<1>4. stack # <<>> => Top \in Frame
  BY <1>1 DEF Top
<1>5. stack # <<>> => RecyclePtr(names, Top.source) \in Pool
  BY <1>1, <1>4, RecyclePtrTyped DEF Frame
<1>6. stack # <<>> => RecyclePtr(contexts, Top.ctx) \in Pool
  BY <1>1, <1>4, RecyclePtrTyped DEF Frame, Source
<1>7. HasUnitCtx => UnitCtx \in Frame
  BY <1>1, UnitCtxFacts
<1>8. PassKinds \subseteq FrameKinds /\ {"sub", "process", "tokenize", "literal"} \subseteq FrameKinds
  BY DEF FrameKinds
<1>9. ASSUME NEW kind \in PassKinds, StartRootPass(kind) PROVE TypeOK'
  <2>1. RootFrame(kind) \in Frame
    BY <1>8, <1>9, FramesTyped DEF StartRootPass
  <2> QED
    BY <1>1, <1>2, <1>9, <2>1, PushTyped DEF StartRootPass
<1>10. ASSUME NEW i \in DOMAIN stack, StartRootTravel(stack[i]) PROVE TypeOK'
  <2> DEFINE f == [RootFrame("travel") EXCEPT !.source = Weak(stack[i].source)]
  <2>1. RootFrame("travel") \in Frame
    BY <1>8, <1>10, FramesTyped DEF StartRootTravel, PassKinds
  <2>2. Weak(stack[i].source) \in Source
    BY <1>3, WeakFacts DEF Frame
  <2>3. f \in Frame
    BY <2>1, <2>2 DEF Frame
  <2>4. lost' \in SUBSET ({"Contexts", "Names"} \X Column)
    BY <1>1, <1>2, <1>10 DEF StartRootTravel
  <2> HIDE DEF f
  <2>5. Push(f)
    BY <1>10 DEF StartRootTravel, f
  <2> QED
    BY <1>1, <1>2, <1>10, <2>3, <2>4, <2>5, PushTyped DEF StartRootTravel
<1>11. ASSUME NEW kind \in PassKinds, StartNestedPass(kind) PROVE TypeOK'
  <2>1. DerivedFrame(kind, UnitCtx) \in Frame
    BY <1>7, <1>8, <1>11, FramesTyped DEF StartNestedPass
  <2> QED
    BY <1>1, <1>2, <1>11, <2>1, PushTyped DEF StartNestedPass
<1>12. ASSUME NEW i \in DOMAIN stack, StartNestedTravel(stack[i]) PROVE TypeOK'
  <2> DEFINE f == [DerivedFrame("travel", UnitCtx) EXCEPT !.source = Weak(stack[i].source)]
  <2>1. DerivedFrame("travel", UnitCtx) \in Frame
    BY <1>7, <1>8, <1>12, FramesTyped DEF StartNestedTravel, PassKinds
  <2>2. Weak(stack[i].source) \in Source
    BY <1>3, WeakFacts DEF Frame
  <2>3. f \in Frame
    BY <2>1, <2>2 DEF Frame
  <2> HIDE DEF f
  <2>4. Push(f)
    BY <1>12 DEF StartNestedTravel, f
  <2> QED
    BY <1>1, <1>2, <1>12, <2>3, <2>4, PushTyped DEF StartNestedTravel
<1>13. CASE EndPass
  BY <1>1, <1>5, <1>6, <1>13, PopTyped DEF EndPass
<1>14. CASE StartSub
  <2>1. DerivedFrame("sub", Top) \in Frame
    BY <1>4, <1>8, <1>14, FramesTyped DEF StartSub
  <2> QED
    BY <1>1, <1>2, <1>14, <2>1, PushTyped DEF StartSub
<1>15. CASE EndSub
  BY <1>1, <1>6, <1>15, PopTyped DEF EndSub
<1>16. CASE StartProcess
  <2> DEFINE f == [kind |-> "process", ctx |-> Ticket(contexts),
                   source |-> IF IsOwning(UnitCtx.source) THEN Ticket(names) ELSE DeadPtr,
                   parented |-> TRUE]
  <2>1. IsOwning(UnitCtx.source) => CanCreate(names)
    BY <1>16 DEF StartProcess
  <2>2. f \in Frame
    BY <1>2, <1>8, <1>16, <2>1 DEF StartProcess, Frame, Source
  <2>3. names' \in Pool
    BY <1>1, <1>2, <1>16, <2>1 DEF StartProcess
  <2>4. UnitCtx.parented => /\ Create(Create(contexts)) \in Pool
                            /\ CreatedCol(Create(contexts)) \in Column
    BY <1>2, <1>16, CreateTyped DEF StartProcess
  <2>5. contexts' \in Pool
    BY <1>2, <1>16, <2>4 DEF StartProcess
  <2>6. lost' \in SUBSET ({"Contexts", "Names"} \X Column)
    BY <1>1, <1>16, <2>4 DEF StartProcess
  <2> HIDE DEF f
  <2>7. Push(f)
    BY <1>16 DEF StartProcess, f
  <2> QED
    BY <1>16, <2>2, <2>3, <2>5, <2>6, <2>7, PushTyped DEF StartProcess
<1>17. CASE EndProcess
  BY <1>1, <1>5, <1>6, <1>17, PopTyped DEF EndProcess
<1>18. ASSUME NEW kind \in {"tokenize", "literal"}, StartScratch(kind) PROVE TypeOK'
  <2>1. RootFrame(kind) \in Frame
    BY <1>8, <1>18, FramesTyped DEF StartScratch
  <2> QED
    BY <1>1, <1>2, <1>18, <2>1, PushTyped DEF StartScratch
<1>19. CASE EndTokenize
  BY <1>1, <1>5, <1>6, <1>19, PopTyped DEF EndTokenize
<1>20. CASE EndLiteral
  <2>1. lost' \in SUBSET ({"Contexts", "Names"} \X Column)
    <3>1. Top.ctx.idx \in Column /\ Top.source.idx \in Column
      BY <1>4, <1>20, MaxColsAssumption DEF EndLiteral, Frame, Source, Ptr, DeadPtr, Column
    <3> QED
      BY <1>1, <1>20, <3>1 DEF EndLiteral
  <2> QED
    BY <1>1, <1>20, <2>1, PopTyped DEF EndLiteral
<1>21. ASSUME NEW n \in Node, MakeNode(n) PROVE TypeOK'
  BY <1>1, <1>2, <1>21 DEF MakeNode, TypeOK
<1>22. ASSUME NEW n \in Node, RecycleNode(n) PROVE TypeOK'
  <2>1. names' \in Pool
    BY <1>1, <1>22, RecyclePtrTyped DEF RecycleNode
  <2> QED
    BY <1>1, <1>22, <2>1 DEF RecycleNode, TypeOK, Source
<1>23. CASE UNCHANGED vars
  BY <1>23 DEF vars, TypeOK
<1> QED
  BY <1>9, <1>10, <1>11, <1>12, <1>13, <1>14, <1>15, <1>16, <1>17, <1>18, <1>19,
     <1>20, <1>21, <1>22, <1>23 DEF Next, PassStep

-----------------------------------------------------------------------------
(* The pool "Contexts": what a step may do to it and to the stack. *)

\* An activity starts on a fresh context column.
ContextPushed ==
    /\ CanCreate(contexts)
    /\ contexts' = Create(contexts)
    /\ lost \subseteq lost'
    /\ \E f \in Frame : Push(f) /\ f.ctx = Ticket(contexts)

\* As before, and make_context drops the column it made for the parent.
ContextPushedLosing ==
    /\ CanCreate(contexts)
    /\ CanCreate(Create(contexts))
    /\ contexts' = Create(Create(contexts))
    /\ lost \cup {<<"Contexts", CreatedCol(Create(contexts))>>} \subseteq lost'
    /\ \E f \in Frame : Push(f) /\ f.ctx = Ticket(contexts)

\* An activity ends and recycles its context column.
ContextPopped ==
    /\ stack # <<>> /\ Pop
    /\ contexts' = RecyclePtr(contexts, Top.ctx)
    /\ lost \subseteq lost'

\* An activity ends and forgets its context column.
ContextForgotten ==
    /\ stack # <<>> /\ Pop
    /\ contexts' = contexts
    /\ lost \cup {<<"Contexts", Top.ctx.idx>>} \subseteq lost'

\* Every step does one of these to the pool "Contexts" or leaves it alone.
LEMMA ContextSteps ==
    ASSUME TypeOK, [Next]_vars
    PROVE  \/ ContextPushed \/ ContextPushedLosing
           \/ ContextPopped \/ ContextForgotten
           \/ UNCHANGED <<contexts, stack, lost>>
<1>1. stack \in Seq(Frame) /\ \A i \in DOMAIN stack : stack[i] \in Frame
  BY DEF TypeOK
<1>2. stack # <<>> => Top \in Frame
  BY <1>1 DEF Top
<1>3. HasUnitCtx => UnitCtx \in Frame
  BY <1>1, UnitCtxFacts
<1>4. PassKinds \cup {"sub", "process", "tokenize", "literal"} = FrameKinds /\ "travel" \in PassKinds
  BY DEF FrameKinds, PassKinds
<1>5. CanCreate(contexts) =>
        /\ \A kind \in FrameKinds : CanCreate(names) =>
              RootFrame(kind) \in Frame /\ RootFrame(kind).ctx = Ticket(contexts)
        /\ \A kind \in FrameKinds, from \in Frame :
              /\ DerivedFrame(kind, from) \in Frame
              /\ DerivedFrame(kind, from).ctx = Ticket(contexts)
  BY FramesTyped DEF RootFrame, DerivedFrame
<1>6. \A f \in Frame, s \in Source : /\ [f EXCEPT !.source = s] \in Frame
                                     /\ [f EXCEPT !.source = s].ctx = f.ctx
  BY DEF Frame
<1>7. \A i \in DOMAIN stack : Weak(stack[i].source) \in Source
  BY <1>1, WeakFacts DEF Frame
<1>8. ASSUME NEW kind \in PassKinds, StartRootPass(kind) PROVE ContextPushed
  BY <1>4, <1>5, <1>8 DEF StartRootPass, ContextPushed
<1>9. ASSUME NEW i \in DOMAIN stack, StartRootTravel(stack[i]) PROVE ContextPushed
  <2> DEFINE f == [RootFrame("travel") EXCEPT !.source = Weak(stack[i].source)]
  <2>1. f \in Frame /\ f.ctx = Ticket(contexts)
    BY <1>4, <1>5, <1>6, <1>7, <1>9 DEF StartRootTravel
  <2> HIDE DEF f
  <2>2. Push(f)
    BY <1>9 DEF StartRootTravel, f
  <2> QED
    BY <1>9, <2>1, <2>2 DEF StartRootTravel, ContextPushed
<1>10. ASSUME NEW kind \in PassKinds, StartNestedPass(kind) PROVE ContextPushed
  BY <1>3, <1>4, <1>5, <1>10 DEF StartNestedPass, ContextPushed
<1>11. ASSUME NEW i \in DOMAIN stack, StartNestedTravel(stack[i]) PROVE ContextPushed
  <2> DEFINE f == [DerivedFrame("travel", UnitCtx) EXCEPT !.source = Weak(stack[i].source)]
  <2>1. f \in Frame /\ f.ctx = Ticket(contexts)
    BY <1>3, <1>4, <1>5, <1>6, <1>7, <1>11 DEF StartNestedTravel
  <2> HIDE DEF f
  <2>2. Push(f)
    BY <1>11 DEF StartNestedTravel, f
  <2> QED
    BY <1>11, <2>1, <2>2 DEF StartNestedTravel, ContextPushed
<1>12. EndPass \/ EndSub \/ EndProcess \/ EndTokenize => ContextPopped
  BY DEF EndPass, EndSub, EndProcess, EndTokenize, ContextPopped
<1>13. StartSub => ContextPushed
  BY <1>2, <1>4, <1>5 DEF StartSub, ContextPushed
<1>14. StartProcess => ContextPushed \/ ContextPushedLosing
  <2> SUFFICES ASSUME StartProcess PROVE ContextPushed \/ ContextPushedLosing
    OBVIOUS
  <2> DEFINE f == [kind |-> "process", ctx |-> Ticket(contexts),
                   source |-> IF IsOwning(UnitCtx.source) THEN Ticket(names) ELSE DeadPtr,
                   parented |-> TRUE]
  <2>1. Ticket(contexts) \in Ptr /\ (IsOwning(UnitCtx.source) => Ticket(names) \in Ptr)
    BY TicketFacts DEF StartProcess, TypeOK
  <2>2. f \in Frame /\ f.ctx = Ticket(contexts)
    BY <1>4, <2>1 DEF Frame, Source
  <2> HIDE DEF f
  <2>3. Push(f)
    BY DEF StartProcess, f
  <2> QED
    BY <2>2, <2>3 DEF StartProcess, ContextPushed, ContextPushedLosing
<1>15. ASSUME NEW kind \in {"tokenize", "literal"}, StartScratch(kind) PROVE ContextPushed
  BY <1>4, <1>5, <1>15 DEF StartScratch, ContextPushed
<1>16. EndLiteral => ContextForgotten
  BY DEF EndLiteral, ContextForgotten
<1>17. \A n \in Node : MakeNode(n) \/ RecycleNode(n) => UNCHANGED <<contexts, stack, lost>>
  BY DEF MakeNode, RecycleNode
<1> QED
  BY <1>8, <1>9, <1>10, <1>11, <1>12, <1>13, <1>14, <1>15, <1>16, <1>17
     DEF Next, PassStep, vars

\* Starting an activity: the column it gets is nobody else's.
LEMMA ContextPushedKeeps ==
    ASSUME TypeOK, ContextsInv, NEW f \in Frame, Push(f), f.ctx = Ticket(contexts),
           CanCreate(contexts), contexts' = Create(contexts), lost \subseteq lost'
    PROVE  ContextsInv'
<1>1. contexts \in Pool /\ FreeSound(contexts) /\ stack \in Seq(Frame)
  BY DEF TypeOK, ContextsInv
<1>2. /\ FreeSound(contexts')
      /\ CreatedCol(contexts) \notin UsedCols(contexts)
      /\ UsedCols(contexts') = UsedCols(contexts) \cup {CreatedCol(contexts)}
      /\ contexts'.gen = contexts.gen
  BY <1>1, CreateFacts
<1>3. f.ctx.idx = CreatedCol(contexts) /\ f.ctx.gen = contexts.gen[CreatedCol(contexts)]
  BY <1>1, TicketFacts
<1>4. /\ Len(stack) \in Nat /\ DOMAIN stack = 1 .. Len(stack)
      /\ DOMAIN stack' = 1 .. Len(stack) + 1
      /\ \A i \in DOMAIN stack : stack'[i] = stack[i]
      /\ stack'[Len(stack) + 1] = f
  BY <1>1, PushFacts
<1>5. ContextsOwned'
  BY <1>2, <1>3, <1>4 DEF ContextsInv, ContextsOwned, Holds
<1>6. ContextsAccounted'
  <2> SUFFICES ASSUME NEW c \in UsedCols(contexts'), <<"Contexts", c>> \notin lost'
               PROVE  \E i \in DOMAIN stack' : stack'[i].ctx.idx = c
    BY DEF ContextsAccounted
  <2>1. CASE c = CreatedCol(contexts)
    BY <1>3, <1>4, <2>1
  <2>2. CASE c # CreatedCol(contexts)
    <3>1. c \in UsedCols(contexts) /\ <<"Contexts", c>> \notin lost
      BY <1>2, <2>2
    <3>2. PICK i \in DOMAIN stack : stack[i].ctx.idx = c
      BY <3>1 DEF ContextsInv, ContextsAccounted
    <3> QED
      BY <1>4, <3>2
  <2> QED
    BY <2>1, <2>2
<1> QED
  BY <1>2, <1>5, <1>6 DEF ContextsInv

\* make_context: the second column is created and lost in one step.
LEMMA ContextPushedLosingKeeps == ASSUME TypeOK, ContextsInv, ContextPushedLosing PROVE ContextsInv'
<1>1. contexts \in Pool /\ FreeSound(contexts) /\ stack \in Seq(Frame)
  BY DEF TypeOK, ContextsInv
<1> DEFINE copied == Create(contexts)
<1>2. /\ copied \in Pool /\ FreeSound(copied)
      /\ CreatedCol(contexts) \notin UsedCols(contexts)
      /\ UsedCols(copied) = UsedCols(contexts) \cup {CreatedCol(contexts)}
      /\ copied.gen = contexts.gen
  BY <1>1, CreateFacts DEF ContextPushedLosing
<1>3. PICK f \in Frame : Push(f) /\ f.ctx = Ticket(contexts)
  BY DEF ContextPushedLosing
<1> HIDE DEF copied
<1>4. /\ FreeSound(contexts')
      /\ CreatedCol(copied) \notin UsedCols(copied)
      /\ UsedCols(contexts') = UsedCols(copied) \cup {CreatedCol(copied)}
      /\ contexts'.gen = copied.gen
      /\ <<"Contexts", CreatedCol(copied)>> \in lost' /\ lost \subseteq lost'
  BY <1>2, CreateFacts DEF ContextPushedLosing, copied
<1>5. f.ctx.idx = CreatedCol(contexts) /\ f.ctx.gen = contexts.gen[CreatedCol(contexts)]
  BY <1>1, <1>3, TicketFacts DEF ContextPushedLosing
<1>6. /\ Len(stack) \in Nat /\ DOMAIN stack = 1 .. Len(stack)
      /\ DOMAIN stack' = 1 .. Len(stack) + 1
      /\ \A i \in DOMAIN stack : stack'[i] = stack[i]
      /\ stack'[Len(stack) + 1] = f
  BY <1>1, <1>3, PushFacts
<1>7. ContextsOwned'
  BY <1>2, <1>4, <1>5, <1>6 DEF ContextsInv, ContextsOwned, Holds
<1>8. ContextsAccounted'
  <2> SUFFICES ASSUME NEW c \in UsedCols(contexts'), <<"Contexts", c>> \notin lost'
               PROVE  \E i \in DOMAIN stack' : stack'[i].ctx.idx = c
    BY DEF ContextsAccounted
  <2>1. CASE c = CreatedCol(contexts)
    BY <1>5, <1>6, <2>1
  <2>2. CASE c # CreatedCol(contexts)
    <3>1. c \in UsedCols(contexts) /\ <<"Contexts", c>> \notin lost
      BY <1>2, <1>4, <2>2
    <3>2. PICK i \in DOMAIN stack : stack[i].ctx.idx = c
      BY <3>1 DEF ContextsInv, ContextsAccounted
    <3> QED
      BY <1>6, <3>2
  <2> QED
    BY <2>1, <2>2
<1> QED
  BY <1>4, <1>7, <1>8 DEF ContextsInv

\* Ending an activity: only its own column goes.
LEMMA ContextPoppedKeeps == ASSUME TypeOK, ContextsInv, ContextPopped PROVE ContextsInv'
<1>1. contexts \in Pool /\ FreeSound(contexts) /\ stack \in Seq(Frame)
  BY DEF TypeOK, ContextsInv
<1>2. /\ Len(stack) \in Nat \ {0} /\ DOMAIN stack = 1 .. Len(stack)
      /\ DOMAIN stack' = 1 .. Len(stack) - 1
      /\ \A i \in DOMAIN stack' : stack'[i] = stack[i]
      /\ \A i \in DOMAIN stack : stack[i] \in Frame
      /\ Len(stack) \in DOMAIN stack
      /\ Top = stack[Len(stack)]
  BY <1>1, PopFacts DEF ContextPopped
<1> DEFINE c == Top.ctx.idx
<1>3. c \in UsedCols(contexts) /\ \A i \in DOMAIN stack' : stack[i].ctx.idx # c
  BY <1>2 DEF ContextsInv, ContextsOwned, Holds
<1>4. contexts' = RecycleCol(contexts, c)
  BY <1>2, DeadIsNoPtr DEF ContextPopped, RecyclePtr, IsLive, Frame
<1> HIDE DEF c
<1>5. /\ FreeSound(contexts')
      /\ UsedCols(contexts') = UsedCols(contexts) \ {c}
      /\ contexts'.gen = [contexts.gen EXCEPT ![c] = NextGen(contexts.gen[c])]
  BY <1>1, <1>3, <1>4, RecycleFacts
<1>6. \A i \in DOMAIN stack' : /\ stack'[i] = stack[i] /\ i \in DOMAIN stack
                               /\ stack[i].ctx.idx \in Column
                               /\ contexts'.gen[stack[i].ctx.idx] = contexts.gen[stack[i].ctx.idx]
  BY <1>1, <1>2, <1>3, <1>5 DEF Pool, Frame, Ptr
<1>7. ContextsOwned'
  BY <1>3, <1>5, <1>6 DEF ContextsInv, ContextsOwned, Holds
<1>8. ContextsAccounted'
  <2> SUFFICES ASSUME NEW d \in UsedCols(contexts'), <<"Contexts", d>> \notin lost'
               PROVE  \E i \in DOMAIN stack' : stack'[i].ctx.idx = d
    BY DEF ContextsAccounted
  <2>1. d \in UsedCols(contexts) /\ d # c /\ <<"Contexts", d>> \notin lost
    BY <1>5 DEF ContextPopped
  <2>2. PICK i \in DOMAIN stack : stack[i].ctx.idx = d
    BY <2>1 DEF ContextsInv, ContextsAccounted
  <2>3. i \in DOMAIN stack'
    BY <1>2, <2>1, <2>2 DEF c
  <2> QED
    BY <1>2, <2>2, <2>3
<1> QED
  BY <1>5, <1>7, <1>8 DEF ContextsInv

\* compile_literal: its column stays in use and counts as lost.
LEMMA ContextForgottenKeeps == ASSUME TypeOK, ContextsInv, ContextForgotten PROVE ContextsInv'
<1>1. /\ Len(stack) \in Nat \ {0} /\ DOMAIN stack = 1 .. Len(stack)
      /\ DOMAIN stack' = 1 .. Len(stack) - 1
      /\ \A i \in DOMAIN stack' : stack'[i] = stack[i]
      /\ Top = stack[Len(stack)]
  BY PopFacts DEF TypeOK, ContextForgotten
<1>2. contexts' = contexts /\ lost \subseteq lost' /\ <<"Contexts", Top.ctx.idx>> \in lost'
  BY DEF ContextForgotten
<1>3. ContextsOwned'
  BY <1>1, <1>2 DEF ContextsInv, ContextsOwned, Holds
<1>4. ContextsAccounted'
  <2> SUFFICES ASSUME NEW d \in UsedCols(contexts'), <<"Contexts", d>> \notin lost'
               PROVE  \E i \in DOMAIN stack' : stack'[i].ctx.idx = d
    BY DEF ContextsAccounted
  <2>1. PICK i \in DOMAIN stack : stack[i].ctx.idx = d
    BY <1>2 DEF ContextsInv, ContextsAccounted
  <2>2. i # Len(stack)
    BY <1>1, <1>2, <2>1
  <2> QED
    BY <1>1, <2>1, <2>2
<1> QED
  BY <1>2, <1>3, <1>4 DEF ContextsInv

\* Every step keeps the contexts apart and accounted for, whatever passes nest.
LEMMA NextContexts == TypeOK /\ ContextsInv /\ [Next]_vars => ContextsInv'
<1> SUFFICES ASSUME TypeOK, ContextsInv, [Next]_vars PROVE ContextsInv'
  OBVIOUS
<1>1. CASE ContextPushed
  BY <1>1, ContextPushedKeeps DEF ContextPushed
<1>2. CASE UNCHANGED <<contexts, stack, lost>>
  BY <1>2 DEF ContextsInv, ContextsOwned, ContextsAccounted, Holds
<1> QED
  BY <1>1, <1>2, ContextSteps, ContextPushedLosingKeeps, ContextPoppedKeeps,
     ContextForgottenKeeps

-----------------------------------------------------------------------------
(* The pool "Names": what a step may do to it, to the stack and to nodes. *)

\* An activity starts on a source column of its own.
SourceMade ==
    /\ CanCreate(names)
    /\ names' = Create(names)
    /\ name' = name /\ lost \subseteq lost'
    /\ \E f \in Frame : Push(f) /\ SourceFits(f) /\ f.source = Ticket(names)

\* The frame f has a dead source or borrows the one of an activity in progress.
Borrows(f) ==
    /\ ~IsOwning(f.source)
    /\ IsLive(f.source) =>
          \E i \in DOMAIN stack : /\ IsLive(stack[i].source)
                                  /\ stack[i].source.idx = f.source.idx
                                  /\ stack[i].source.gen = f.source.gen

\* An activity starts on a borrowed source.
SourceBorrowed ==
    /\ names' = names /\ name' = name /\ lost \subseteq lost'
    /\ \E f \in Frame : Push(f) /\ SourceFits(f) /\ Borrows(f)

\* As before, but a column was made for it that nothing points to any more.
SourceOverwritten ==
    /\ CanCreate(names)
    /\ names' = Create(names)
    /\ name' = name /\ lost \cup {<<"Names", CreatedCol(names)>>} \subseteq lost'
    /\ \E f \in Frame : Push(f) /\ SourceFits(f) /\ Borrows(f)

\* An activity ends and recycles the source it owns.
SourceRecycled ==
    /\ stack # <<>> /\ Pop
    /\ IsOwning(Top.source)
    /\ names' = RecyclePtr(names, Top.source)
    /\ name' = name /\ lost \subseteq lost'

\* An activity ends that owns no source.
SourceKept ==
    /\ stack # <<>> /\ Pop
    /\ ~IsOwning(Top.source)
    /\ names' = names /\ name' = name /\ lost \subseteq lost'

\* An activity ends and forgets the source it owns.
SourceForgotten ==
    /\ stack # <<>> /\ Pop
    /\ names' = names /\ name' = name
    /\ lost \cup {<<"Names", Top.source.idx>>} \subseteq lost'

\* A weak copy borrows from the activity it was copied from.
LEMMA WeakBorrows ==
    ASSUME TypeOK, NEW i \in DOMAIN stack, NEW f \in Frame,
           f.source = Weak(stack[i].source)
    PROVE  Borrows(f)
<1>1. stack[i] \in Frame /\ stack[i].source \in Source
  <2>1. stack[i] \in Frame
    BY DEF TypeOK
  <2> QED
    BY <2>1 DEF Frame
<1> QED
  BY <1>1, WeakFacts DEF Borrows

\* Every step does one of these to the pool "Names", makes or recycles a node,
\* or leaves it alone: where only travel passes nest, no exit recycles a source
\* it does not own.
LEMMA SourceSteps ==
    ASSUME OnlyGuardedNest, TypeOK, SourcesByKind, [Next]_vars
    PROVE  \/ SourceMade \/ SourceBorrowed \/ SourceOverwritten
           \/ SourceRecycled \/ SourceKept \/ SourceForgotten
           \/ \E n \in Node : MakeNode(n) \/ RecycleNode(n)
           \/ UNCHANGED <<names, stack, name, lost>>
<1>1. stack \in Seq(Frame) /\ \A i \in DOMAIN stack : stack[i] \in Frame
  BY DEF TypeOK
<1>2. stack # <<>> => \E i \in DOMAIN stack : Top = stack[i]
  BY <1>1 DEF Top
<1>3. stack # <<>> => Top \in Frame /\ SourceFits(Top)
  BY <1>1, <1>2 DEF SourcesByKind
<1>4. HasUnitCtx => \E i \in DOMAIN stack : UnitCtx = stack[i] /\ stack[i] \in Frame
  BY <1>1, UnitCtxFacts
<1>5. PassKinds \cup {"sub", "process", "tokenize", "literal"} = FrameKinds /\ "travel" \in PassKinds
  BY DEF FrameKinds, PassKinds
<1>6. CanCreate(names) => IsOwning(Ticket(names)) /\ IsLive(Ticket(names))
  BY TicketFacts DEF TypeOK, IsOwning
<1>7. CanCreate(contexts) =>
        /\ \A kind \in FrameKinds \ {"sub"} : CanCreate(names) =>
              /\ RootFrame(kind) \in Frame /\ RootFrame(kind).source = Ticket(names)
              /\ SourceFits(RootFrame(kind))
        /\ \A kind \in FrameKinds, from \in Frame :
              /\ DerivedFrame(kind, from) \in Frame
              /\ DerivedFrame(kind, from).source = Weak(from.source)
              /\ DerivedFrame(kind, from).kind = kind
  BY <1>6, FramesTyped DEF RootFrame, DerivedFrame, SourceFits
<1>8. \A f \in Frame : f.kind = "travel" => SourceFits(f)
  BY DEF SourceFits, GuardedKinds
<1>9. \A f \in Frame, s \in Source : f.kind = "travel" =>
        /\ [f EXCEPT !.source = s] \in Frame
        /\ [f EXCEPT !.source = s].source = s
        /\ [f EXCEPT !.source = s].kind = "travel"
  BY DEF Frame
<1>10. \A i \in DOMAIN stack : Weak(stack[i].source) \in Source
  BY <1>1, WeakFacts DEF Frame
<1>11. ASSUME NEW kind \in PassKinds, StartRootPass(kind) PROVE SourceMade
  <2>1. kind \in FrameKinds \ {"sub"}
    BY <1>5 DEF PassKinds
  <2> QED
    BY <1>7, <1>11, <2>1 DEF StartRootPass, SourceMade
<1>12. ASSUME NEW i \in DOMAIN stack, StartRootTravel(stack[i]) PROVE SourceOverwritten
  <2> DEFINE f == [RootFrame("travel") EXCEPT !.source = Weak(stack[i].source)]
  <2>1. RootFrame("travel") \in Frame /\ RootFrame("travel").kind = "travel"
    BY <1>5, <1>7, <1>12 DEF StartRootTravel, RootFrame
  <2>2. f \in Frame /\ f.source = Weak(stack[i].source) /\ f.kind = "travel"
    BY <1>9, <1>10, <2>1
  <2> HIDE DEF f
  <2>3. Push(f)
    BY <1>12 DEF StartRootTravel, f
  <2>4. SourceFits(f) /\ Borrows(f)
    BY <1>8, <2>2, WeakBorrows
  <2> QED
    BY <1>12, <2>2, <2>3, <2>4 DEF StartRootTravel, SourceOverwritten
<1>13. ASSUME NEW kind \in PassKinds, StartNestedPass(kind) PROVE SourceBorrowed
  <2>1. kind = "travel"
    BY <1>13 DEF StartNestedPass, OnlyGuardedNest, GuardedKinds
  <2>2. PICK i \in DOMAIN stack : UnitCtx = stack[i] /\ stack[i] \in Frame
    BY <1>4, <1>13 DEF StartNestedPass
  <2> DEFINE f == DerivedFrame(kind, UnitCtx)
  <2>3. f \in Frame /\ f.source = Weak(stack[i].source) /\ f.kind = "travel"
    BY <1>5, <1>7, <1>13, <2>1, <2>2 DEF StartNestedPass
  <2>4. Push(f)
    BY <1>13 DEF StartNestedPass
  <2> HIDE DEF f
  <2>5. SourceFits(f) /\ Borrows(f)
    BY <1>8, <2>3, WeakBorrows
  <2> QED
    BY <1>13, <2>3, <2>4, <2>5 DEF StartNestedPass, SourceBorrowed
<1>14. ASSUME NEW i \in DOMAIN stack, StartNestedTravel(stack[i]) PROVE SourceBorrowed
  <2> DEFINE f == [DerivedFrame("travel", UnitCtx) EXCEPT !.source = Weak(stack[i].source)]
  <2>1. DerivedFrame("travel", UnitCtx) \in Frame /\ DerivedFrame("travel", UnitCtx).kind = "travel"
    BY <1>4, <1>5, <1>7, <1>14 DEF StartNestedTravel
  <2>2. f \in Frame /\ f.source = Weak(stack[i].source) /\ f.kind = "travel"
    BY <1>9, <1>10, <2>1
  <2> HIDE DEF f
  <2>3. Push(f)
    BY <1>14 DEF StartNestedTravel, f
  <2>4. SourceFits(f) /\ Borrows(f)
    BY <1>8, <2>2, WeakBorrows
  <2> QED
    BY <1>14, <2>2, <2>3, <2>4 DEF StartNestedTravel, SourceBorrowed
<1>15. ASSUME EndPass PROVE SourceRecycled \/ SourceKept
  <2>1. ~IsOwning(Top.source) => Top.kind \in GuardedKinds
    BY <1>3, <1>15 DEF EndPass, SourceFits
  <2> QED
    BY <1>15, <2>1 DEF EndPass, SourceRecycled, SourceKept
<1>16. ASSUME StartSub PROVE SourceBorrowed
  <2>1. PICK i \in DOMAIN stack : Top = stack[i]
    BY <1>2, <1>16 DEF StartSub
  <2> DEFINE f == DerivedFrame("sub", Top)
  <2>2. f \in Frame /\ f.source = Weak(stack[i].source) /\ f.kind = "sub"
    BY <1>3, <1>5, <1>7, <1>16, <2>1 DEF StartSub
  <2>3. Push(f)
    BY <1>16 DEF StartSub
  <2> HIDE DEF f
  <2>4. Borrows(f)
    BY <2>2, WeakBorrows
  <2>5. SourceFits(f)
    BY <2>2, <2>4 DEF SourceFits, Borrows, PassKinds
  <2> QED
    BY <1>16, <2>2, <2>3, <2>4, <2>5 DEF StartSub, SourceBorrowed
<1>17. ASSUME EndSub PROVE SourceKept
  BY <1>3, <1>17 DEF EndSub, SourceFits, SourceKept
<1>18. ASSUME StartProcess PROVE SourceMade \/ SourceBorrowed
  <2> DEFINE f == [kind |-> "process", ctx |-> Ticket(contexts),
                   source |-> IF IsOwning(UnitCtx.source) THEN Ticket(names) ELSE DeadPtr,
                   parented |-> TRUE]
  <2>1. Ticket(contexts) \in Ptr /\ (IsOwning(UnitCtx.source) => Ticket(names) \in Ptr)
    BY <1>18, TicketFacts DEF StartProcess, TypeOK
  <2>2. f \in Frame /\ f.kind = "process"
        /\ f.source = IF IsOwning(UnitCtx.source) THEN Ticket(names) ELSE DeadPtr
    BY <1>5, <2>1 DEF Frame, Source
  <2> HIDE DEF f
  <2>3. Push(f)
    BY <1>18 DEF StartProcess, f
  <2>4. lost \subseteq lost' /\ name' = name
    BY <1>18 DEF StartProcess
  <2>5. "process" \notin PassKinds
    BY DEF PassKinds
  <2>6. CASE IsOwning(UnitCtx.source)
    <3>1. CanCreate(names) /\ names' = Create(names)
      BY <1>18, <2>6 DEF StartProcess
    <3>2. SourceFits(f) /\ f.source = Ticket(names)
      BY <1>6, <2>2, <2>5, <2>6, <3>1 DEF SourceFits
    <3> QED
      BY <2>2, <2>3, <2>4, <3>1, <3>2 DEF SourceMade
  <2>7. CASE ~IsOwning(UnitCtx.source)
    <3>1. names' = names
      BY <1>18, <2>7 DEF StartProcess
    <3>2. SourceFits(f) /\ Borrows(f)
      BY <2>2, <2>5, <2>7 DEF SourceFits, Borrows, IsOwning, IsLive
    <3> QED
      BY <2>2, <2>3, <2>4, <3>1, <3>2 DEF SourceBorrowed
  <2> QED
    BY <2>6, <2>7
<1>19. ASSUME EndProcess PROVE SourceRecycled \/ SourceKept
  <2>1. ~IsOwning(Top.source) => names' = names
    BY <1>3, <1>19 DEF EndProcess, SourceFits, RecyclePtr
  <2> QED
    BY <1>19, <2>1 DEF EndProcess, SourceRecycled, SourceKept
<1>20. ASSUME NEW kind \in {"tokenize", "literal"}, StartScratch(kind) PROVE SourceMade
  <2>1. kind \in FrameKinds \ {"sub"}
    BY <1>5
  <2> QED
    BY <1>7, <1>20, <2>1 DEF StartScratch, SourceMade
<1>21. ASSUME EndTokenize PROVE SourceRecycled
  BY <1>3, <1>21 DEF EndTokenize, SourceFits, SourceRecycled
<1>22. ASSUME EndLiteral PROVE SourceForgotten
  BY <1>22 DEF EndLiteral, SourceForgotten
<1> QED
  BY <1>11, <1>12, <1>13, <1>14, <1>15, <1>16, <1>17, <1>18, <1>19, <1>20, <1>21, <1>22
     DEF Next, PassStep, vars

-----------------------------------------------------------------------------
(* The owners of source columns after a step. *)

\* A new activity is an owner if its source is owning; the others stay owners.
LEMMA OwnersPushed ==
    ASSUME TypeOK, NEW f \in Frame, Push(f)
    PROVE  /\ Len(stack) \in Nat
           /\ DOMAIN stack = 1 .. Len(stack)
           /\ DOMAIN stack' = 1 .. Len(stack) + 1
           /\ \A i \in DOMAIN stack : stack'[i] = stack[i]
           /\ stack'[Len(stack) + 1] = f
           /\ OwningFrames \subseteq DOMAIN stack
           /\ OwningFrames' = IF IsOwning(f.source)
                              THEN OwningFrames \cup {Len(stack) + 1}
                              ELSE OwningFrames
<1>1. /\ Len(stack) \in Nat
      /\ DOMAIN stack = 1 .. Len(stack)
      /\ DOMAIN stack' = 1 .. Len(stack) + 1
      /\ \A i \in DOMAIN stack : stack'[i] = stack[i]
      /\ stack'[Len(stack) + 1] = f
  BY PushFacts DEF TypeOK
<1>2. OwningFrames' = {i \in 1 .. Len(stack) + 1 : IsOwning(stack'[i].source)}
  BY <1>1 DEF OwningFrames
<1>3. OwningFrames = {i \in 1 .. Len(stack) : IsOwning(stack[i].source)}
  BY <1>1 DEF OwningFrames
<1> QED
  BY <1>1, <1>2, <1>3

\* Ending an activity removes it from the owners and no other.
LEMMA OwnersPopped ==
    ASSUME TypeOK, stack # <<>>, Pop
    PROVE  /\ Len(stack) \in Nat \ {0}
           /\ DOMAIN stack = 1 .. Len(stack)
           /\ DOMAIN stack' = 1 .. Len(stack) - 1
           /\ \A i \in DOMAIN stack' : stack'[i] = stack[i]
           /\ \A i \in DOMAIN stack : stack[i] \in Frame
           /\ Top = stack[Len(stack)]
           /\ OwningFrames \subseteq DOMAIN stack
           /\ OwningFrames' = OwningFrames \ {Len(stack)}
<1>1. /\ Len(stack) \in Nat \ {0}
      /\ DOMAIN stack = 1 .. Len(stack)
      /\ DOMAIN stack' = 1 .. Len(stack) - 1
      /\ \A i \in DOMAIN stack' : stack'[i] = stack[i]
      /\ \A i \in DOMAIN stack : stack[i] \in Frame
      /\ Top = stack[Len(stack)]
  BY PopFacts DEF TypeOK
<1>2. OwningFrames' = {i \in 1 .. Len(stack) - 1 : IsOwning(stack'[i].source)}
  BY <1>1 DEF OwningFrames
<1>3. OwningFrames = {i \in 1 .. Len(stack) : IsOwning(stack[i].source)}
  BY <1>1 DEF OwningFrames
<1> QED
  BY <1>1, <1>2, <1>3

\* What owns a source is typed: owning frames and named nodes hold Ptrs.
LEMMA OwnersTyped ==
    ASSUME TypeOK
    PROVE  /\ \A i \in OwningFrames : stack[i].source \in Ptr /\ stack[i].source # DeadPtr
           /\ \A n \in NamedNodes : name[n] \in Ptr /\ name[n] # DeadPtr
<1>1. \A i \in DOMAIN stack : stack[i] \in Frame
  BY DEF TypeOK
<1> QED
  BY <1>1 DEF TypeOK, OwningFrames, NamedNodes, IsOwning, IsLive, Frame, Source

\* The kinds of the activities and their sources still fit after a push.
LEMMA SourcesByKindPushed ==
    ASSUME TypeOK, SourcesByKind, NEW f \in Frame, Push(f), SourceFits(f)
    PROVE  SourcesByKind'
BY OwnersPushed DEF SourcesByKind, SourceFits, IsOwning, IsLive

\* And after a pop.
LEMMA SourcesByKindPopped ==
    ASSUME TypeOK, SourcesByKind, stack # <<>>, Pop
    PROVE  SourcesByKind'
BY OwnersPopped DEF SourcesByKind, SourceFits, IsOwning, IsLive

\* An activity that borrows from one in progress borrows from its owner.
LEMMA BorrowedPushed ==
    ASSUME TypeOK, BorrowedFromBelow, NEW f \in Frame, Push(f),
           IsOwning(f.source) \/ Borrows(f)
    PROVE  BorrowedFromBelow'
<1>1. /\ Len(stack) \in Nat
      /\ DOMAIN stack = 1 .. Len(stack)
      /\ DOMAIN stack' = 1 .. Len(stack) + 1
      /\ \A i \in DOMAIN stack : stack'[i] = stack[i]
      /\ stack'[Len(stack) + 1] = f
      /\ OwningFrames \subseteq DOMAIN stack
      /\ OwningFrames' = IF IsOwning(f.source)
                         THEN OwningFrames \cup {Len(stack) + 1}
                         ELSE OwningFrames
  BY OwnersPushed
<1> SUFFICES ASSUME NEW i \in DOMAIN stack' \ OwningFrames', IsLive(stack'[i].source)
             PROVE  \E j \in OwningFrames' : /\ j < i
                                             /\ stack'[j].source.idx = stack'[i].source.idx
                                             /\ stack'[j].source.gen = stack'[i].source.gen
  BY DEF BorrowedFromBelow, IsLive
<1>2. CASE i \in DOMAIN stack
  <2>1. i \notin OwningFrames /\ stack'[i] = stack[i]
    BY <1>1, <1>2
  <2>2. PICK j \in OwningFrames : /\ j < i
                                  /\ stack[j].source.idx = stack[i].source.idx
                                  /\ stack[j].source.gen = stack[i].source.gen
    BY <1>2, <2>1 DEF BorrowedFromBelow
  <2> QED
    BY <1>1, <2>1, <2>2
<1>3. CASE i = Len(stack) + 1
  <2>1. Borrows(f) /\ IsLive(f.source)
    BY <1>1, <1>3 DEF Borrows
  <2>2. PICK k \in DOMAIN stack : /\ IsLive(stack[k].source)
                                  /\ stack[k].source.idx = f.source.idx
                                  /\ stack[k].source.gen = f.source.gen
    BY <2>1 DEF Borrows
  <2>3. \E j \in OwningFrames : /\ stack[j].source.idx = f.source.idx
                                /\ stack[j].source.gen = f.source.gen
    BY <2>2 DEF BorrowedFromBelow
  <2> QED
    BY <1>1, <1>3, <2>3
<1> QED
  BY <1>1, <1>2, <1>3

\* The owner outlives whoever borrows from it.
LEMMA BorrowedPopped ==
    ASSUME TypeOK, BorrowedFromBelow, stack # <<>>, Pop
    PROVE  BorrowedFromBelow'
<1>1. /\ Len(stack) \in Nat \ {0}
      /\ DOMAIN stack = 1 .. Len(stack)
      /\ DOMAIN stack' = 1 .. Len(stack) - 1
      /\ \A i \in DOMAIN stack' : stack'[i] = stack[i]
      /\ OwningFrames \subseteq DOMAIN stack
      /\ OwningFrames' = OwningFrames \ {Len(stack)}
  BY OwnersPopped
<1> SUFFICES ASSUME NEW i \in DOMAIN stack' \ OwningFrames', IsLive(stack'[i].source)
             PROVE  \E j \in OwningFrames' : /\ j < i
                                             /\ stack'[j].source.idx = stack'[i].source.idx
                                             /\ stack'[j].source.gen = stack'[i].source.gen
  BY DEF BorrowedFromBelow, IsLive
<1>2. i \in DOMAIN stack \ OwningFrames /\ stack'[i] = stack[i]
  BY <1>1
<1>3. PICK j \in OwningFrames : /\ j < i
                                /\ stack[j].source.idx = stack[i].source.idx
                                /\ stack[j].source.gen = stack[i].source.gen
  BY <1>2 DEF BorrowedFromBelow
<1> QED
  BY <1>1, <1>2, <1>3

-----------------------------------------------------------------------------
(* Every step keeps the sources owned and accounted for. *)

\* A source column made for an activity was nobody's.
LEMMA SourceMadeKeeps ==
    ASSUME TypeOK, NamesInv, NEW f \in Frame, Push(f), SourceFits(f),
           f.source = Ticket(names), CanCreate(names), names' = Create(names),
           name' = name, lost \subseteq lost'
    PROVE  NamesInv'
<1>0. IsOwning(f.source)
  BY TicketFacts DEF TypeOK
<1>1. names \in Pool /\ FreeSound(names)
  BY DEF TypeOK, NamesInv
<1>2. /\ Len(stack) \in Nat
      /\ DOMAIN stack = 1 .. Len(stack)
      /\ \A i \in DOMAIN stack : stack'[i] = stack[i]
      /\ stack'[Len(stack) + 1] = f
      /\ OwningFrames \subseteq DOMAIN stack
      /\ OwningFrames' = IF IsOwning(f.source)
                         THEN OwningFrames \cup {Len(stack) + 1}
                         ELSE OwningFrames
  BY OwnersPushed
<1>3. SourcesByKind' /\ BorrowedFromBelow'
  BY <1>0, SourcesByKindPushed, BorrowedPushed DEF NamesInv
<1>4. NamedNodes' = NamedNodes
  BY DEF NamedNodes, IsLive
<1>5. /\ FreeSound(names')
      /\ CreatedCol(names) \notin UsedCols(names)
      /\ UsedCols(names') = UsedCols(names) \cup {CreatedCol(names)}
      /\ names'.gen = names.gen
  BY <1>1, CreateFacts
<1>6. f.source.idx = CreatedCol(names) /\ f.source.gen = names.gen[CreatedCol(names)]
  BY <1>1, TicketFacts
<1>7. NamesOwned'
  <2>1. \A i \in OwningFrames : stack[i].source.idx # CreatedCol(names)
    BY <1>5 DEF NamesInv, NamesOwned, Holds
  <2>2. \A m \in NamedNodes : name[m].idx # CreatedCol(names)
    BY <1>5 DEF NamesInv, NamesOwned, Holds
  <2>3. \A i \in OwningFrames' : /\ Holds(names', stack'[i].source)
                                 /\ \A m \in NamedNodes : name[m].idx # stack'[i].source.idx
    BY <1>0, <1>2, <1>5, <1>6, <2>2 DEF NamesInv, NamesOwned, Holds
  <2>4. \A i \in OwningFrames' : \A j \in OwningFrames' \ {i} :
            stack'[j].source.idx # stack'[i].source.idx
    BY <1>0, <1>2, <1>6, <2>1 DEF NamesInv, NamesOwned
  <2>5. \A m \in NamedNodes : Holds(names', name[m])
    BY <1>5 DEF NamesInv, NamesOwned, Holds
  <2> QED
    BY <1>4, <2>3, <2>4, <2>5 DEF NamesInv, NamesOwned
<1>8. NamesAccounted'
  <2> SUFFICES ASSUME NEW c \in UsedCols(names'), <<"Names", c>> \notin lost'
               PROVE  \/ \E i \in OwningFrames' : stack'[i].source.idx = c
                      \/ \E m \in NamedNodes' : name'[m].idx = c
    BY DEF NamesAccounted
  <2>1. CASE c = CreatedCol(names)
    BY <1>0, <1>2, <1>6, <2>1
  <2>2. CASE c # CreatedCol(names)
    <3>1. c \in UsedCols(names) /\ <<"Names", c>> \notin lost
      BY <1>5, <2>2
    <3>2. \/ \E i \in OwningFrames : stack[i].source.idx = c
          \/ \E m \in NamedNodes : name[m].idx = c
      BY <3>1 DEF NamesInv, NamesAccounted
    <3> QED
      BY <1>2, <1>4, <3>2
  <2> QED
    BY <2>1, <2>2
<1> QED
  BY <1>3, <1>5, <1>7, <1>8 DEF NamesInv

\* A borrower takes nothing from the pool.
LEMMA SourceBorrowedKeeps ==
    ASSUME TypeOK, NamesInv, NEW f \in Frame, Push(f), SourceFits(f), Borrows(f),
           names' = names, name' = name, lost \subseteq lost'
    PROVE  NamesInv'
<1>0. ~IsOwning(f.source)
  BY DEF Borrows
<1>1. names \in Pool /\ FreeSound(names)
  BY DEF TypeOK, NamesInv
<1>2. /\ Len(stack) \in Nat
      /\ DOMAIN stack = 1 .. Len(stack)
      /\ \A i \in DOMAIN stack : stack'[i] = stack[i]
      /\ stack'[Len(stack) + 1] = f
      /\ OwningFrames \subseteq DOMAIN stack
      /\ OwningFrames' = IF IsOwning(f.source)
                         THEN OwningFrames \cup {Len(stack) + 1}
                         ELSE OwningFrames
  BY OwnersPushed
<1>3. SourcesByKind' /\ BorrowedFromBelow'
  BY SourcesByKindPushed, BorrowedPushed DEF NamesInv
<1>4. NamedNodes' = NamedNodes
  BY DEF NamedNodes, IsLive
<1>5. NamesOwned'
  BY <1>0, <1>2, <1>4 DEF NamesInv, NamesOwned, Holds
<1>6. NamesAccounted'
  <2> SUFFICES ASSUME NEW c \in UsedCols(names'), <<"Names", c>> \notin lost'
               PROVE  \/ \E i \in OwningFrames' : stack'[i].source.idx = c
                      \/ \E m \in NamedNodes' : name'[m].idx = c
    BY DEF NamesAccounted
  <2>1. \/ \E i \in OwningFrames : stack[i].source.idx = c
        \/ \E m \in NamedNodes : name[m].idx = c
    BY DEF NamesInv, NamesAccounted
  <2> QED
    BY <1>0, <1>2, <1>4, <2>1
<1> QED
  BY <1>1, <1>3, <1>5, <1>6 DEF NamesInv

\* A root travel pass with a sub context: the column it made counts as lost.
LEMMA SourceOverwrittenKeeps ==
    ASSUME TypeOK, NamesInv, NEW f \in Frame, Push(f), SourceFits(f), Borrows(f),
           CanCreate(names), names' = Create(names), name' = name,
           lost \cup {<<"Names", CreatedCol(names)>>} \subseteq lost'
    PROVE  NamesInv'
<1>0. ~IsOwning(f.source)
  BY DEF Borrows
<1>1. names \in Pool /\ FreeSound(names)
  BY DEF TypeOK, NamesInv
<1>2. /\ Len(stack) \in Nat
      /\ DOMAIN stack = 1 .. Len(stack)
      /\ \A i \in DOMAIN stack : stack'[i] = stack[i]
      /\ stack'[Len(stack) + 1] = f
      /\ OwningFrames \subseteq DOMAIN stack
      /\ OwningFrames' = IF IsOwning(f.source)
                         THEN OwningFrames \cup {Len(stack) + 1}
                         ELSE OwningFrames
  BY OwnersPushed
<1>3. SourcesByKind' /\ BorrowedFromBelow'
  BY SourcesByKindPushed, BorrowedPushed DEF NamesInv
<1>4. NamedNodes' = NamedNodes
  BY DEF NamedNodes, IsLive
<1>5. /\ FreeSound(names')
      /\ UsedCols(names') = UsedCols(names) \cup {CreatedCol(names)}
      /\ names'.gen = names.gen
  BY <1>1, CreateFacts
<1>6. NamesOwned'
  BY <1>0, <1>2, <1>4, <1>5 DEF NamesInv, NamesOwned, Holds
<1>7. NamesAccounted'
  <2> SUFFICES ASSUME NEW c \in UsedCols(names'), <<"Names", c>> \notin lost'
               PROVE  \/ \E i \in OwningFrames' : stack'[i].source.idx = c
                      \/ \E m \in NamedNodes' : name'[m].idx = c
    BY DEF NamesAccounted
  <2>1. c \in UsedCols(names) /\ <<"Names", c>> \notin lost
    BY <1>5
  <2>2. \/ \E i \in OwningFrames : stack[i].source.idx = c
        \/ \E m \in NamedNodes : name[m].idx = c
    BY <2>1 DEF NamesInv, NamesAccounted
  <2> QED
    BY <1>0, <1>2, <1>4, <2>2
<1> QED
  BY <1>3, <1>5, <1>6, <1>7 DEF NamesInv

\* An exit recycles its own source: every other owner has another column.
LEMMA SourceRecycledKeeps == ASSUME TypeOK, NamesInv, SourceRecycled PROVE NamesInv'
<1>0. /\ stack # <<>> /\ Pop /\ IsOwning(Top.source)
      /\ names' = RecyclePtr(names, Top.source)
      /\ name' = name /\ lost \subseteq lost'
  BY DEF SourceRecycled
<1>1. names \in Pool /\ FreeSound(names)
  BY DEF TypeOK, NamesInv
<1> DEFINE n == Len(stack)
<1>2. /\ n \in Nat \ {0}
      /\ DOMAIN stack = 1 .. n
      /\ DOMAIN stack' = 1 .. n - 1
      /\ \A i \in DOMAIN stack' : stack'[i] = stack[i]
      /\ Top = stack[n]
      /\ OwningFrames \subseteq DOMAIN stack
      /\ OwningFrames' = OwningFrames \ {n}
  BY <1>0, OwnersPopped
<1>3. SourcesByKind' /\ BorrowedFromBelow'
  BY <1>0, SourcesByKindPopped, BorrowedPopped DEF NamesInv
<1>4. NamedNodes' = NamedNodes
  BY <1>0 DEF NamedNodes, IsLive
<1> HIDE DEF n
<1> DEFINE d == Top.source.idx
<1>5. n \in OwningFrames
  BY <1>0, <1>2 DEF OwningFrames
<1>6. d \in UsedCols(names)
  BY <1>2, <1>5 DEF NamesInv, NamesOwned, Holds
<1>7. names' = RecycleCol(names, d)
  BY <1>0 DEF RecyclePtr, IsOwning
<1>8. /\ \A i \in OwningFrames \ {n} : stack[i].source.idx # d
      /\ \A m \in NamedNodes : name[m].idx # d
  BY <1>2, <1>5 DEF NamesInv, NamesOwned
<1>9. \A i \in OwningFrames' : stack'[i] = stack[i] /\ i \in OwningFrames \ {n}
  BY <1>2
<1> HIDE DEF d
<1>10. /\ FreeSound(names')
       /\ UsedCols(names') = UsedCols(names) \ {d}
       /\ names'.gen = [names.gen EXCEPT ![d] = NextGen(names.gen[d])]
  BY <1>1, <1>6, <1>7, RecycleFacts
<1>11. names.gen \in [Column -> Gen]
  BY <1>1 DEF Pool
<1>12. NamesOwned'
  <2>1. \A ptr \in Ptr : ptr.idx # d /\ Holds(names, ptr) => Holds(names', ptr)
    BY <1>10, <1>11 DEF Holds, Ptr
  <2>2. \A i \in OwningFrames' : Holds(names', stack'[i].source)
    BY <1>8, <1>9, <2>1, OwnersTyped DEF NamesInv, NamesOwned
  <2>3. \A m \in NamedNodes : Holds(names', name[m])
    BY <1>8, <2>1, OwnersTyped DEF NamesInv, NamesOwned
  <2> QED
    BY <1>0, <1>4, <1>9, <2>2, <2>3 DEF NamesInv, NamesOwned
<1>13. NamesAccounted'
  <2> SUFFICES ASSUME NEW c \in UsedCols(names'), <<"Names", c>> \notin lost'
               PROVE  \/ \E i \in OwningFrames' : stack'[i].source.idx = c
                      \/ \E m \in NamedNodes' : name'[m].idx = c
    BY DEF NamesAccounted
  <2>1. c \in UsedCols(names) /\ c # d /\ <<"Names", c>> \notin lost
    BY <1>0, <1>10
  <2>2. \/ \E i \in OwningFrames : stack[i].source.idx = c
        \/ \E m \in NamedNodes : name[m].idx = c
    BY <2>1 DEF NamesInv, NamesAccounted
  <2>3. \A i \in OwningFrames : stack[i].source.idx = c => i \in OwningFrames' /\ stack'[i] = stack[i]
    BY <1>2, <1>9, <2>1 DEF d
  <2> QED
    BY <1>0, <1>4, <2>2, <2>3
<1> QED
  BY <1>3, <1>10, <1>12, <1>13 DEF NamesInv

\* An exit without a source of its own leaves every owner as it was.
LEMMA SourceKeptKeeps == ASSUME TypeOK, NamesInv, SourceKept PROVE NamesInv'
<1>0. /\ stack # <<>> /\ Pop /\ ~IsOwning(Top.source)
      /\ names' = names /\ name' = name /\ lost \subseteq lost'
  BY DEF SourceKept
<1>1. names \in Pool /\ FreeSound(names)
  BY DEF TypeOK, NamesInv
<1> DEFINE n == Len(stack)
<1>2. /\ n \in Nat \ {0}
      /\ DOMAIN stack = 1 .. n
      /\ DOMAIN stack' = 1 .. n - 1
      /\ \A i \in DOMAIN stack' : stack'[i] = stack[i]
      /\ Top = stack[n]
      /\ OwningFrames \subseteq DOMAIN stack
      /\ OwningFrames' = OwningFrames \ {n}
  BY <1>0, OwnersPopped
<1>3. SourcesByKind' /\ BorrowedFromBelow'
  BY <1>0, SourcesByKindPopped, BorrowedPopped DEF NamesInv
<1>4. NamedNodes' = NamedNodes
  BY <1>0 DEF NamedNodes, IsLive
<1> HIDE DEF n
<1>5. OwningFrames' = OwningFrames /\ \A i \in OwningFrames : stack'[i] = stack[i]
  <2>1. n \notin OwningFrames
    BY <1>0, <1>2 DEF OwningFrames
  <2> QED
    BY <1>2, <2>1
<1>6. NamesOwned'
  BY <1>0, <1>4, <1>5 DEF NamesInv, NamesOwned, Holds
<1>7. NamesAccounted'
  BY <1>0, <1>4, <1>5 DEF NamesInv, NamesAccounted
<1> QED
  BY <1>0, <1>1, <1>3, <1>6, <1>7 DEF NamesInv

\* compile_literal: its source stays in use and counts as lost.
LEMMA SourceForgottenKeeps == ASSUME TypeOK, NamesInv, SourceForgotten PROVE NamesInv'
<1>0. /\ stack # <<>> /\ Pop
      /\ names' = names /\ name' = name
      /\ lost \subseteq lost' /\ <<"Names", Top.source.idx>> \in lost'
  BY DEF SourceForgotten
<1>1. names \in Pool /\ FreeSound(names)
  BY DEF TypeOK, NamesInv
<1> DEFINE n == Len(stack)
<1>2. /\ n \in Nat \ {0}
      /\ DOMAIN stack = 1 .. n
      /\ DOMAIN stack' = 1 .. n - 1
      /\ \A i \in DOMAIN stack' : stack'[i] = stack[i]
      /\ Top = stack[n]
      /\ OwningFrames \subseteq DOMAIN stack
      /\ OwningFrames' = OwningFrames \ {n}
  BY <1>0, OwnersPopped
<1>3. SourcesByKind' /\ BorrowedFromBelow'
  BY <1>0, SourcesByKindPopped, BorrowedPopped DEF NamesInv
<1>4. NamedNodes' = NamedNodes
  BY <1>0 DEF NamedNodes, IsLive
<1> HIDE DEF n
<1>5. \A i \in OwningFrames' : stack'[i] = stack[i] /\ i \in OwningFrames \ {n}
  BY <1>2
<1>6. NamesOwned'
  BY <1>0, <1>4, <1>5 DEF NamesInv, NamesOwned, Holds
<1>7. NamesAccounted'
  <2> SUFFICES ASSUME NEW c \in UsedCols(names'), <<"Names", c>> \notin lost'
               PROVE  \/ \E i \in OwningFrames' : stack'[i].source.idx = c
                      \/ \E m \in NamedNodes' : name'[m].idx = c
    BY DEF NamesAccounted
  <2>1. \/ \E i \in OwningFrames : stack[i].source.idx = c
        \/ \E m \in NamedNodes : name[m].idx = c
    BY <1>0 DEF NamesInv, NamesAccounted
  <2>2. \A i \in OwningFrames : stack[i].source.idx = c => i \in OwningFrames' /\ stack'[i] = stack[i]
    BY <1>0, <1>2, <1>5
  <2> QED
    BY <1>0, <1>4, <2>1, <2>2
<1> QED
  BY <1>0, <1>1, <1>3, <1>6, <1>7 DEF NamesInv

\* make_node: the name column was nobody's.
LEMMA MakeNodeKeeps == ASSUME TypeOK, NamesInv, NEW n \in Node, MakeNode(n) PROVE NamesInv'
<1>1. /\ names \in Pool /\ FreeSound(names)
      /\ name \in [Node -> Source]
      /\ CanCreate(names) /\ names' = Create(names)
      /\ name' = [name EXCEPT ![n] = Ticket(names)]
      /\ stack' = stack /\ lost' = lost
  BY DEF TypeOK, NamesInv, MakeNode
<1>2. /\ FreeSound(names')
      /\ CreatedCol(names) \notin UsedCols(names)
      /\ UsedCols(names') = UsedCols(names) \cup {CreatedCol(names)}
      /\ names'.gen = names.gen
  BY <1>1, CreateFacts
<1>3. /\ Ticket(names) # DeadPtr
      /\ Ticket(names).idx = CreatedCol(names)
      /\ Ticket(names).gen = names.gen[CreatedCol(names)]
  BY <1>1, TicketFacts
<1>4. NamedNodes' = NamedNodes \cup {n} /\ n \notin NamedNodes
  BY <1>1, <1>3 DEF MakeNode, NamedNodes, IsLive
<1>5. name'[n] = Ticket(names) /\ \A m \in NamedNodes : name'[m] = name[m]
  BY <1>1, <1>4 DEF NamedNodes
<1>6. OwningFrames' = OwningFrames /\ SourcesByKind' /\ BorrowedFromBelow'
  BY <1>1 DEF NamesInv, OwningFrames, SourcesByKind, SourceFits, BorrowedFromBelow,
              IsOwning, IsLive
<1>7. /\ \A i \in OwningFrames : stack[i].source.idx # CreatedCol(names)
      /\ \A m \in NamedNodes : name[m].idx # CreatedCol(names)
  BY <1>2 DEF NamesInv, NamesOwned, Holds
<1>8. NamesOwned'
  <2>1. \A i \in OwningFrames : Holds(names', stack[i].source)
    BY <1>2 DEF NamesInv, NamesOwned, Holds
  <2>2. \A m \in NamedNodes' : Holds(names', name'[m])
    BY <1>2, <1>3, <1>4, <1>5 DEF NamesInv, NamesOwned, Holds
  <2>3. \A i \in OwningFrames : \A m \in NamedNodes' : name'[m].idx # stack[i].source.idx
    BY <1>3, <1>4, <1>5, <1>7 DEF NamesInv, NamesOwned
  <2>4. \A m \in NamedNodes' : \A l \in NamedNodes' \ {m} : name'[l].idx # name'[m].idx
    BY <1>3, <1>4, <1>5, <1>7 DEF NamesInv, NamesOwned
  <2> QED
    BY <1>1, <1>6, <2>1, <2>2, <2>3, <2>4 DEF NamesInv, NamesOwned
<1>9. NamesAccounted'
  <2> SUFFICES ASSUME NEW c \in UsedCols(names'), <<"Names", c>> \notin lost'
               PROVE  \/ \E i \in OwningFrames' : stack'[i].source.idx = c
                      \/ \E m \in NamedNodes' : name'[m].idx = c
    BY DEF NamesAccounted
  <2>1. CASE c = CreatedCol(names)
    BY <1>3, <1>4, <1>5, <2>1
  <2>2. CASE c # CreatedCol(names)
    <3>1. \/ \E i \in OwningFrames : stack[i].source.idx = c
          \/ \E m \in NamedNodes : name[m].idx = c
      BY <1>1, <1>2, <2>2 DEF NamesInv, NamesAccounted
    <3> QED
      BY <1>1, <1>4, <1>5, <1>6, <3>1
  <2> QED
    BY <2>1, <2>2
<1> QED
  BY <1>2, <1>6, <1>8, <1>9 DEF NamesInv

\* recycle_node: only its own name column goes.
LEMMA RecycleNodeKeeps == ASSUME TypeOK, NamesInv, NEW n \in Node, RecycleNode(n) PROVE NamesInv'
<1> DEFINE d == name[n].idx
<1>1. /\ names \in Pool /\ FreeSound(names)
      /\ name \in [Node -> Source]
      /\ IsLive(name[n])
      /\ names' = RecycleCol(names, d)
      /\ name' = [name EXCEPT ![n] = DeadPtr]
      /\ stack' = stack /\ lost' = lost
  BY DEF TypeOK, NamesInv, RecycleNode, RecyclePtr
<1>2. n \in NamedNodes /\ NamedNodes' = NamedNodes \ {n}
  BY <1>1 DEF NamedNodes, IsLive
<1>3. \A m \in NamedNodes \ {n} : name'[m] = name[m]
  BY <1>1 DEF NamedNodes
<1>4. /\ d \in UsedCols(names)
      /\ \A i \in OwningFrames : stack[i].source.idx # d
      /\ \A m \in NamedNodes \ {n} : name[m].idx # d
  BY <1>2 DEF NamesInv, NamesOwned, Holds
<1> HIDE DEF d
<1>5. /\ FreeSound(names')
      /\ UsedCols(names') = UsedCols(names) \ {d}
      /\ names'.gen = [names.gen EXCEPT ![d] = NextGen(names.gen[d])]
  BY <1>1, <1>4, RecycleFacts
<1>6. names.gen \in [Column -> Gen]
  BY <1>1 DEF Pool
<1>7. OwningFrames' = OwningFrames /\ SourcesByKind' /\ BorrowedFromBelow'
  BY <1>1 DEF NamesInv, OwningFrames, SourcesByKind, SourceFits, BorrowedFromBelow,
              IsOwning, IsLive
<1>8. NamesOwned'
  <2>1. \A ptr \in Ptr : ptr.idx # d /\ Holds(names, ptr) => Holds(names', ptr)
    BY <1>5, <1>6 DEF Holds, Ptr
  <2>2. \A i \in OwningFrames : Holds(names', stack[i].source)
    BY <1>4, <2>1, OwnersTyped DEF NamesInv, NamesOwned
  <2>3. \A m \in NamedNodes \ {n} : Holds(names', name[m])
    BY <1>4, <2>1, OwnersTyped DEF NamesInv, NamesOwned
  <2> QED
    BY <1>1, <1>2, <1>3, <1>7, <2>2, <2>3 DEF NamesInv, NamesOwned
<1>9. NamesAccounted'
  <2> SUFFICES ASSUME NEW c \in UsedCols(names'), <<"Names", c>> \notin lost'
               PROVE  \/ \E i \in OwningFrames' : stack'[i].source.idx = c
                      \/ \E m \in NamedNodes' : name'[m].idx = c
    BY DEF NamesAccounted
  <2>1. c \in UsedCols(names) /\ c # d /\ <<"Names", c>> \notin lost
    BY <1>1, <1>5
  <2>2. \/ \E i \in OwningFrames : stack[i].source.idx = c
        \/ \E m \in NamedNodes : name[m].idx = c
    BY <2>1 DEF NamesInv, NamesAccounted
  <2>3. \A m \in NamedNodes : name[m].idx = c => m \in NamedNodes' /\ name'[m] = name[m]
    BY <1>2, <1>3, <2>1 DEF d
  <2> QED
    BY <1>1, <1>7, <2>2, <2>3
<1> QED
  BY <1>5, <1>7, <1>8, <1>9 DEF NamesInv

\* Every step keeps the sources, where only travel passes nest.
LEMMA NextNames == OnlyGuardedNest /\ TypeOK /\ NamesInv /\ [Next]_vars => NamesInv'
<1> SUFFICES ASSUME OnlyGuardedNest, TypeOK, NamesInv, [Next]_vars PROVE NamesInv'
  OBVIOUS
<1>1. CASE SourceMade
  BY <1>1, SourceMadeKeeps DEF SourceMade
<1>2. CASE SourceBorrowed
  BY <1>2, SourceBorrowedKeeps DEF SourceBorrowed
<1>3. CASE SourceOverwritten
  BY <1>3, SourceOverwrittenKeeps DEF SourceOverwritten
<1>4. CASE UNCHANGED <<names, stack, name, lost>>
  BY <1>4 DEF NamesInv, NamesOwned, NamesAccounted, SourcesByKind, SourceFits,
              BorrowedFromBelow, OwningFrames, NamedNodes, IsOwning, IsLive, Holds
<1>5. SourcesByKind
  BY DEF NamesInv
<1> QED
  BY <1>1, <1>2, <1>3, <1>4, <1>5, SourceSteps, SourceRecycledKeeps, SourceKeptKeeps,
     SourceForgottenKeeps, MakeNodeKeeps, RecycleNodeKeeps

-----------------------------------------------------------------------------
(* The results. *)

\* Nothing is in use at first.
LEMMA InitEstablishes == Init => TypeOK /\ ContextsInv /\ NamesInv
<1> SUFFICES ASSUME Init PROVE TypeOK /\ ContextsInv /\ NamesInv
  OBVIOUS
<1>1. EmptyPool \in Pool /\ FreeSound(EmptyPool) /\ UsedCols(EmptyPool) = {}
  BY EmptyFacts
<1>2. /\ contexts = EmptyPool /\ names = EmptyPool /\ stack = <<>>
      /\ name = [n \in Node |-> DeadPtr] /\ lost = {}
  BY DEF Init
<1>3. OwningFrames = {} /\ NamedNodes = {} /\ DOMAIN stack = {}
  BY <1>2 DEF OwningFrames, NamedNodes, IsLive
<1>4. TypeOK
  BY <1>1, <1>2, MaxDepthAssumption DEF TypeOK, Source
<1>5. ContextsInv
  BY <1>1, <1>2, <1>3 DEF ContextsInv, ContextsOwned, ContextsAccounted
<1>6. NamesInv
  BY <1>1, <1>2, <1>3 DEF NamesInv, NamesOwned, NamesAccounted, SourcesByKind,
                         BorrowedFromBelow
<1> QED
  BY <1>4, <1>5, <1>6

\* Types and the pool "Contexts", for any passes that nest.
THEOREM ContextInvariance == Spec => [](TypeOK /\ ContextsInv)
<1>1. Init => TypeOK /\ ContextsInv
  BY InitEstablishes
<1>2. TypeOK /\ ContextsInv /\ [Next]_vars => (TypeOK /\ ContextsInv)'
  BY NextTyped, NextContexts
<1> QED
  BY <1>1, <1>2, PTL DEF Spec

\* The inductive invariant holds in every reachable state where only travel
\* passes are started inside a pass.
THEOREM Invariance == ASSUME OnlyGuardedNest PROVE Spec => []IInv
<1>1. Init => TypeOK /\ ContextsInv /\ NamesInv
  BY InitEstablishes
<1>2. TypeOK /\ ContextsInv /\ NamesInv /\ [Next]_vars => (TypeOK /\ ContextsInv /\ NamesInv)'
  BY NextTyped, NextContexts, NextNames
<1>3. TypeOK /\ ContextsInv /\ NamesInv => IInv
  BY DEF ContextsInv, NamesInv, IInv, OnlyKnownLosses, ContextsAccounted, NamesAccounted
<1> QED
  BY <1>1, <1>2, <1>3, PTL DEF Spec

\* Type correctness, for every pool size, depth and kind of nested pass.
THEOREM TypeCorrect == Spec => []TypeOK
BY ContextInvariance, PTL

\* Each activity keeps its context column to itself until it ends, whatever
\* handlers nest: unit_ctx.parent() is intact when a pass restores it.
THEOREM ContextsApart == Spec => []ContextsOwned
<1>1. ContextsInv => ContextsOwned
  BY DEF ContextsInv
<1> QED
  BY <1>1, ContextInvariance, PTL

\* No exit recycles a source or a name that somebody else owns: the "stale or
\* double-owned Ptr" assertion of Nodenet's recycle never fires.
THEOREM NamesSafe == ASSUME OnlyGuardedNest PROVE Spec => []NamesOwned
<1>1. IInv => NamesOwned
  BY DEF IInv
<1> QED
  BY <1>1, Invariance, PTL

\* A borrowed source text outlives its borrower.
THEOREM BorrowsSafe == ASSUME OnlyGuardedNest PROVE Spec => []BorrowedSourcesLive
<1>1. IInv => BorrowedSourcesLive
  <2> SUFFICES ASSUME IInv, NEW i \in DOMAIN stack, IsLive(stack[i].source)
               PROVE  Holds(names, stack[i].source)
    BY DEF BorrowedSourcesLive
  <2>1. CASE i \in OwningFrames
    BY <2>1 DEF IInv, NamesOwned
  <2>2. CASE i \notin OwningFrames
    <3>1. PICK j \in OwningFrames : /\ stack[j].source.idx = stack[i].source.idx
                                    /\ stack[j].source.gen = stack[i].source.gen
      BY <2>2 DEF IInv, BorrowedFromBelow
    <3>2. Holds(names, stack[j].source)
      BY <3>1 DEF IInv, NamesOwned
    <3> QED
      BY <3>1, <3>2 DEF Holds
  <2> QED
    BY <2>1, <2>2
<1> QED
  BY <1>1, Invariance, PTL

\* No column leaks but where compile_literal, make_context and a root travel
\* pass overwrite or drop the only Ptr to it.
THEOREM LossesKnown == ASSUME OnlyGuardedNest PROVE Spec => []OnlyKnownLosses
<1>1. IInv => OnlyKnownLosses
  BY DEF IInv
<1> QED
  BY <1>1, Invariance, PTL
=============================================================================
