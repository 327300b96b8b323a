-------------------------- MODULE ColumnPoolProofs --------------------------
(***************************************************************************)
(* Proofs about ColumnPool: type correctness, the free stack, exactness of *)
(* the generation test, ownership and absence of leaks, for every number   *)
(* of columns, width of the generation and set of clients.  All of them    *)
(* follow from the inductive invariant IInv, which relates each ticket to  *)
(* the recycle count of its column rather than to its generation.          *)
(***************************************************************************)
EXTENDS ColumnPool, TLAPS, SequenceTheorems

-----------------------------------------------------------------------------
(* The operations of a pool. *)

\* Popping a free stack: the rest is still a stack without duplicates.
LEMMA FrontFacts ==
    ASSUME NEW S, NEW f \in Seq(S), f # <<>>, IsInjective(f)
    PROVE  /\ Front(f) \in Seq(S)
           /\ IsInjective(Front(f))
           /\ Last(f) \in Range(f)
           /\ Range(f) \subseteq S
           /\ Range(Front(f)) = Range(f) \ {Last(f)}
<1>1. Len(f) \in Nat \ {0} /\ DOMAIN f = 1 .. Len(f) /\ \A i \in 1 .. Len(f) : f[i] \in S
  OBVIOUS
<1>2. /\ Front(f) \in Seq(S)
      /\ DOMAIN Front(f) = 1 .. Len(f) - 1
      /\ \A i \in 1 .. Len(f) - 1 : Front(f)[i] = f[i]
  BY <1>1 DEF Front
<1>3. \A i, j \in 1 .. Len(f) : f[i] = f[j] => i = j
  BY <1>1 DEF IsInjective
<1>4. IsInjective(Front(f))
  BY <1>1, <1>2, <1>3 DEF IsInjective
<1>5. Range(f) = {f[i] : i \in 1 .. Len(f)}
  BY <1>1 DEF Range
<1>6. Range(Front(f)) = {f[i] : i \in 1 .. Len(f) - 1}
  BY <1>2 DEF Range
<1>7. Last(f) = f[Len(f)]
  BY DEF Last
<1> QED
  BY <1>1, <1>2, <1>3, <1>4, <1>5, <1>6, <1>7

\* Pushing an index that is not listed keeps the stack without duplicates.
LEMMA AppendFacts ==
    ASSUME NEW S, NEW f \in Seq(S), NEW c \in S, IsInjective(f), c \notin Range(f)
    PROVE  /\ Append(f, c) \in Seq(S)
           /\ IsInjective(Append(f, c))
           /\ Range(Append(f, c)) = Range(f) \cup {c}
<1> DEFINE n == Len(f)
<1>1. n \in Nat /\ DOMAIN f = 1 .. n
  OBVIOUS
<1>2. /\ Append(f, c) \in Seq(S)
      /\ DOMAIN Append(f, c) = 1 .. n + 1
      /\ \A i \in 1 .. n : Append(f, c)[i] = f[i]
      /\ Append(f, c)[n + 1] = c
  OBVIOUS
<1>3. \A i \in 1 .. n : f[i] # c
  BY <1>1 DEF Range
<1>4. \A i, j \in 1 .. n : f[i] = f[j] => i = j
  BY <1>1 DEF IsInjective
<1> HIDE DEF n
<1>5. IsInjective(Append(f, c))
  BY <1>1, <1>2, <1>3, <1>4 DEF IsInjective
<1>6. Range(f) = {f[i] : i \in 1 .. n}
  BY <1>1 DEF Range
<1>7. Range(Append(f, c)) = {Append(f, c)[i] : i \in 1 .. n + 1}
  BY <1>2 DEF Range
<1>8. Range(Append(f, c)) = Range(f) \cup {c}
  BY <1>1, <1>2, <1>6, <1>7
<1> QED
  BY <1>2, <1>5, <1>8

\* A pool before its first column.
LEMMA EmptyFacts == EmptyPool \in Pool /\ FreeSound(EmptyPool) /\ UsedCols(EmptyPool) = {}
<1> USE MaxColsAssumption, GenModAssumption
<1>1. EmptyPool \in Pool
  BY DEF EmptyPool, Pool, Gen, Column
<1>2. MadeCols(EmptyPool) = {} /\ FreeCols(EmptyPool) = {} /\ EmptyPool.free = <<>>
  BY DEF EmptyPool, MadeCols, FreeCols, Range, Column
<1>3. IsInjective(<<>>)
  BY DEF IsInjective
<1> QED
  BY <1>1, <1>2, <1>3 DEF FreeSound, UsedCols

\* create_column: the column handed out was not in use, and no other changes.
LEMMA CreateFacts ==
    ASSUME NEW p \in Pool, FreeSound(p), CanCreate(p)
    PROVE  /\ Create(p) \in Pool
           /\ FreeSound(Create(p))
           /\ CreatedCol(p) \in Column \ UsedCols(p)
           /\ UsedCols(Create(p)) = UsedCols(p) \cup {CreatedCol(p)}
           /\ Create(p).gen = p.gen
           /\ MadeCols(p) \subseteq MadeCols(Create(p))
<1> USE MaxColsAssumption
<1>0. p.free \in Seq(Column) /\ IsInjective(p.free) /\ p.made \in 0 .. MaxCols
  BY DEF Pool, FreeSound
<1>1. CASE p.free # <<>>
  <2>1. /\ Front(p.free) \in Seq(Column)
        /\ IsInjective(Front(p.free))
        /\ Last(p.free) \in Range(p.free)
        /\ Range(p.free) \subseteq Column
        /\ Range(Front(p.free)) = Range(p.free) \ {Last(p.free)}
    BY <1>0, <1>1, FrontFacts
  <2>2. /\ Create(p) = [p EXCEPT !.free = Front(p.free)]
        /\ CreatedCol(p) = Last(p.free)
    BY <1>1 DEF Create, CreatedCol
  <2>3. /\ Create(p) \in Pool
        /\ Create(p).made = p.made
        /\ Create(p).gen = p.gen
        /\ Create(p).free = Front(p.free)
    BY <2>1, <2>2 DEF Pool
  <2>4. MadeCols(Create(p)) = MadeCols(p)
    BY <2>3 DEF MadeCols
  <2> QED
    BY <2>1, <2>2, <2>3, <2>4 DEF FreeSound, UsedCols, FreeCols
<1>2. CASE p.free = <<>>
  <2>1. p.made \in 0 .. MaxCols - 1
    BY <1>0, <1>2 DEF CanCreate
  <2>2. Create(p) = [p EXCEPT !.made = p.made + 1] /\ CreatedCol(p) = p.made
    BY <1>2 DEF Create, CreatedCol
  <2>3. /\ Create(p) \in Pool
        /\ Create(p).made = p.made + 1
        /\ Create(p).gen = p.gen
        /\ Create(p).free = p.free
    BY <2>1, <2>2 DEF Pool
  <2>4. MadeCols(Create(p)) = MadeCols(p) \cup {p.made} /\ p.made \notin MadeCols(p)
    BY <2>1, <2>3 DEF MadeCols, Column
  <2>5. FreeCols(Create(p)) = {} /\ FreeCols(p) = {}
    BY <1>2, <2>3 DEF FreeCols, Range
  <2> QED
    BY <1>0, <2>1, <2>2, <2>3, <2>4, <2>5 DEF FreeSound, UsedCols, Column
<1> QED
  BY <1>1, <1>2

\* The generation stays in range: one more, or GenMod less after a wrap.
LEMMA NextGenFacts ==
    ASSUME NEW g \in Gen
    PROVE  NextGen(g) \in Gen /\ NextGen(g) \in {g + 1, g + 1 - GenMod}
BY GenModAssumption DEF Gen, NextGen

\* recycle_column of a used column: it alone is bumped and freed.
LEMMA RecycleFacts ==
    ASSUME NEW p \in Pool, FreeSound(p), NEW c \in UsedCols(p)
    PROVE  /\ RecycleCol(p, c) \in Pool
           /\ FreeSound(RecycleCol(p, c))
           /\ UsedCols(RecycleCol(p, c)) = UsedCols(p) \ {c}
           /\ RecycleCol(p, c).gen = [p.gen EXCEPT ![c] = NextGen(p.gen[c])]
           /\ MadeCols(RecycleCol(p, c)) = MadeCols(p)
<1>1. c \in Column /\ c \notin Range(p.free) /\ c \in MadeCols(p) /\ p.gen[c] \in Gen
  BY DEF UsedCols, FreeCols, MadeCols, Pool
<1>2. RecycleCol(p, c) = [p EXCEPT !.gen  = [p.gen EXCEPT ![c] = NextGen(p.gen[c])],
                                   !.free = Append(p.free, c)]
  BY <1>1 DEF RecycleCol, FreeCols, Pool
<1>3. /\ Append(p.free, c) \in Seq(Column)
      /\ IsInjective(Append(p.free, c))
      /\ Range(Append(p.free, c)) = Range(p.free) \cup {c}
  BY <1>1, AppendFacts DEF Pool, FreeSound
<1>4. NextGen(p.gen[c]) \in Gen
  BY <1>1, NextGenFacts
<1>5. /\ RecycleCol(p, c) \in Pool
      /\ RecycleCol(p, c).made = p.made
      /\ RecycleCol(p, c).gen = [p.gen EXCEPT ![c] = NextGen(p.gen[c])]
      /\ RecycleCol(p, c).free = Append(p.free, c)
  BY <1>2, <1>3, <1>4 DEF Pool
<1>6. MadeCols(RecycleCol(p, c)) = MadeCols(p)
  BY <1>5 DEF MadeCols
<1> QED
  BY <1>1, <1>3, <1>5, <1>6 DEF FreeSound, UsedCols, FreeCols

\* nuke_subunit: every column is bumped and listed exactly once.
LEMMA NukeFacts ==
    ASSUME NEW p \in Pool
    PROVE  /\ NukePool(p) \in Pool
           /\ FreeSound(NukePool(p))
           /\ UsedCols(NukePool(p)) = {}
           /\ NukePool(p).gen = [c \in Column |-> IF c < p.made
                                                  THEN NextGen(p.gen[c])
                                                  ELSE p.gen[c]]
           /\ MadeCols(NukePool(p)) = MadeCols(p)
<1> USE MaxColsAssumption
<1> DEFINE stack == [i \in 1 .. p.made |-> p.made - i]
           gens  == [c \in Column |-> IF c < p.made THEN NextGen(p.gen[c]) ELSE p.gen[c]]
<1>1. p.made \in 0 .. MaxCols /\ p.gen \in [Column -> Gen]
  BY DEF Pool
<1>2. stack \in Seq(Column)
  <2>1. \A i \in 1 .. p.made : p.made - i \in Column
    BY <1>1 DEF Column
  <2> QED
    BY <1>1, <2>1, IsASeq
<1>3. gens \in [Column -> Gen]
  BY <1>1, NextGenFacts
<1>4. NukePool(p) = [p EXCEPT !.gen = gens, !.free = stack]
  BY DEF NukePool
<1>5. IsInjective(stack)
  BY <1>1 DEF IsInjective
<1>6. Range(stack) = {c \in Column : c < p.made}
  <2>1. \A c \in Column : c < p.made =>
            p.made - c \in 1 .. p.made /\ stack[p.made - c] = c
    BY <1>1 DEF Column
  <2>2. \A i \in 1 .. p.made : stack[i] \in Column /\ stack[i] < p.made
    BY <1>1 DEF Column
  <2> HIDE DEF stack
  <2>3. DOMAIN stack = 1 .. p.made
    BY DEF stack
  <2> QED
    BY <2>1, <2>2, <2>3 DEF Range
<1> HIDE DEF stack, gens
<1>7. /\ NukePool(p) \in Pool
      /\ NukePool(p).made = p.made
      /\ NukePool(p).gen = gens
      /\ NukePool(p).free = stack
  BY <1>2, <1>3, <1>4 DEF Pool
<1> QED
  BY <1>5, <1>6, <1>7 DEF FreeSound, UsedCols, FreeCols, MadeCols, gens

-----------------------------------------------------------------------------

-----------------------------------------------------------------------------
(* Tickets and lives. *)

\* Every ticket anyone holds is a well-formed one.
LEMMA OutstandingTyped ==
    ASSUME TypeOK
    PROVE  Outstanding \in SUBSET Ticket
BY DEF TypeOK, Outstanding

\* For a ticket that is not kept across GenMod recycles, equal generations mean
\* the same life: the arithmetic heart of the generation test.
LEMMA GenMatchesIffCurrent ==
    ASSUME TypeOK, TicketGenerations, NEW t \in Outstanding
    PROVE  GenMatches(t) <=> Current(t)
<1>1. t \in Ticket
  BY OutstandingTyped
<1>2. /\ t.gen \in Nat
      /\ t.life \in Nat
      /\ life[t.idx] \in Nat
      /\ pool.gen[t.idx] \in Nat
      /\ pool.gen[t.idx] < GenMod
      /\ t.gen < GenMod
  BY <1>1, GenModAssumption, MaxLifeAssumption DEF TypeOK, Pool, Ticket, Gen
<1>3. /\ life[t.idx] - t.life \in 0 .. GenMod - 1
      /\ \/ pool.gen[t.idx] = t.gen + (life[t.idx] - t.life)
         \/ pool.gen[t.idx] = t.gen + (life[t.idx] - t.life) - GenMod
  BY DEF TicketGenerations
<1> QED
  BY <1>2, <1>3, GenModAssumption DEF GenMatches, Current

\* Recycling column c ages the tickets of c by one and no others.
LEMMA RecycleAges ==
    ASSUME IInv, NEW c \in UsedCols(pool), MayRecycle(c),
           pool' = RecycleCol(pool, c),
           life' = [life EXCEPT ![c] = @ + 1],
           Outstanding' = Outstanding
    PROVE  /\ pool' \in Pool
           /\ life' \in [Column -> 0 .. MaxLife]
           /\ FreeStackSound'
           /\ TicketGenerations'
           /\ UsedCols(pool') = UsedCols(pool) \ {c}
           /\ \A t \in Outstanding : Current(t)' <=> Current(t) /\ t.idx # c
<1>1. pool \in Pool /\ FreeSound(pool) /\ life \in [Column -> 0 .. MaxLife]
  BY DEF IInv, TypeOK, FreeStackSound
<1>2. /\ pool' \in Pool
      /\ FreeSound(pool')
      /\ UsedCols(pool') = UsedCols(pool) \ {c}
      /\ pool'.gen = [pool.gen EXCEPT ![c] = NextGen(pool.gen[c])]
      /\ MadeCols(pool') = MadeCols(pool)
  BY <1>1, RecycleFacts
<1>3. c \in Column /\ pool.gen \in [Column -> Gen] /\ pool.gen[c] \in Gen
  BY <1>1 DEF UsedCols, MadeCols, Pool
<1>4. NextGen(pool.gen[c]) \in {pool.gen[c] + 1, pool.gen[c] + 1 - GenMod}
      /\ NextGen(pool.gen[c]) \in Gen
  BY <1>3, NextGenFacts
<1>5. life' \in [Column -> 0 .. MaxLife]
  BY <1>1, <1>3, MaxLifeAssumption DEF MayRecycle, LifeLeft
<1>6. \A t \in Outstanding : t \in Ticket /\ t.life <= life[t.idx]
  <2> SUFFICES ASSUME NEW t \in Outstanding PROVE t \in Ticket /\ t.life <= life[t.idx]
    OBVIOUS
  <2>1. t \in Ticket
    BY OutstandingTyped DEF IInv
  <2>2. life[t.idx] - t.life \in 0 .. GenMod - 1
    BY DEF IInv, TicketGenerations
  <2> QED
    BY <1>1, <2>1, <2>2, MaxLifeAssumption, GenModAssumption DEF Ticket
<1>7. TicketGenerations'
  <2> SUFFICES ASSUME NEW t \in Outstanding
               PROVE  /\ t.idx \in MadeCols(pool')
                      /\ life'[t.idx] - t.life \in 0 .. GenMod - 1
                      /\ pool'.gen[t.idx] \in {t.gen + (life'[t.idx] - t.life),
                                           t.gen + (life'[t.idx] - t.life) - GenMod}
    BY DEF TicketGenerations
  <2>1. /\ t.idx \in MadeCols(pool)
        /\ life[t.idx] - t.life \in 0 .. GenMod - 1
        /\ pool.gen[t.idx] \in {t.gen + (life[t.idx] - t.life),
                               t.gen + (life[t.idx] - t.life) - GenMod}
    BY DEF IInv, TicketGenerations
  <2>2. t \in Ticket /\ t.idx \in Column /\ t.gen \in Gen /\ t.life \in 0 .. MaxLife
    BY <1>6 DEF Ticket
  <2>3. CASE t.idx # c
    BY <1>1, <1>2, <1>3, <2>1, <2>2, <2>3
  <2>4. CASE t.idx = c
    <3>1. life'[c] = life[c] + 1 /\ life[c] \in Nat
      BY <1>1, <1>3, MaxLifeAssumption
    <3>2. life[c] + 1 < t.life + GenMod
      BY <2>4 DEF MayRecycle, FreshEnough
    <3>3. pool'.gen[c] = NextGen(pool.gen[c])
      BY <1>2, <1>3
    <3>4. /\ pool.gen[c] \in Nat /\ pool.gen[c] < GenMod
          /\ pool'.gen[c] \in Nat
          /\ t.gen \in Nat /\ t.gen < GenMod
          /\ t.life \in Nat
      BY <1>3, <1>4, <3>3, <2>2, GenModAssumption, MaxLifeAssumption DEF Gen
    <3>5. life'[c] - t.life \in 0 .. GenMod - 1
      BY <2>1, <2>4, <3>1, <3>2, <3>4, GenModAssumption
    <3>6. pool'.gen[c] \in {t.gen + (life'[c] - t.life),
                          t.gen + (life'[c] - t.life) - GenMod}
      BY <2>1, <2>4, <1>4, <3>1, <3>2, <3>3, <3>4, GenModAssumption
    <3> QED
      BY <1>2, <2>1, <2>4, <3>5, <3>6
  <2> QED
    BY <2>3, <2>4
<1>8. \A t \in Outstanding : Current(t)' <=> Current(t) /\ t.idx # c
  <2> SUFFICES ASSUME NEW t \in Outstanding
               PROVE  (life'[t.idx] = t.life) <=> (life[t.idx] = t.life /\ t.idx # c)
    BY DEF Current
  <2> QED
    BY <1>1, <1>3, <1>6, MaxLifeAssumption DEF Ticket
<1> QED
  BY <1>2, <1>5, <1>7, <1>8 DEF FreeStackSound

-----------------------------------------------------------------------------
(* Every step preserves the inductive invariant. *)

\* The empty pool satisfies the inductive invariant.
LEMMA InitEstablishes == Init => IInv
<1> SUFFICES ASSUME Init PROVE IInv
  OBVIOUS
<1> USE MaxColsAssumption, GenModAssumption, MaxLifeAssumption DEF Init
<1>1. Outstanding = {}
  BY DEF Outstanding
<1>2. EmptyPool \in Pool /\ FreeSound(EmptyPool) /\ UsedCols(EmptyPool) = {}
  BY EmptyFacts
<1>3. TypeOK
  <2>1. life \in [Column -> 0 .. MaxLife]
    OBVIOUS
  <2>2. own \in [Client -> SUBSET Ticket]
    OBVIOUS
  <2> QED
    BY <1>2, <2>1, <2>2 DEF TypeOK
<1> QED
  BY <1>1, <1>2, <1>3
     DEF IInv, FreeStackSound, TicketGenerations, TicketLives, UsedReachable

\* Exclusive and shared tickets are the outstanding ones.
LEMMA OutstandingMembers ==
    \A t : t \in Outstanding <=> t \in shared \/ \E cl \in Client : t \in own[cl]
BY DEF Outstanding

\* A step that changes nothing keeps the invariant.
LEMMA StutterKeeps == IInv /\ UNCHANGED vars => IInv'
BY DEF IInv, TypeOK, FreeStackSound, TicketGenerations, TicketLives,
       UsedReachable, Outstanding, Current, vars

\* throw_error and resetting ERROR_FLAG touch no column.
LEMMA SetErrorKeeps ==
    ASSUME IInv, NEW e \in BOOLEAN, SetError(e) PROVE IInv'
BY DEF IInv, TypeOK, FreeStackSound, TicketGenerations, TicketLives,
       UsedReachable, Outstanding, Current, SetError

\* A new ticket: its column was not in use, so no older ticket is current.
LEMMA GetTicketKeeps ==
    ASSUME IInv, NEW cl \in Client, GetTicket(cl) PROVE IInv'
<1> DEFINE c == CreatedCol(pool)
<1>1. /\ pool' \in Pool
      /\ FreeSound(pool')
      /\ c \in Column \ UsedCols(pool)
      /\ UsedCols(pool') = UsedCols(pool) \cup {c}
      /\ pool'.gen = pool.gen
      /\ MadeCols(pool) \subseteq MadeCols(pool')
  BY CreateFacts DEF IInv, TypeOK, FreeStackSound, GetTicket
<1>2. NewTicket = [idx |-> c, gen |-> pool.gen[c], life |-> life[c]]
  BY DEF NewTicket
<1> HIDE DEF c
<1>3. NewTicket \in Ticket
  BY <1>1, <1>2 DEF IInv, TypeOK, Pool, Ticket
<1>4. /\ own' = [own EXCEPT ![cl] = own[cl] \cup {NewTicket}]
      /\ own'[cl] = own[cl] \cup {NewTicket}
      /\ \A cl2 \in Client : cl2 # cl => own'[cl2] = own[cl2]
      /\ UNCHANGED <<shared, err, life, orphans, strays>>
  BY DEF GetTicket, IInv, TypeOK
<1>5. Outstanding' = Outstanding \cup {NewTicket}
  BY <1>4 DEF Outstanding
<1>6. TypeOK'
  BY <1>1, <1>3, <1>4 DEF IInv, TypeOK
<1>7. \A t \in Outstanding : Current(t) => t.idx # c
  BY <1>1 DEF IInv, TicketLives
<1>8. \A t : Current(t)' <=> Current(t)
  BY <1>4 DEF Current
<1>9. Current(NewTicket) /\ NewTicket.idx = c
  BY <1>2 DEF Current
<1>10. c \in MadeCols(pool') /\ c \in UsedCols(pool')
  BY <1>1 DEF UsedCols
<1>11. TicketGenerations'
  <2>1. \A t \in Outstanding :
            /\ t.idx \in MadeCols(pool')
            /\ life'[t.idx] - t.life \in 0 .. GenMod - 1
            /\ pool'.gen[t.idx] \in {t.gen + (life'[t.idx] - t.life),
                                     t.gen + (life'[t.idx] - t.life) - GenMod}
    BY <1>1, <1>4 DEF IInv, TicketGenerations
  <2>2. life[c] - life[c] = 0 /\ pool.gen[c] + 0 = pool.gen[c]
    BY <1>1, MaxLifeAssumption DEF IInv, TypeOK, Pool, Gen
  <2>3. /\ NewTicket.idx \in MadeCols(pool')
        /\ life'[NewTicket.idx] - NewTicket.life \in 0 .. GenMod - 1
        /\ pool'.gen[NewTicket.idx] = NewTicket.gen + (life'[NewTicket.idx] - NewTicket.life)
    BY <1>1, <1>2, <1>4, <1>10, <2>2, GenModAssumption
  <2> QED
    BY <1>5, <2>1, <2>3 DEF TicketGenerations
<1>12. TicketLives'
  <2>1. \A t \in Outstanding' : Current(t)' => t.idx \in UsedCols(pool')
    BY <1>1, <1>5, <1>8, <1>9, <1>10 DEF IInv, TicketLives
  <2>2. \A t : t \in shared \/ (\E k \in Client : t \in own[k]) => t \in Outstanding
    BY OutstandingMembers
  <2>3. ASSUME NEW k \in Client, NEW t \in own'[k], t.idx \notin strays'
        PROVE  /\ Current(t)'
               /\ \A k2 \in Client : \A u \in own'[k2] :
                     u.idx = t.idx => k2 = k /\ u = t
               /\ \A u \in shared' : u.idx = t.idx => ~Current(u)'
    <3>1. CASE t \in own[k]
      <4>1. Current(t) /\ t.idx # c
        BY <1>4, <1>7, <2>2, <2>3, <3>1 DEF IInv, TicketLives
      <4> QED
        BY <1>4, <1>8, <1>9, <2>3, <3>1, <4>1 DEF IInv, TicketLives
    <3>2. CASE t \notin own[k]
      <4>1. k = cl /\ t = NewTicket
        BY <1>4, <3>2
      <4>2. \A k2 \in Client : \A u \in own[k2] : u.idx # c
        BY <1>4, <1>7, <1>9, <2>2, <2>3, <4>1 DEF IInv, TicketLives
      <4> QED
        BY <1>4, <1>7, <1>8, <1>9, <2>2, <4>1, <4>2
    <3> QED
      BY <3>1, <3>2
  <2> QED
    BY <2>1, <2>3 DEF TicketLives
<1>13. UsedReachable'
  BY <1>1, <1>4, <1>5, <1>8, <1>9 DEF IInv, UsedReachable
<1> QED
  BY <1>1, <1>6, <1>11, <1>12, <1>13 DEF IInv, FreeStackSound

\* Under an error the new column gets no ticket: a stray Ptr names it, or none
\* does, and the stray may name a column that has an owner.
LEMMA GetTicketUnderErrorKeeps ==
    ASSUME IInv, GetTicketUnderError PROVE IInv'
<1> DEFINE c == CreatedCol(pool)
<1>1. /\ pool' \in Pool
      /\ FreeSound(pool')
      /\ c \in Column \ UsedCols(pool)
      /\ UsedCols(pool') = UsedCols(pool) \cup {c}
      /\ pool'.gen = pool.gen
      /\ MadeCols(pool) \subseteq MadeCols(pool')
  BY CreateFacts DEF IInv, TypeOK, FreeStackSound, GetTicketUnderError
<1>2. /\ strays' = strays \cup {ErrorIndex}
      /\ orphans' = orphans \cup ({c} \ {ErrorIndex})
      /\ UNCHANGED <<own, shared, err, life>>
  BY DEF GetTicketUnderError
<1>3. ErrorIndex \in Column
  BY <1>1, MaxColsAssumption DEF ErrorIndex, CreatedCol, Column
<1> HIDE DEF c
<1>4. Outstanding' = Outstanding /\ \A t : Current(t)' <=> Current(t)
  BY <1>2 DEF Outstanding, Current
<1>5. TypeOK'
  BY <1>1, <1>2, <1>3 DEF IInv, TypeOK
<1>6. TicketGenerations'
  BY <1>1, <1>2, <1>4 DEF IInv, TicketGenerations
<1>7. TicketLives'
  BY <1>1, <1>2, <1>4 DEF IInv, TicketLives
<1>8. UsedReachable'
  BY <1>1, <1>2, <1>4 DEF IInv, UsedReachable
<1> QED
  BY <1>1, <1>5, <1>6, <1>7, <1>8 DEF IInv, FreeStackSound

\* A Ptr on the dummy pool's column 0 is one more stray on the real column 0.
LEMMA GetTicketFromDummyKeeps ==
    ASSUME IInv, GetTicketFromDummy PROVE IInv'
<1>1. strays' = strays \cup {0} /\ UNCHANGED <<pool, own, shared, err, life, orphans>>
  BY DEF GetTicketFromDummy
<1>2. Outstanding' = Outstanding /\ \A t : Current(t)' <=> Current(t)
  BY <1>1 DEF Outstanding, Current
<1>3. TypeOK'
  BY <1>1, MaxColsAssumption DEF IInv, TypeOK, Column
<1>4. FreeStackSound' /\ TicketGenerations' /\ UsedReachable'
  BY <1>1, <1>2 DEF IInv, FreeStackSound, TicketGenerations, UsedReachable
<1>5. TicketLives'
  BY <1>1, <1>2 DEF IInv, TicketLives
<1> QED
  BY <1>3, <1>4, <1>5 DEF IInv

\* Moving a ticket from its owner to the shared ones changes no column.
LEMMA Handover ==
    ASSUME IInv, NEW cl \in Client, NEW t \in own[cl],
           own' = [own EXCEPT ![cl] = @ \ {t}],
           shared' = shared \cup {t}
    PROVE  /\ own' \in [Client -> SUBSET Ticket]
           /\ shared' \in SUBSET Ticket
           /\ Outstanding' = Outstanding
           /\ \A k \in Client : own'[k] \subseteq own[k]
           /\ t.idx \in strays \/ \A k \in Client : \A u \in own'[k] : u.idx # t.idx
<1>1. /\ own'[cl] = own[cl] \ {t}
      /\ \A k \in Client : k # cl => own'[k] = own[k]
      /\ own' \in [Client -> SUBSET Ticket]
      /\ shared' \in SUBSET Ticket
  BY DEF IInv, TypeOK
<1>2. Outstanding' = Outstanding
  BY <1>1 DEF Outstanding
<1>3. \/ t.idx \in strays
      \/ \A k \in Client : \A u \in own[k] : u.idx = t.idx => k = cl /\ u = t
  BY DEF IInv, TicketLives
<1> QED
  BY <1>1, <1>2, <1>3

\* Copying a ticket to shared places keeps the invariant.
LEMMA ShareKeeps ==
    ASSUME IInv, NEW cl \in Client, NEW t \in own[cl], Share(cl, t) PROVE IInv'
<1>1. /\ own' \in [Client -> SUBSET Ticket]
      /\ shared' \in SUBSET Ticket
      /\ Outstanding' = Outstanding
      /\ \A k \in Client : own'[k] \subseteq own[k]
      /\ t.idx \in strays \/ \A k \in Client : \A u \in own'[k] : u.idx # t.idx
  BY Handover DEF Share
<1>2. shared' = shared \cup {t} /\ UNCHANGED <<pool, err, life, orphans, strays>>
  BY DEF Share
<1>3. \A u : Current(u)' <=> Current(u)
  BY <1>2 DEF Current
<1>4. TypeOK'
  BY <1>1, <1>2 DEF IInv, TypeOK
<1>5. FreeStackSound' /\ TicketGenerations' /\ UsedReachable'
  BY <1>1, <1>2, <1>3 DEF IInv, FreeStackSound, TicketGenerations, UsedReachable
<1>6. TicketLives'
  BY <1>1, <1>2, <1>3 DEF IInv, TicketLives
<1> QED
  BY <1>4, <1>5, <1>6 DEF IInv

\* recycle_column, with or without an active error, by whoever has just let go
\* of the column: its exclusive ticket, if there was one, is shared by now, or
\* a stray Ptr names the column and its ticket is no longer vouched for.
LEMMA RecycleColumnKeeps ==
    ASSUME IInv, NEW c \in MadeCols(pool), MayRecycle(c), RecycleColumn(c),
           own' \in [Client -> SUBSET Ticket], shared' \in SUBSET Ticket,
           Outstanding' = Outstanding,
           \A k \in Client : own'[k] \subseteq own[k],
           \A u \in shared' : u \in shared \/ u.idx = c,
           c \in strays \/ \A k \in Client : \A u \in own'[k] : u.idx # c,
           strays' = strays, err' = err
    PROVE  IInv'
<1>1. ASSUME pool' = pool, life' = life, \/ orphans' = orphans
                                         \/ orphans' = orphans \ {c} /\ c \notin UsedCols(pool)
      PROVE  IInv'
  <2>1. \A u : Current(u)' <=> Current(u)
    BY <1>1 DEF Current
  <2>2. TypeOK'
    BY <1>1 DEF IInv, TypeOK
  <2>3. FreeStackSound' /\ TicketGenerations'
    BY <1>1 DEF IInv, FreeStackSound, TicketGenerations
  <2>4. UsedReachable'
    BY <1>1, <2>1 DEF IInv, UsedReachable
  <2>5. TicketLives'
    <3>1. \A u \in Outstanding' : Current(u)' => u.idx \in UsedCols(pool')
      BY <1>1, <2>1 DEF IInv, TicketLives
    <3>2. ASSUME NEW k \in Client, NEW u \in own'[k], u.idx \notin strays
          PROVE  /\ Current(u)'
                 /\ \A k2 \in Client : \A v \in own'[k2] :
                       v.idx = u.idx => k2 = k /\ v = u
                 /\ \A v \in shared' : v.idx = u.idx => ~Current(v)'
      BY <2>1, <3>2 DEF IInv, TicketLives
    <3> QED
      BY <3>1, <3>2 DEF TicketLives
  <2> QED
    BY <2>2, <2>3, <2>4, <2>5 DEF IInv
<1>2. CASE err
  BY <1>1, <1>2 DEF RecycleColumn
<1>3. CASE ~err /\ c \notin UsedCols(pool)
  <2>1. c \in FreeCols(pool)
    BY <1>3 DEF UsedCols
  <2> QED
    BY <1>1, <1>3, <2>1 DEF RecycleColumn, RecycleCol
<1>4. CASE ~err /\ c \in UsedCols(pool)
  <2>1. /\ pool' = RecycleCol(pool, c)
        /\ life' = [life EXCEPT ![c] = @ + 1]
        /\ orphans' = orphans \ {c}
    BY <1>4 DEF RecycleColumn, UsedCols
  <2>2. /\ pool' \in Pool
        /\ life' \in [Column -> 0 .. MaxLife]
        /\ FreeStackSound'
        /\ TicketGenerations'
        /\ UsedCols(pool') = UsedCols(pool) \ {c}
        /\ \A u \in Outstanding : Current(u)' <=> Current(u) /\ u.idx # c
    BY <1>4, <2>1, RecycleAges
  <2>3. TypeOK'
    BY <2>1, <2>2 DEF IInv, TypeOK
  <2>4. TicketLives'
    <3>1. \A u \in Outstanding' : Current(u)' => u.idx \in UsedCols(pool')
      BY <2>2 DEF IInv, TicketLives
    <3>2. ASSUME NEW k \in Client, NEW u \in own'[k], u.idx \notin strays
          PROVE  /\ Current(u)'
                 /\ \A k2 \in Client : \A v \in own'[k2] :
                       v.idx = u.idx => k2 = k /\ v = u
                 /\ \A v \in shared' : v.idx = u.idx => ~Current(v)'
      <4>1. u \in own[k] /\ u.idx # c
        BY <3>2
      <4>2. /\ Current(u)
            /\ \A k2 \in Client : \A v \in own[k2] : v.idx = u.idx => k2 = k /\ v = u
            /\ \A v \in shared : v.idx = u.idx => ~Current(v)
        BY <3>2, <4>1 DEF IInv, TicketLives
      <4>3. u \in Outstanding /\ \A v \in shared : v \in Outstanding
        BY <4>1, OutstandingMembers
      <4> QED
        BY <2>2, <4>1, <4>2, <4>3
    <3> QED
      BY <3>1, <3>2 DEF TicketLives
  <2>5. UsedReachable'
    BY <2>1, <2>2 DEF IInv, UsedReachable
  <2> QED
    BY <2>2, <2>3, <2>4, <2>5 DEF IInv
<1> QED
  BY <1>2, <1>3, <1>4

\* Recycling a current shared ticket.
LEMMA SharedRecycleKeeps ==
    ASSUME IInv, NEW t \in shared, Current(t), MayRecycle(t.idx),
           RecycleColumn(t.idx), UNCHANGED <<own, shared, strays, err>>
    PROVE  IInv'
<1>1. t \in Outstanding /\ t.idx \in MadeCols(pool)
  BY OutstandingMembers DEF IInv, TicketLives, UsedCols
<1>2. Outstanding' = Outstanding
  BY DEF Outstanding
<1>3. t.idx \in strays \/ \A k \in Client : \A u \in own[k] : u.idx # t.idx
  BY DEF IInv, TicketLives
<1>4. own' \in [Client -> SUBSET Ticket] /\ shared' \in SUBSET Ticket
  BY DEF IInv, TypeOK
<1> QED
  BY <1>1, <1>2, <1>3, <1>4, RecycleColumnKeeps

\* recycle_node and recycle_value keep the invariant.
LEMMA RecycleIfCurrentKeeps ==
    ASSUME IInv, NEW t \in shared, RecycleIfCurrent(t) PROVE IInv'
<1>1. GenMatches(t) <=> Current(t)
  BY GenMatchesIffCurrent, OutstandingMembers DEF IInv
<1>2. CASE GenMatches(t)
  BY <1>1, <1>2, SharedRecycleKeeps DEF RecycleIfCurrent, IInv, TypeOK
<1>3. CASE ~GenMatches(t)
  BY <1>3, StutterKeeps DEF RecycleIfCurrent, vars
<1> QED
  BY <1>2, <1>3

\* Nodenet's recycle keeps the invariant, whether or not it raises the error.
LEMMA RecyclePtrKeeps ==
    ASSUME IInv, NEW t \in shared, RecyclePtr(t) PROVE IInv'
<1>1. GenMatches(t) <=> Current(t)
  BY GenMatchesIffCurrent, OutstandingMembers DEF IInv
<1>2. CASE GenMatches(t)
  BY <1>1, <1>2, SharedRecycleKeeps DEF RecyclePtr, IInv, TypeOK
<1>3. CASE ~GenMatches(t)
  BY <1>3, SetErrorKeeps DEF RecyclePtr, SetError
<1> QED
  BY <1>2, <1>3

\* Unit::recycle_column by the exclusive holder keeps the invariant.
LEMMA RecycleKeeps ==
    ASSUME IInv, NEW cl \in Client, NEW t \in own[cl], Recycle(cl, t) PROVE IInv'
<1>1. /\ own' \in [Client -> SUBSET Ticket]
      /\ shared' \in SUBSET Ticket
      /\ Outstanding' = Outstanding
      /\ \A k \in Client : own'[k] \subseteq own[k]
      /\ t.idx \in strays \/ \A k \in Client : \A u \in own'[k] : u.idx # t.idx
  BY Handover DEF Recycle
<1>2. /\ shared' = shared \cup {t}
      /\ MayRecycle(t.idx)
      /\ RecycleColumn(t.idx)
      /\ UNCHANGED <<err, strays>>
  BY DEF Recycle
<1>3. t.idx \in MadeCols(pool)
  BY OutstandingMembers DEF IInv, TicketGenerations
<1> QED
  BY <1>1, <1>2, <1>3, RecycleColumnKeeps

\* A stray Ptr recycles its column from under whoever owns it, or fails.
LEMMA RecycleStrayKeeps ==
    ASSUME IInv, NEW c \in strays, RecycleStray(c) PROVE IInv'
<1>1. CASE c \in MadeCols(pool)
  <2>1. RecycleColumn(c) /\ MayRecycle(c) /\ UNCHANGED <<own, shared, strays, err>>
    BY <1>1 DEF RecycleStray
  <2>2. Outstanding' = Outstanding
    BY <2>1 DEF Outstanding
  <2>3. own' \in [Client -> SUBSET Ticket] /\ shared' \in SUBSET Ticket
    BY <2>1 DEF IInv, TypeOK
  <2> QED
    BY <1>1, <2>1, <2>2, <2>3, RecycleColumnKeeps
<1>2. CASE c \notin MadeCols(pool)
  BY <1>2, SetErrorKeeps DEF RecycleStray, SetError
<1> QED
  BY <1>1, <1>2

\* Dropping a stale Ptr loses no column.
LEMMA ForgetKeeps ==
    ASSUME IInv, NEW t \in shared, Forget(t) PROVE IInv'
<1>1. /\ shared' = shared \ {t}
      /\ ~Current(t)
      /\ UNCHANGED <<pool, own, err, life, orphans, strays>>
  BY DEF Forget
<1>2. \A u : Current(u)' <=> Current(u)
  BY <1>1 DEF Current
<1>3. /\ Outstanding' \subseteq Outstanding
      /\ \A u \in Outstanding : u # t => u \in Outstanding'
  BY <1>1 DEF Outstanding
<1>4. TypeOK'
  BY <1>1 DEF IInv, TypeOK
<1>5. FreeStackSound' /\ TicketGenerations'
  BY <1>1, <1>3 DEF IInv, FreeStackSound, TicketGenerations
<1>6. TicketLives'
  BY <1>1, <1>2, <1>3 DEF IInv, TicketLives
<1>7. UsedReachable'
  BY <1>1, <1>2, <1>3 DEF IInv, UsedReachable
<1> QED
  BY <1>4, <1>5, <1>6, <1>7 DEF IInv

\* nuke_subunit keeps the invariant: every outstanding ticket turns stale.
LEMMA NukeKeeps ==
    ASSUME IInv, Nuke PROVE IInv'
<1>1. /\ pool' = NukePool(pool)
      /\ life' = [c \in Column |-> IF c < pool.made THEN life[c] + 1 ELSE life[c]]
      /\ own' = [cl \in Client |-> {}]
      /\ shared' = Outstanding
      /\ orphans' = {}
      /\ UNCHANGED <<err, strays>>
      /\ \A c \in MadeCols(pool) : MayRecycle(c)
  BY DEF Nuke
<1>2. /\ pool' \in Pool
      /\ FreeSound(pool')
      /\ UsedCols(pool') = {}
      /\ pool'.gen = [c \in Column |-> IF c < pool.made
                                       THEN NextGen(pool.gen[c])
                                       ELSE pool.gen[c]]
      /\ MadeCols(pool') = MadeCols(pool)
  BY <1>1, NukeFacts DEF IInv, TypeOK
<1>3. Outstanding' = Outstanding
  BY <1>1 DEF Outstanding
<1>4. life \in [Column -> 0 .. MaxLife] /\ pool.gen \in [Column -> Gen]
  BY DEF IInv, TypeOK, Pool
<1>5. life' \in [Column -> 0 .. MaxLife]
  <2>1. \A c \in Column : c < pool.made => life[c] < MaxLife
    BY <1>1 DEF MadeCols, MayRecycle, LifeLeft
  <2> QED
    BY <1>1, <1>4, <2>1, MaxLifeAssumption
<1>6. TypeOK'
  <2>1. Outstanding \in SUBSET Ticket
    BY OutstandingTyped DEF IInv
  <2> QED
    BY <1>1, <1>2, <1>5, <2>1 DEF IInv, TypeOK
<1>7. ASSUME NEW t \in Outstanding
      PROVE  /\ t.idx \in MadeCols(pool')
             /\ life'[t.idx] - t.life \in 1 .. GenMod - 1
             /\ pool'.gen[t.idx] \in {t.gen + (life'[t.idx] - t.life),
                                  t.gen + (life'[t.idx] - t.life) - GenMod}
  <2>1. /\ t.idx \in MadeCols(pool)
        /\ life[t.idx] - t.life \in 0 .. GenMod - 1
        /\ pool.gen[t.idx] \in {t.gen + (life[t.idx] - t.life),
                               t.gen + (life[t.idx] - t.life) - GenMod}
    BY DEF IInv, TicketGenerations
  <2>2. t.idx \in Column /\ t.gen \in Gen /\ t.life \in 0 .. MaxLife
    BY OutstandingTyped DEF IInv, Ticket
  <2>3. life'[t.idx] = life[t.idx] + 1 /\ pool'.gen[t.idx] = NextGen(pool.gen[t.idx])
    BY <1>1, <1>2, <2>1, <2>2 DEF MadeCols
  <2>4. life[t.idx] + 1 < t.life + GenMod
    BY <1>1, <2>1 DEF MayRecycle, FreshEnough
  <2>5. NextGen(pool.gen[t.idx]) \in {pool.gen[t.idx] + 1, pool.gen[t.idx] + 1 - GenMod}
        /\ NextGen(pool.gen[t.idx]) \in Gen
    BY <1>4, <2>2, NextGenFacts
  <2>6. /\ pool.gen[t.idx] \in Nat /\ pool.gen[t.idx] < GenMod
        /\ pool'.gen[t.idx] \in Nat
        /\ t.gen \in Nat /\ t.gen < GenMod
        /\ t.life \in Nat /\ life[t.idx] \in Nat
    BY <1>4, <2>2, <2>3, <2>5, GenModAssumption, MaxLifeAssumption DEF Gen
  <2>7. life'[t.idx] - t.life \in 1 .. GenMod - 1
    BY <2>1, <2>3, <2>4, <2>6, GenModAssumption
  <2>8. pool'.gen[t.idx] \in {t.gen + (life'[t.idx] - t.life),
                             t.gen + (life'[t.idx] - t.life) - GenMod}
    BY <2>1, <2>3, <2>4, <2>5, <2>6, GenModAssumption
  <2> QED
    BY <1>2, <2>1, <2>7, <2>8
<1>8. \A t \in Outstanding : life'[t.idx] # t.life
  <2>1. \A t \in Outstanding : t.idx \in Column /\ t.life \in Nat
    BY OutstandingTyped, MaxLifeAssumption DEF IInv, Ticket
  <2> QED
    BY <1>5, <1>7, <2>1, GenModAssumption, MaxLifeAssumption
<1>9. TicketGenerations'
  BY <1>3, <1>7, GenModAssumption DEF TicketGenerations
<1>10. TicketLives'
  BY <1>1, <1>3, <1>8 DEF TicketLives, Current
<1>11. UsedReachable'
  BY <1>2 DEF UsedReachable
<1> QED
  BY <1>2, <1>6, <1>9, <1>10, <1>11 DEF IInv, FreeStackSound

\* Every step keeps the inductive invariant.
LEMMA NextKeeps == IInv /\ [Next]_vars => IInv'
<1> SUFFICES ASSUME IInv, [Next]_vars PROVE IInv'
  OBVIOUS
<1>1. CASE UNCHANGED vars
  BY <1>1, StutterKeeps
<1>2. ASSUME NEW cl \in Client, ClientStep(cl) PROVE IInv'
  BY <1>2, GetTicketKeeps, ShareKeeps, RecycleKeeps DEF ClientStep
<1>3. ASSUME NEW t \in shared, SharedStep(t) PROVE IInv'
  BY <1>3, RecycleIfCurrentKeeps, RecyclePtrKeeps, ForgetKeeps DEF SharedStep
<1>4. CASE GetTicketUnderError \/ GetTicketFromDummy
  BY <1>4, GetTicketUnderErrorKeeps, GetTicketFromDummyKeeps
<1>5. ASSUME NEW c \in strays, RecycleStray(c) PROVE IInv'
  BY <1>5, RecycleStrayKeeps
<1>6. CASE Nuke
  BY <1>6, NukeKeeps
<1>7. ASSUME NEW e \in BOOLEAN, SetError(e) PROVE IInv'
  BY <1>7, SetErrorKeeps
<1> QED
  BY <1>1, <1>2, <1>3, <1>4, <1>5, <1>6, <1>7 DEF Next

-----------------------------------------------------------------------------
(* The results. *)

\* The inductive invariant holds in every reachable state.
THEOREM Invariance == Spec => []IInv
<1>1. Init => IInv
  BY InitEstablishes
<1>2. IInv /\ [Next]_vars => IInv'
  BY NextKeeps
<1> QED
  BY <1>1, <1>2, PTL DEF Spec

\* Type correctness: Ptr::gen and Col::gen stay 16-bit values, the stack holds
\* column indices.
THEOREM TypeCorrect == Spec => []TypeOK
BY Invariance, PTL DEF IInv

\* No column is ever listed twice on the free stack, so popping it never
\* hands one column to two callers, strays and their recycles included.
THEOREM FreeStackSafe == Spec => []FreeStackSound
BY Invariance, PTL DEF IInv

\* recycle_node's and recycle_value's generation test is exact for every width
\* of the generation, as long as no Ptr outlives GenMod recycles.
THEOREM StaleDetection == Spec => []StaleDetected
<1>1. IInv => StaleDetected
  <2> SUFFICES ASSUME IInv, NEW t \in Outstanding
               PROVE  /\ GenMatches(t) <=> Current(t)
                      /\ GenMatches(t) => t.idx \in UsedCols(pool)
    BY DEF StaleDetected
  <2>1. GenMatches(t) <=> Current(t)
    BY GenMatchesIffCurrent DEF IInv
  <2> QED
    BY <2>1 DEF IInv, TicketLives
<1> QED
  BY <1>1, Invariance, PTL

\* Exclusive tickets keep their column whatever the other clients do, errors
\* and Ptrs issued under them included, unless the column is the very one that
\* get_ticket gave away a second time while an error was active.
THEOREM Ownership == Spec => []OwnersIntact
<1>1. IInv => OwnersIntact
  <2> SUFFICES ASSUME IInv, NEW cl \in Client, NEW t \in own[cl],
                             t.idx \notin strays
               PROVE  /\ t.idx \in UsedCols(pool)
                      /\ GenMatches(t)
                      /\ \A cl2 \in Client : \A u \in own[cl2] :
                            u.idx = t.idx => cl2 = cl /\ u = t
                      /\ \A u \in shared : u.idx = t.idx => ~GenMatches(u)
    BY DEF OwnersIntact
  <2>1. \A u \in Outstanding : GenMatches(u) <=> Current(u)
    BY GenMatchesIffCurrent DEF IInv
  <2>2. t \in Outstanding /\ \A u \in shared : u \in Outstanding
    BY OutstandingMembers
  <2> QED
    BY <2>1, <2>2 DEF IInv, TicketLives
<1> QED
  BY <1>1, Invariance, PTL

\* A column leaves the pool's reach only when it is pushed under an error.
THEOREM LeakFreedom == Spec => []NoLeak
<1>1. IInv => NoLeak
  <2> SUFFICES ASSUME IInv PROVE NoLeak
    OBVIOUS
  <2>1. \A u \in Outstanding : GenMatches(u) <=> Current(u)
    BY GenMatchesIffCurrent DEF IInv
  <2> QED
    BY <2>1 DEF IInv, UsedReachable, NoLeak
<1> QED
  BY <1>1, Invariance, PTL

-----------------------------------------------------------------------------
(* The column pool implements ColumnAllocator: recycled indices and        *)
(* wrapping generations are as good as identities that are never reused.   *)

\* Two generations that reach the same one after equally many steps are equal.
LEMMA SameStart ==
    ASSUME NEW m \in Nat, NEW a \in 0 .. m - 1, NEW b \in 0 .. m - 1,
           NEW d \in 0 .. m - 1, NEW g \in {a + d, a + d - m}, g \in {b + d, b + d - m}
    PROVE  a = b
<1>1. CASE g = a + d
  BY <1>1
<1>2. CASE g = a + d - m
  BY <1>2
<1> QED
  BY <1>1, <1>2

\* Among outstanding tickets an identity determines the generation.
LEMMA IdDeterminesTicket ==
    ASSUME IInv, NEW t \in Outstanding, NEW u \in Outstanding, IdOf(t) = IdOf(u)
    PROVE  t = u
<1>1. t \in Ticket /\ u \in Ticket
  BY OutstandingTyped DEF IInv
<1>2. t.idx = u.idx /\ t.life = u.life
  BY DEF IdOf
<1>3. t.gen \in 0 .. GenMod - 1 /\ u.gen \in 0 .. GenMod - 1
  BY <1>1 DEF Ticket, Gen
<1>4. /\ pool.gen[t.idx] \in {t.gen + (life[t.idx] - t.life),
                              t.gen + (life[t.idx] - t.life) - GenMod}
      /\ pool.gen[t.idx] \in {u.gen + (life[t.idx] - t.life),
                              u.gen + (life[t.idx] - t.life) - GenMod}
      /\ life[t.idx] - t.life \in 0 .. GenMod - 1
  BY <1>2 DEF IInv, TicketGenerations
<1>5. t.gen = u.gen
  <2> DEFINE d == life[t.idx] - t.life
             g == pool.gen[t.idx]
  <2>1. /\ t.gen \in 0 .. GenMod - 1 /\ u.gen \in 0 .. GenMod - 1
        /\ d \in 0 .. GenMod - 1
        /\ g \in {t.gen + d, t.gen + d - GenMod}
        /\ g \in {u.gen + d, u.gen + d - GenMod}
    BY <1>3, <1>4
  <2> HIDE DEF d, g
  <2> QED
    BY <2>1, SameStart, GenModAssumption
<1> QED
  BY <1>1, <1>2, <1>5 DEF Ticket

\* An identity is live exactly when its ticket is current.
LEMMA LiveIffCurrent ==
    ASSUME IInv, NEW t \in Outstanding
    PROVE  IdOf(t) \in LiveIds <=> Current(t)
<1>1. Current(t) => t.idx \in UsedCols(pool)
  BY DEF IInv, TicketLives
<1> QED
  BY <1>1 DEF IdOf, LiveIds, Current

\* The allocator's outstanding identities are those of the tickets.
LEMMA OutstandingIdsAre == Allocator!Outstanding = IdsOf(Outstanding)
BY DEF Allocator!Outstanding, OwnIds, IdsOf, Outstanding

\* Creating a column adds the identity of a ticket nobody holds, at a place
\* nobody uses.
LEMMA CreateIsFresh ==
    ASSUME IInv, CanCreate(pool), pool' = Create(pool), life' = life,
           NEW id, id = <<CreatedCol(pool), life[CreatedCol(pool)]>>
    PROVE  id \in Allocator!Fresh /\ LiveIds' = LiveIds \cup {id}
<1> DEFINE c == CreatedCol(pool)
<1>1. c \in Column \ UsedCols(pool) /\ UsedCols(pool') = UsedCols(pool) \cup {c}
  BY CreateFacts DEF IInv, TypeOK, FreeStackSound
<1> HIDE DEF c
<1>2. id = <<c, life[c]>>
  BY DEF c
<1>3. id \in Column \X (0 .. MaxLife)
  BY <1>1, <1>2 DEF IInv, TypeOK
<1>4. Allocator!At(id[1]) = {}
  BY <1>1, <1>2 DEF LiveIds, Allocator!At
<1>5. \A t \in Outstanding : IdOf(t) # id
  BY <1>1, <1>2 DEF IdOf, IInv, TicketLives, Current
<1>6. LiveIds' = LiveIds \cup {id}
  BY <1>1, <1>2 DEF LiveIds
<1>7. id \notin Allocator!Outstanding
  BY <1>5, OutstandingIdsAre DEF IdsOf
<1> QED
  BY <1>3, <1>4, <1>6, <1>7 DEF Allocator!Fresh

\* recycle_column ends whatever identity its column has, and no other.
LEMMA RecycleEndsPlace ==
    ASSUME IInv, NEW c \in MadeCols(pool), RecycleColumn(c)
    PROVE  LiveIds' = IF err THEN LiveIds ELSE LiveIds \ Allocator!At(c)
<1>1. CASE err
  BY <1>1 DEF RecycleColumn, LiveIds
<1>2. CASE ~err /\ c \notin UsedCols(pool)
  <2>1. c \in FreeCols(pool)
    BY <1>2 DEF UsedCols
  <2>2. UNCHANGED <<pool, life>>
    BY <1>2, <2>1 DEF RecycleColumn, RecycleCol
  <2>3. LiveIds' = LiveIds /\ Allocator!At(c) = {}
    BY <1>2, <2>2 DEF LiveIds, Allocator!At
  <2> QED
    BY <1>2, <2>3
<1>3. CASE ~err /\ c \in UsedCols(pool)
  <2>1. /\ pool' = RecycleCol(pool, c)
        /\ life' = [life EXCEPT ![c] = @ + 1]
    BY <1>3 DEF RecycleColumn, UsedCols
  <2>2. UsedCols(pool') = UsedCols(pool) \ {c}
    BY <1>3, <2>1, RecycleFacts DEF IInv, TypeOK, FreeStackSound
  <2>3. UsedCols(pool) \subseteq Column /\ life \in [Column -> 0 .. MaxLife]
    BY DEF IInv, TypeOK, UsedCols, MadeCols
  <2>4. \A d \in UsedCols(pool) \ {c} : life'[d] = life[d]
    BY <2>1, <2>3
  <2>5. LiveIds' = {<<d, life[d]>> : d \in UsedCols(pool) \ {c}}
    BY <2>2, <2>4 DEF LiveIds
  <2>6. Allocator!At(c) = {<<c, life[c]>>}
    BY <1>3 DEF LiveIds, Allocator!At
  <2> QED
    BY <1>3, <2>5, <2>6 DEF LiveIds
<1> QED
  BY <1>1, <1>2, <1>3

\* The identity of a current ticket is the one its column has.
LEMMA CurrentIsAt ==
    ASSUME IInv, NEW t \in Outstanding, Current(t)
    PROVE  t.idx \in MadeCols(pool) /\ Allocator!At(t.idx) = {IdOf(t)}
<1>1. t.idx \in UsedCols(pool)
  BY DEF IInv, TicketLives
<1>2. IdOf(t) = <<t.idx, life[t.idx]>>
  BY DEF IdOf, Current
<1>3. Allocator!At(t.idx) = {<<t.idx, life[t.idx]>>}
  BY <1>1 DEF LiveIds, Allocator!At
<1> QED
  BY <1>1, <1>2, <1>3 DEF UsedCols

\* The owner's ticket leaves its set and joins the shared ones.
LEMMA HandoverIds ==
    ASSUME IInv, NEW cl \in Client, NEW t \in own[cl],
           own' = [own EXCEPT ![cl] = @ \ {t}],
           shared' = shared \cup {t}
    PROVE  /\ IdOf(t) \in OwnIds[cl]
           /\ OwnIds' = [OwnIds EXCEPT ![cl] = @ \ {IdOf(t)}]
           /\ IdsOf(shared)' = IdsOf(shared) \cup {IdOf(t)}
<1>1. \A u \in own[cl] : IdOf(u) = IdOf(t) => u = t
  BY OutstandingMembers, IdDeterminesTicket
<1>2. own' = [own EXCEPT ![cl] = own[cl] \ {t}] /\ own \in [Client -> SUBSET Ticket]
  BY DEF IInv, TypeOK
<1>3. IdsOf(own[cl] \ {t}) = IdsOf(own[cl]) \ {IdOf(t)}
  BY <1>1 DEF IdsOf
<1>4. OwnIds' = [OwnIds EXCEPT ![cl] = OwnIds[cl] \ {IdOf(t)}]
  BY <1>2, <1>3 DEF OwnIds
<1>5. IdsOf(shared)' = IdsOf(shared) \cup {IdOf(t)}
  BY DEF IdsOf
<1>6. IdOf(t) \in OwnIds[cl]
  BY DEF OwnIds, IdsOf
<1> QED
  BY <1>4, <1>5, <1>6

-----------------------------------------------------------------------------
(* Step simulation. *)

\* The empty pool is the empty allocator.
LEMMA InitRefines == Init => Allocator!Init
<1> SUFFICES ASSUME Init PROVE Allocator!Init
  OBVIOUS
<1>1. UsedCols(pool) = {}
  BY MaxColsAssumption DEF Init, EmptyPool, UsedCols, MadeCols, Column
<1> QED
  BY <1>1 DEF Init, Allocator!Init, LiveIds, OwnIds, IdsOf

\* get_ticket allocates an identity never used before.
LEMMA GetTicketRefines ==
    ASSUME IInv, NEW cl \in Client, GetTicket(cl) PROVE Allocator!Allocate(cl)
<1> DEFINE id == IdOf(NewTicket)
<1>1. id = <<CreatedCol(pool), life[CreatedCol(pool)]>>
  BY DEF IdOf, NewTicket
<1>2. id \in Allocator!Fresh /\ LiveIds' = LiveIds \cup {id}
  BY <1>1, CreateIsFresh DEF GetTicket
<1>3. OwnIds' = [OwnIds EXCEPT ![cl] = OwnIds[cl] \cup {id}]
  <2>1. own' = [own EXCEPT ![cl] = own[cl] \cup {NewTicket}]
        /\ own \in [Client -> SUBSET Ticket]
    BY DEF GetTicket, IInv, TypeOK
  <2>2. IdsOf(own[cl] \cup {NewTicket}) = IdsOf(own[cl]) \cup {id}
    BY DEF IdsOf
  <2> QED
    BY <2>1, <2>2 DEF OwnIds
<1>4. ~err /\ UNCHANGED <<IdsOf(shared), strays, err>>
  BY DEF GetTicket, IdsOf
<1> HIDE DEF id
<1> QED
  BY <1>2, <1>3, <1>4 DEF Allocator!Allocate

\* get_ticket under an active error uses up a place and gives one away.
LEMMA MisallocateRefines ==
    ASSUME IInv, GetTicketUnderError \/ GetTicketFromDummy
    PROVE  Allocator!Misallocate
<1> DEFINE id == <<CreatedCol(pool), life[CreatedCol(pool)]>>
<1>1. CASE GetTicketUnderError
  <2>1. id \in Allocator!Fresh /\ LiveIds' = LiveIds \cup {id}
    BY <1>1, CreateIsFresh DEF GetTicketUnderError
  <2>2. err /\ UNCHANGED <<OwnIds, IdsOf(shared), err>>
    BY <1>1 DEF GetTicketUnderError, OwnIds, IdsOf
  <2>3. ErrorIndex \in Column /\ strays' = strays \cup {ErrorIndex}
    <3>1. CreatedCol(pool) \in Column
      BY <1>1, CreateFacts DEF GetTicketUnderError, IInv, TypeOK, FreeStackSound
    <3> QED
      BY <1>1, <3>1, MaxColsAssumption DEF GetTicketUnderError, ErrorIndex, CreatedCol, Column
  <2> HIDE DEF id
  <2> QED
    BY <2>1, <2>2, <2>3 DEF Allocator!Misallocate
<1>2. CASE GetTicketFromDummy
  <2>1. err /\ UNCHANGED <<LiveIds, OwnIds, IdsOf(shared), err>>
    BY <1>2 DEF GetTicketFromDummy, LiveIds, OwnIds, IdsOf
  <2>2. 0 \in Column /\ strays' = strays \cup {0}
    BY <1>2, MaxColsAssumption DEF GetTicketFromDummy, Column
  <2> QED
    BY <2>1, <2>2 DEF Allocator!Misallocate
<1> QED
  BY <1>1, <1>2

\* Copying a ticket shares its identity.
LEMMA ShareRefines ==
    ASSUME IInv, NEW cl \in Client, NEW t \in own[cl], Share(cl, t)
    PROVE  IdOf(t) \in OwnIds[cl] /\ Allocator!Share(cl, IdOf(t))
<1>1. /\ IdOf(t) \in OwnIds[cl]
      /\ OwnIds' = [OwnIds EXCEPT ![cl] = @ \ {IdOf(t)}]
      /\ IdsOf(shared)' = IdsOf(shared) \cup {IdOf(t)}
  BY HandoverIds DEF Share
<1>2. UNCHANGED <<LiveIds, strays, err>>
  BY DEF Share, LiveIds
<1> QED
  BY <1>1, <1>2 DEF Allocator!Share

\* Unit::recycle_column releases an identity, or fails under an error.
LEMMA RecycleRefines ==
    ASSUME IInv, NEW cl \in Client, NEW t \in own[cl], Recycle(cl, t)
    PROVE  IdOf(t) \in OwnIds[cl] /\ Allocator!Release(cl, IdOf(t))
<1>1. /\ IdOf(t) \in OwnIds[cl]
      /\ OwnIds' = [OwnIds EXCEPT ![cl] = @ \ {IdOf(t)}]
      /\ IdsOf(shared)' = IdsOf(shared) \cup {IdOf(t)}
  BY HandoverIds DEF Recycle
<1>2. t \in Outstanding /\ t.idx \in MadeCols(pool)
  BY OutstandingMembers DEF IInv, TicketGenerations
<1>3. LiveIds' = IF err THEN LiveIds ELSE LiveIds \ Allocator!Ended(IdOf(t))
  <2>1. LiveIds' = IF err THEN LiveIds ELSE LiveIds \ Allocator!At(t.idx)
    BY <1>2, RecycleEndsPlace DEF Recycle
  <2>2. IdOf(t)[1] = t.idx
    BY DEF IdOf
  <2>3. CASE t.idx \in strays
    BY <2>1, <2>2, <2>3 DEF Allocator!Ended
  <2>4. CASE t.idx \notin strays
    <3>1. Current(t)
      BY <2>4 DEF IInv, TicketLives
    <3>2. Allocator!At(t.idx) = {IdOf(t)}
      BY <1>2, <3>1, CurrentIsAt
    <3> QED
      BY <2>1, <2>2, <2>4, <3>2 DEF Allocator!Ended
  <2> QED
    BY <2>3, <2>4
<1>4. UNCHANGED <<strays, err>>
  BY DEF Recycle
<1> QED
  BY <1>1, <1>3, <1>4 DEF Allocator!Release

\* What the two checked recycles have in common.
LEMMA SharedRecycleIds ==
    ASSUME IInv, NEW t \in shared, UNCHANGED <<own, shared>>,
           IF GenMatches(t) THEN RecycleColumn(t.idx) ELSE UNCHANGED <<pool, life, orphans>>
    PROVE  /\ IdOf(t) \in IdsOf(shared)
           /\ GenMatches(t) <=> IdOf(t) \in LiveIds
           /\ UNCHANGED <<OwnIds, IdsOf(shared)>>
           /\ LiveIds' = IF err THEN LiveIds ELSE LiveIds \ {IdOf(t)}
<1>1. t \in Outstanding
  BY OutstandingMembers
<1>2. (GenMatches(t) <=> Current(t)) /\ (IdOf(t) \in LiveIds <=> Current(t))
  BY <1>1, GenMatchesIffCurrent, LiveIffCurrent DEF IInv
<1>3. UNCHANGED <<OwnIds, IdsOf(shared)>>
  BY DEF OwnIds, IdsOf
<1>4. CASE GenMatches(t)
  BY <1>1, <1>2, <1>3, <1>4, CurrentIsAt, RecycleEndsPlace DEF IdsOf
<1>5. CASE ~GenMatches(t)
  <2>1. LiveIds' = LiveIds
    BY <1>5 DEF LiveIds
  <2> QED
    BY <1>2, <1>3, <1>5, <2>1 DEF IdsOf
<1> QED
  BY <1>4, <1>5

\* A checked recycle releases a live identity and ignores a dead one.
LEMMA SharedStepRefines ==
    ASSUME IInv, NEW t \in shared, SharedStep(t)
    PROVE  /\ IdOf(t) \in IdsOf(shared)
           /\ \/ Allocator!ReleaseShared(IdOf(t))
              \/ Allocator!ReleaseOrFail(IdOf(t))
              \/ Allocator!Forget(IdOf(t))
<1>1. CASE RecycleIfCurrent(t)
  <2>1. UNCHANGED <<strays, err>>
    BY <1>1 DEF RecycleIfCurrent
  <2> QED
    BY <1>1, <2>1, SharedRecycleIds DEF RecycleIfCurrent, Allocator!ReleaseShared
<1>2. CASE RecyclePtr(t)
  <2>1. /\ IdOf(t) \in IdsOf(shared)
        /\ GenMatches(t) <=> IdOf(t) \in LiveIds
        /\ UNCHANGED <<OwnIds, IdsOf(shared)>>
        /\ LiveIds' = IF err THEN LiveIds ELSE LiveIds \ {IdOf(t)}
    BY <1>2, SharedRecycleIds DEF RecyclePtr
  <2>2. /\ ~err /\ strays' = strays
        /\ IF GenMatches(t) THEN err' = err ELSE err' = TRUE
    BY <1>2 DEF RecyclePtr
  <2> QED
    BY <2>1, <2>2 DEF Allocator!ReleaseOrFail
<1>3. CASE Forget(t)
  <2>1. t \in Outstanding /\ IdOf(t) \notin LiveIds
    BY <1>3, OutstandingMembers, LiveIffCurrent DEF Forget
  <2>2. \A u \in shared : IdOf(u) = IdOf(t) => u = t
    BY OutstandingMembers, IdDeterminesTicket
  <2>3. IdsOf(shared)' = IdsOf(shared) \ {IdOf(t)}
    BY <1>3, <2>2 DEF Forget, IdsOf
  <2>4. UNCHANGED <<LiveIds, OwnIds, strays, err>>
    BY <1>3 DEF Forget, LiveIds, OwnIds
  <2>5. IdOf(t) \in IdsOf(shared)
    BY DEF IdsOf
  <2> QED
    BY <2>1, <2>3, <2>4, <2>5 DEF Allocator!Forget
<1> QED
  BY <1>1, <1>2, <1>3 DEF SharedStep

\* A stray recycle ends the identity of its place, changes nothing, or fails.
LEMMA RecycleStrayRefines ==
    ASSUME IInv, NEW c \in strays, RecycleStray(c)
    PROVE  [Allocator!ReleaseStray(c) \/ Allocator!SetError(TRUE)]_(Allocator!vars)
<1>1. UNCHANGED <<OwnIds, IdsOf(shared), strays>>
  BY DEF RecycleStray, OwnIds, IdsOf
<1>2. CASE c \in MadeCols(pool)
  <2>1. RecycleColumn(c) /\ UNCHANGED err
    BY <1>2 DEF RecycleStray
  <2>2. LiveIds' = IF err THEN LiveIds ELSE LiveIds \ Allocator!At(c)
    BY <1>2, <2>1, RecycleEndsPlace
  <2> QED
    BY <1>1, <2>1, <2>2 DEF Allocator!ReleaseStray, Allocator!vars
<1>3. CASE c \notin MadeCols(pool)
  <2>1. err' = TRUE /\ LiveIds' = LiveIds
    BY <1>3 DEF RecycleStray, LiveIds
  <2> QED
    BY <1>1, <2>1 DEF Allocator!SetError
<1> QED
  BY <1>2, <1>3

\* nuke_subunit releases every identity at once.
LEMMA NukeRefines == ASSUME IInv, Nuke PROVE Allocator!ReleaseAll
<1>1. UsedCols(pool') = {}
  BY NukeFacts DEF Nuke, IInv, TypeOK
<1>2. LiveIds' = {}
  BY <1>1 DEF LiveIds
<1>3. OwnIds' = [cl \in Client |-> {}]
  BY DEF Nuke, OwnIds, IdsOf
<1>4. IdsOf(shared)' = Allocator!Outstanding
  BY OutstandingIdsAre DEF Nuke, IdsOf
<1>5. UNCHANGED <<strays, err>>
  BY DEF Nuke
<1> QED
  BY <1>2, <1>3, <1>4, <1>5 DEF Allocator!ReleaseAll

\* Every step is a step of the allocator or leaves it unchanged.
LEMMA NextRefines ==
    IInv /\ [Next]_vars => [Allocator!Next]_(Allocator!vars)
<1> SUFFICES ASSUME IInv, [Next]_vars PROVE [Allocator!Next]_(Allocator!vars)
  OBVIOUS
<1>1. CASE UNCHANGED vars
  <2>1. UNCHANGED <<LiveIds, OwnIds, IdsOf(shared), strays, err>>
    BY <1>1 DEF vars, LiveIds, OwnIds, IdsOf
  <2> QED
    BY <2>1 DEF Allocator!vars
<1>2. ASSUME NEW cl \in Client, ClientStep(cl) PROVE Allocator!Next
  <2>1. CASE GetTicket(cl)
    BY <2>1, GetTicketRefines DEF Allocator!Next
  <2>2. ASSUME NEW t \in own[cl], Share(cl, t) PROVE Allocator!Next
    <3>1. IdOf(t) \in OwnIds[cl] /\ Allocator!Share(cl, IdOf(t))
      BY <2>2, ShareRefines
    <3> QED
      BY <3>1 DEF Allocator!Next
  <2>3. ASSUME NEW t \in own[cl], Recycle(cl, t) PROVE Allocator!Next
    <3>1. IdOf(t) \in OwnIds[cl] /\ Allocator!Release(cl, IdOf(t))
      BY <2>3, RecycleRefines
    <3> QED
      BY <3>1 DEF Allocator!Next
  <2> QED
    BY <1>2, <2>1, <2>2, <2>3 DEF ClientStep
<1>3. ASSUME NEW t \in shared, SharedStep(t) PROVE Allocator!Next
  BY <1>3, SharedStepRefines DEF Allocator!Next
<1>4. CASE GetTicketUnderError \/ GetTicketFromDummy
  BY <1>4, MisallocateRefines DEF Allocator!Next
<1>5. ASSUME NEW c \in strays, RecycleStray(c)
      PROVE  [Allocator!Next]_(Allocator!vars)
  <2>1. [Allocator!ReleaseStray(c) \/ Allocator!SetError(TRUE)]_(Allocator!vars)
    BY <1>5, RecycleStrayRefines
  <2> QED
    BY <2>1 DEF Allocator!Next
<1>6. CASE Nuke
  BY <1>6, NukeRefines DEF Allocator!Next
<1>7. ASSUME NEW e \in BOOLEAN, SetError(e) PROVE Allocator!Next
  <2>1. err' = e /\ UNCHANGED <<LiveIds, OwnIds, IdsOf(shared), strays>>
    BY <1>7 DEF SetError, LiveIds, OwnIds, IdsOf
  <2> QED
    BY <2>1 DEF Allocator!Next, Allocator!SetError
<1> QED
  BY <1>1, <1>2, <1>3, <1>4, <1>5, <1>6, <1>7 DEF Next

\* Every behaviour of the pool is, through identities, a behaviour of the
\* allocator: a Ptr kept past its column's recycling is never confused with
\* the column's next user, and a Ptr issued under an error can end only what
\* is at the one place it names.
THEOREM Refinement == Spec => ImplementsAllocator
<1>1. Init => Allocator!Init
  BY InitRefines
<1>2. IInv /\ [Next]_vars => [Allocator!Next]_(Allocator!vars)
  BY NextRefines
<1> QED
  BY <1>1, <1>2, Invariance, PTL DEF Spec, ImplementsAllocator, Allocator!Spec
=============================================================================
