--------------------------- MODULE ColLockProofs ---------------------------
(***************************************************************************)
(* Proofs about ColLock, for every number of threads and width of the      *)
(* byte: types, mutual exclusion and that it implements RWLock.  The       *)
(* inductive invariant says that the byte is exactly the number of readers *)
(* plus the writer's bit; a bit that a timed try_lock has left set is      *)
(* allowed for, it harms progress and not exclusion.                       *)
(***************************************************************************)
EXTENDS ColLock, TLAPS, FiniteSetTheorems

Inside  == {"reading", "sub"}
Writing == {"writing", "clear"}
WithBit == {"drain", "writing", "clear"}

\* The three sets of threads after thread t has moved to l.
LEMMA SetsAfter ==
    ASSUME TypeOK, NEW t \in Thread, NEW l, pc' = [pc EXCEPT ![t] = l]
    PROVE  /\ Readers' = IF l \in Inside THEN Readers \cup {t} ELSE Readers \ {t}
           /\ Writers' = IF l \in Writing THEN Writers \cup {t} ELSE Writers \ {t}
           /\ BitHolders' = IF l \in WithBit THEN BitHolders \cup {t}
                                             ELSE BitHolders \ {t}
<1>1. \A u \in Thread : pc'[u] = IF u = t THEN l ELSE pc[u]
  BY DEF TypeOK
<1> QED
  BY <1>1 DEF Readers, Writers, BitHolders, Inside, Writing, WithBit

\* The same for a thread whose call ends outside.
LEMMA IdleLeaves ==
    ASSUME TypeOK, NEW t \in Thread, pc' = [pc EXCEPT ![t] = "idle"]
    PROVE  /\ Readers' = Readers \ {t}
           /\ Writers' = Writers \ {t}
           /\ BitHolders' = BitHolders \ {t}
<1>1. \A u \in Thread : pc'[u] = IF u = t THEN "idle" ELSE pc[u]
  BY DEF TypeOK
<1> QED
  BY <1>1 DEF Readers, Writers, BitHolders

\* The same for a thread that stays in the sets it is in.
LEMMA SetsStay ==
    ASSUME TypeOK, NEW t \in Thread, NEW l, pc' = [pc EXCEPT ![t] = l],
           l \in Inside <=> pc[t] \in Inside,
           l \in Writing <=> pc[t] \in Writing,
           l \in WithBit <=> pc[t] \in WithBit
    PROVE  Readers' = Readers /\ Writers' = Writers /\ BitHolders' = BitHolders
<1>1. \A u \in Thread : /\ pc'[u] \in Inside <=> pc[u] \in Inside
                        /\ pc'[u] \in Writing <=> pc[u] \in Writing
                        /\ pc'[u] \in WithBit <=> pc[u] \in WithBit
  BY DEF TypeOK
<1> QED
  BY <1>1 DEF Readers, Writers, BitHolders, Inside, Writing, WithBit

\* There are finitely many readers.
LEMMA ReaderCount ==
    /\ IsFiniteSet(Readers)
    /\ Cardinality(Readers) \in Nat
    /\ Cardinality(Readers) = 0 <=> Readers = {}
<1>1. IsFiniteSet(Readers)
  <2>1. Readers \in SUBSET Thread
    BY DEF Readers
  <2> QED
    BY <2>1, ThreadAssumption, FS_Subset
<1> QED
  BY <1>1, FS_CardinalityType, FS_EmptySet

\* The initial state: one reader, the creator.
LEMMA InitEstablishes == Init => IInv
<1> SUFFICES ASSUME Init PROVE IInv
  OBVIOUS
<1>1. Readers = {Creator} /\ Writers = {} /\ BitHolders = {}
  BY ThreadAssumption DEF Init, Readers, Writers, BitHolders
<1>2. Cardinality(Readers) = 1
  BY <1>1, FS_Singleton
<1>3. TypeOK
  BY WBitAssumption DEF Init, TypeOK, PCs, Modes
<1>4. CasGuarded
  BY DEF Init, CasGuarded
<1> QED
  BY <1>1, <1>2, <1>3, <1>4, WBitAssumption
     DEF Init, IInv, CountExact, ReadersFit, OneBitHolder, WriterAlone

\* A thread moves between places where it neither reads, writes nor has set
\* the bit, or gives a bit up that stays set, and the byte is as before.
LEMMA QuietMove ==
    ASSUME IInv, NEW t \in Thread, NEW l \in PCs, NEW c \in 0 .. 2 * WBit - 1,
           l \notin Inside \cup WithBit, pc[t] \notin Inside \cup Writing,
           l = "lockCas" => c < WBit,
           l = "readCas" => c < WBit - 1,
           live' = live, mode' \in [Thread -> Modes],
           pc' = [pc EXCEPT ![t] = l], cur' = [cur EXCEPT ![t] = c]
    PROVE  IInv'
<1>1. Readers' = Readers /\ Writers' = Writers /\ BitHolders' = BitHolders \ {t}
  <2>1. t \notin Readers /\ t \notin Writers
    BY DEF Readers, Writers, Inside, Writing
  <2>2. TypeOK /\ l \notin Inside /\ l \notin Writing /\ l \notin WithBit
    BY DEF IInv, Writing, WithBit
  <2>3. /\ Readers' = Readers \ {t}
        /\ Writers' = Writers \ {t}
        /\ BitHolders' = BitHolders \ {t}
    BY <2>2, SetsAfter
  <2> QED
    BY <2>1, <2>3
<1>2. TypeOK'
  BY DEF IInv, TypeOK
<1>3. CasGuarded'
  <2> SUFFICES ASSUME NEW u \in Thread
               PROVE  /\ pc'[u] = "lockCas" => cur'[u] < WBit
                      /\ pc'[u] = "readCas" => cur'[u] < WBit - 1
    BY DEF CasGuarded
  <2>1. CASE u = t
    BY <2>1 DEF IInv, TypeOK
  <2>2. CASE u # t
    BY <2>2 DEF IInv, TypeOK, CasGuarded
  <2> QED
    BY <2>1, <2>2
<1>4. CountExact' /\ ReadersFit' /\ OneBitHolder' /\ WriterAlone'
  BY <1>1 DEF IInv, CountExact, ReadersFit, OneBitHolder, WriterAlone
<1> QED
  BY <1>2, <1>3, <1>4 DEF IInv

\* What any move to a place outside the two exchanges keeps.
LEMMA PlainMove ==
    ASSUME IInv, NEW t \in Thread, NEW l \in PCs, l \notin {"lockCas", "readCas"},
           live' \in 0 .. 2 * WBit - 1, Goto(t, l) \/ Return(t, l)
    PROVE  /\ TypeOK' /\ CasGuarded'
           /\ pc' = [pc EXCEPT ![t] = l]
           /\ mode' \in [Thread -> Modes]
           /\ cur' = [cur EXCEPT ![t] = 0]
<1>1. /\ pc' = [pc EXCEPT ![t] = l]
      /\ mode' \in [Thread -> Modes]
      /\ cur' = [cur EXCEPT ![t] = 0]
  BY DEF IInv, TypeOK, Goto, GotoWith, Return, Modes
<1>2. TypeOK'
  BY <1>1, WBitAssumption DEF IInv, TypeOK
<1>3. CasGuarded'
  BY <1>1 DEF IInv, TypeOK, CasGuarded
<1> QED
  BY <1>1, <1>2, <1>3

\* Thread t comes to hold the writer's bit, or holds it and goes on.
LEMMA BitMove ==
    ASSUME IInv, NEW t \in Thread, NEW l \in WithBit,
           pc[t] \notin Inside,
           BitHolders \subseteq {t},
           l \in Writing => Readers = {},
           live' = Cardinality(Readers) + WBit,
           Goto(t, l) \/ Return(t, l)
    PROVE  IInv'
<1>1. live' \in 0 .. 2 * WBit - 1
  BY ReaderCount, WBitAssumption DEF IInv, ReadersFit
<1>2. l \in PCs /\ l \notin {"lockCas", "readCas"}
  BY DEF WithBit, PCs
<1>3. TypeOK' /\ CasGuarded' /\ pc' = [pc EXCEPT ![t] = l]
  BY <1>1, <1>2, PlainMove
<1>4. t \notin Readers
  BY DEF Readers, Inside
<1>5. /\ Readers' = Readers
      /\ Writers' = IF l \in Writing THEN Writers \cup {t} ELSE Writers \ {t}
      /\ BitHolders' = {t}
  <2>1. TypeOK /\ l \notin Inside /\ l \in WithBit
    BY DEF IInv, Inside, WithBit
  <2>2. /\ Readers' = Readers \ {t}
        /\ Writers' = IF l \in Writing THEN Writers \cup {t} ELSE Writers \ {t}
        /\ BitHolders' = BitHolders \cup {t}
    BY <1>3, <2>1, SetsAfter
  <2> QED
    BY <1>4, <2>2
<1>6. Writers \subseteq {t}
  BY DEF BitHolders
<1>7. WriterAlone'
  <2>1. CASE l \in Writing
    BY <2>1, <1>5 DEF WriterAlone
  <2>2. CASE l \notin Writing
    BY <2>2, <1>5, <1>6 DEF WriterAlone
  <2> QED
    BY <2>1, <2>2
<1> QED
  BY <1>3, <1>5, <1>7 DEF IInv, CountExact, ReadersFit, OneBitHolder

\* What the value of the byte says about who is inside.
LEMMA ByteSays ==
    ASSUME IInv
    PROVE  /\ live < WBit => live = Cardinality(Readers) /\ BitHolders = {} /\ Writers = {}
           /\ live = 0 => Readers = {}
           /\ live = WBit => Readers = {} /\ Cardinality(Readers) = 0
<1>1. Cardinality(Readers) \in Nat /\ (Cardinality(Readers) = 0 <=> Readers = {})
  BY ReaderCount
<1>2. CountExact /\ ReadersFit /\ live \in Nat
  BY WBitAssumption DEF IInv, TypeOK
<1>3. live < WBit => live = Cardinality(Readers) /\ BitHolders = {}
  BY <1>1, <1>2, WBitAssumption DEF CountExact
<1>4. BitHolders = {} => Writers = {}
  BY DEF BitHolders
<1>5. live = WBit => Cardinality(Readers) = 0
  BY <1>1, <1>2, WBitAssumption DEF CountExact, ReadersFit
<1> QED
  BY <1>1, <1>2, <1>3, <1>4, <1>5, WBitAssumption

-----------------------------------------------------------------------------
(* Every action keeps the invariant. *)

\* Calling try_lock or try_read.
LEMMA BeginKeeps == ASSUME IInv, NEW t \in Thread, Begin(t) PROVE IInv'
<1> PICK m \in Modes : BeginLock(t, m) \/ BeginRead(t, m)
  BY DEF Begin
<1>1. /\ pc[t] = "idle" /\ live' = live /\ cur' = cur
      /\ mode' = [mode EXCEPT ![t] = m]
  BY DEF BeginLock, BeginRead
<1>2. PICK l \in {"lockOnce", "lockLoad", "readLoad"} : pc' = [pc EXCEPT ![t] = l]
  BY DEF BeginLock, BeginRead
<1>3. cur' = [cur EXCEPT ![t] = cur[t]] /\ cur[t] \in 0 .. 2 * WBit - 1
  BY <1>1 DEF IInv, TypeOK
<1>4. mode' \in [Thread -> Modes]
  BY <1>1 DEF IInv, TypeOK
<1>5. l \in PCs /\ l \notin Inside \cup WithBit /\ l \notin {"lockCas", "readCas"}
  BY DEF PCs, Inside, WithBit
<1>6. pc[t] \notin Inside \cup Writing
  BY <1>1 DEF Inside, Writing
<1> QED
  BY <1>1, <1>2, <1>3, <1>4, <1>5, <1>6, QuietMove

\* A step inside a call that only moves on.
LEMMA LoadKeeps ==
    ASSUME IInv, NEW t \in Thread,
           \/ LockLoad(t) \/ ReadLoad(t) \/ LockTimeout(t) \/ ReadTimeout(t)
           \/ pc[t] = "lockCas" /\ Goto(t, "lockLoad") /\ live' = live
           \/ pc[t] = "readCas" /\ Goto(t, "readLoad") /\ live' = live
           \/ pc[t] \in {"readCas", "lockOnce"} /\ Return(t, "idle") /\ live' = live
    PROVE  IInv'
<1>1. pc[t] \notin Inside \cup Writing /\ live' = live
  BY DEF LockLoad, ReadLoad, LockTimeout, ReadTimeout, Inside, Writing
<1>2. \/ GotoWith(t, "lockCas", live) /\ live < WBit
      \/ GotoWith(t, "readCas", live) /\ live < WBit - 1
      \/ Goto(t, "lockLoad") \/ Goto(t, "readLoad") \/ Return(t, "idle")
  BY DEF LockLoad, ReadLoad, LockTimeout, ReadTimeout
<1>3. mode' \in [Thread -> Modes]
  BY <1>2 DEF IInv, TypeOK, Goto, GotoWith, Return, Modes
<1>4. live \in 0 .. 2 * WBit - 1 /\ 0 \in 0 .. 2 * WBit - 1
  BY WBitAssumption DEF IInv, TypeOK
<1>5. CASE GotoWith(t, "lockCas", live) /\ live < WBit
  BY <1>1, <1>3, <1>4, <1>5, QuietMove DEF GotoWith, PCs, Inside, WithBit
<1>6. CASE GotoWith(t, "readCas", live) /\ live < WBit - 1
  BY <1>1, <1>3, <1>4, <1>6, QuietMove DEF GotoWith, PCs, Inside, WithBit
<1>7. CASE Goto(t, "lockLoad") \/ Goto(t, "readLoad") \/ Return(t, "idle")
  <2>1. PICK l \in {"lockLoad", "readLoad", "idle"} :
           pc' = [pc EXCEPT ![t] = l] /\ cur' = [cur EXCEPT ![t] = 0]
    BY <1>7 DEF Goto, GotoWith, Return
  <2> QED
    BY <1>1, <1>3, <1>4, <2>1, QuietMove DEF PCs, Inside, WithBit
<1> QED
  BY <1>2, <1>5, <1>6, <1>7

\* The one attempt of try_lock: it succeeds only on a byte of 0.
LEMMA LockOnceKeeps == ASSUME IInv, NEW t \in Thread, LockOnce(t) PROVE IInv'
<1>1. CASE live # 0
  BY <1>1, LoadKeeps DEF LockOnce
<1>2. CASE live = 0
  <2>1. Cardinality(Readers) = 0 /\ BitHolders = {} /\ Readers = {}
    BY <1>2, ByteSays, WBitAssumption
  <2>2. live' = Cardinality(Readers) + WBit /\ Return(t, "writing")
    BY <1>2, <2>1, WBitAssumption DEF LockOnce
  <2>3. pc[t] \notin Inside
    BY DEF LockOnce, Inside
  <2> QED
    BY <2>1, <2>2, <2>3, BitMove DEF WithBit
<1> QED
  BY <1>1, <1>2

\* Setting the bit: the byte exchanged was below it, so nobody had set it.
LEMMA LockCasKeeps == ASSUME IInv, NEW t \in Thread, LockCas(t) PROVE IInv'
<1>1. CASE Goto(t, "lockLoad") /\ live' = live
  BY <1>1, LoadKeeps DEF LockCas
<1>2. CASE live = cur[t] /\ live' = cur[t] + WBit /\ Goto(t, "drain")
  <2>1. live < WBit /\ pc[t] \notin Inside
    BY <1>2 DEF LockCas, IInv, CasGuarded, Inside
  <2>2. live = Cardinality(Readers) /\ BitHolders = {}
    BY <2>1, ByteSays, WBitAssumption DEF IInv, TypeOK
  <2>3. live' = Cardinality(Readers) + WBit
    BY <1>2, <2>2
  <2> QED
    BY <1>2, <2>1, <2>2, <2>3, BitMove DEF WithBit, Writing
<1> QED
  BY <1>1, <1>2 DEF LockCas

\* Entering: a byte of exactly the bit means that no reader is left.
LEMMA DrainKeeps == ASSUME IInv, NEW t \in Thread, Drain(t) PROVE IInv'
<1>1. t \in BitHolders /\ pc[t] \notin Inside
  BY DEF Drain, BitHolders, Inside
<1>2. BitHolders \subseteq {t}
  BY <1>1 DEF IInv, OneBitHolder
<1>3. Cardinality(Readers) = 0 /\ Readers = {}
  BY ByteSays DEF Drain
<1>4. live' = Cardinality(Readers) + WBit /\ Return(t, "writing")
  BY <1>3, WBitAssumption DEF Drain
<1> QED
  BY <1>1, <1>2, <1>3, <1>4, BitMove DEF WithBit

\* A reader comes in: the count was not full and no bit was set.
LEMMA ReadCasKeeps == ASSUME IInv, NEW t \in Thread, ReadCas(t) PROVE IInv'
<1>1. CASE (Goto(t, "readLoad") \/ Return(t, "idle")) /\ live' = live
  BY <1>1, LoadKeeps DEF ReadCas
<1>2. CASE live = cur[t] /\ live' = cur[t] + 1 /\ Return(t, "reading")
  <2>1. live < WBit - 1 /\ t \notin Readers /\ t \notin BitHolders
    BY <1>2 DEF ReadCas, IInv, CasGuarded, Readers, BitHolders, Writers
  <2>2. live = Cardinality(Readers) /\ BitHolders = {}
    BY <2>1, ByteSays, WBitAssumption DEF IInv, TypeOK
  <2>3. live' \in 0 .. 2 * WBit - 1
    BY <1>2, <2>1, <2>2, ReaderCount, WBitAssumption
  <2>4. TypeOK' /\ CasGuarded' /\ pc' = [pc EXCEPT ![t] = "reading"]
    BY <1>2, <2>3, PlainMove DEF PCs
  <2>5. /\ Readers' = Readers \cup {t}
        /\ Writers' = Writers \ {t} /\ BitHolders' = BitHolders \ {t}
    BY <2>4, SetsAfter DEF IInv, Inside, Writing, WithBit
  <2>6. BitHolders' = {} /\ Writers' = {}
    BY <2>2, <2>5 DEF BitHolders
  <2>7. Cardinality(Readers') = Cardinality(Readers) + 1
    BY <2>1, <2>5, ReaderCount, FS_AddElement
  <2>8. live' = Cardinality(Readers') /\ Cardinality(Readers') < WBit
    BY <1>2, <2>1, <2>2, <2>7, ReaderCount, WBitAssumption
  <2> QED
    BY <2>4, <2>6, <2>8 DEF IInv, CountExact, ReadersFit, OneBitHolder, WriterAlone
<1> QED
  BY <1>1, <1>2 DEF ReadCas

\* unlock's first access: the byte tells a writer from a reader.
LEMMA UnlockLoadSees ==
    ASSUME IInv, NEW t \in Thread, UnlockLoad(t)
    PROVE  \/ pc[t] = "reading" /\ Goto(t, "sub")
           \/ pc[t] = "writing" /\ Goto(t, "clear")
<1>1. CASE pc[t] = "reading"
  <2>1. t \in Readers
    BY <1>1 DEF Readers
  <2>2. live # WBit
    BY <2>1, ReaderCount, WBitAssumption DEF IInv, CountExact, ReadersFit
  <2> QED
    BY <1>1, <2>2 DEF UnlockLoad
<1>2. CASE pc[t] = "writing"
  <2>1. t \in Writers /\ t \in BitHolders
    BY <1>2 DEF Writers, BitHolders
  <2>2. live = WBit
    BY <2>1, ReaderCount, WBitAssumption DEF IInv, CountExact, WriterAlone
  <2> QED
    BY <1>2, <2>2 DEF UnlockLoad
<1> QED
  BY <1>1, <1>2 DEF UnlockLoad

\* The load at the start of read_unlock decides only which way it goes on.
LEMMA UnlockLoadKeeps == ASSUME IInv, NEW t \in Thread, UnlockLoad(t) PROVE IInv'
<1>1. live' = live /\ live' \in 0 .. 2 * WBit - 1
  BY DEF UnlockLoad, IInv, TypeOK
<1>2. CASE pc[t] = "reading" /\ Goto(t, "sub")
  <2>1. TypeOK' /\ CasGuarded' /\ pc' = [pc EXCEPT ![t] = "sub"]
    BY <1>1, <1>2, PlainMove DEF PCs
  <2>2. TypeOK /\ "sub" \in Inside /\ "sub" \notin Writing /\ "sub" \notin WithBit
    BY DEF IInv, Inside, Writing, WithBit
  <2>3. Readers' = Readers /\ Writers' = Writers /\ BitHolders' = BitHolders
    BY <1>2, <2>1, <2>2, SetsStay DEF Inside, Writing, WithBit
  <2> QED
    BY <1>1, <2>1, <2>3
       DEF IInv, CountExact, ReadersFit, OneBitHolder, WriterAlone
<1>3. CASE pc[t] = "writing" /\ Goto(t, "clear")
  <2>1. TypeOK' /\ CasGuarded' /\ pc' = [pc EXCEPT ![t] = "clear"]
    BY <1>1, <1>3, PlainMove DEF PCs
  <2>2. TypeOK /\ "clear" \notin Inside /\ "clear" \in Writing /\ "clear" \in WithBit
    BY DEF IInv, Inside, Writing, WithBit
  <2>3. Readers' = Readers /\ Writers' = Writers /\ BitHolders' = BitHolders
    BY <1>3, <2>1, <2>2, SetsStay DEF Inside, Writing, WithBit
  <2> QED
    BY <1>1, <2>1, <2>3
       DEF IInv, CountExact, ReadersFit, OneBitHolder, WriterAlone
<1> QED
  BY <1>2, <1>3, UnlockLoadSees

\* The writer leaves: there is nobody else inside whose count it could erase.
LEMMA UnlockClearKeeps == ASSUME IInv, NEW t \in Thread, UnlockClear(t) PROVE IInv'
<1>1. t \in Writers /\ t \in BitHolders /\ t \notin Readers
  BY DEF UnlockClear, Writers, BitHolders, Readers
<1>2. Readers = {} /\ BitHolders \subseteq {t} /\ Writers \subseteq {t}
  BY <1>1 DEF IInv, WriterAlone, OneBitHolder, BitHolders
<1>3. live' = 0 /\ live' \in 0 .. 2 * WBit - 1 /\ Return(t, "idle")
  BY WBitAssumption DEF UnlockClear
<1>4. TypeOK' /\ CasGuarded' /\ pc' = [pc EXCEPT ![t] = "idle"]
  BY <1>3, PlainMove DEF PCs
<1>5. Readers' = {} /\ Writers' = {} /\ BitHolders' = {}
  BY <1>2, <1>4, IdleLeaves DEF IInv
<1>6. Cardinality(Readers') = 0
  BY <1>5, FS_EmptySet
<1> QED
  BY <1>3, <1>4, <1>5, <1>6, WBitAssumption
     DEF IInv, CountExact, ReadersFit, OneBitHolder, WriterAlone

\* A reader leaves: its own count is in the byte, so nothing wraps.
LEMMA UnlockSubKeeps == ASSUME IInv, NEW t \in Thread, UnlockSub(t) PROVE IInv'
<1>1. t \in Readers /\ t \notin Writers /\ t \notin BitHolders
  BY DEF UnlockSub, Readers, Writers, BitHolders
<1>2. Writers = {}
  BY <1>1 DEF IInv, WriterAlone
<1>3. Cardinality(Readers) \in 1 .. WBit - 1
  BY <1>1, ReaderCount, WBitAssumption DEF IInv, ReadersFit
<1>4. live \in Nat /\ live # 0 /\ live' = live - 1 /\ Return(t, "idle")
  BY <1>3, WBitAssumption DEF UnlockSub, IInv, TypeOK, CountExact
<1>5. live' \in 0 .. 2 * WBit - 1
  BY <1>4, WBitAssumption DEF IInv, TypeOK
<1>6. TypeOK' /\ CasGuarded' /\ pc' = [pc EXCEPT ![t] = "idle"]
  BY <1>4, <1>5, PlainMove DEF PCs
<1>7. Readers' = Readers \ {t} /\ Writers' = {} /\ BitHolders' = BitHolders
  <2>1. /\ Readers' = Readers \ {t}
        /\ Writers' = Writers \ {t}
        /\ BitHolders' = BitHolders \ {t}
    BY <1>6, IdleLeaves DEF IInv
  <2> QED
    BY <1>1, <1>2, <2>1
<1>8. Cardinality(Readers') = Cardinality(Readers) - 1
  BY <1>1, <1>7, ReaderCount, FS_RemoveElement
<1>9. CountExact'
  <2>1. CASE live = Cardinality(Readers) /\ BitHolders = {}
    BY <2>1, <1>3, <1>4, <1>7, <1>8 DEF CountExact
  <2>2. CASE live = Cardinality(Readers) + WBit
    BY <2>2, <1>3, <1>4, <1>8, WBitAssumption DEF CountExact
  <2> QED
    BY <2>1, <2>2 DEF IInv, CountExact
<1>10. ReadersFit'
  BY <1>3, <1>8, WBitAssumption DEF ReadersFit
<1> QED
  BY <1>6, <1>7, <1>9, <1>10 DEF IInv, OneBitHolder, WriterAlone

\* Every step keeps the inductive invariant.
LEMMA NextKeeps == IInv /\ [Next]_vars => IInv'
<1> SUFFICES ASSUME IInv, [Next]_vars PROVE IInv'
  OBVIOUS
<1>1. CASE UNCHANGED vars
  BY <1>1 DEF vars, IInv, TypeOK, CountExact, ReadersFit, OneBitHolder,
     WriterAlone, CasGuarded, Readers, Writers, BitHolders
<1>2. ASSUME NEW t \in Thread, Begin(t) PROVE IInv'
  BY <1>2, BeginKeeps
<1>3. ASSUME NEW t \in Thread, Lock(t) PROVE IInv'
  BY <1>3, LockOnceKeeps, LoadKeeps, LockCasKeeps, DrainKeeps DEF Lock
<1>4. ASSUME NEW t \in Thread, Read(t) PROVE IInv'
  BY <1>4, LoadKeeps, ReadCasKeeps DEF Read
<1>5. ASSUME NEW t \in Thread, Unlock(t) PROVE IInv'
  BY <1>5, UnlockLoadKeeps, UnlockClearKeeps, UnlockSubKeeps DEF Unlock
<1> QED
  BY <1>1, <1>2, <1>3, <1>4, <1>5 DEF Next

\* The inductive invariant holds in every reachable state.
THEOREM Invariance == Spec => []IInv
<1>1. Init => IInv
  BY InitEstablishes
<1>2. IInv /\ [Next]_vars => IInv'
  BY NextKeeps
<1> QED
  BY <1>1, <1>2, PTL DEF Spec

\* Type correctness: the byte Col::live never wraps, neither at 0 nor at 255.
THEOREM TypeCorrect == Spec => []TypeOK
BY Invariance, PTL DEF IInv

\* A writer is alone in the column, whatever forms of try_lock and try_read
\* its rivals use and whichever of them give up.
THEOREM Exclusion == Spec => []MutualExclusion
<1>1. IInv => MutualExclusion
  BY DEF IInv, MutualExclusion, WriterAlone, OneBitHolder, BitHolders
<1> QED
  BY Invariance, <1>1, PTL

-----------------------------------------------------------------------------
(* The bit a timed try_lock leaves behind. *)

\* A step of another thread takes nobody's bit away.
LEMMA OthersStay ==
    ASSUME TypeOK, NEW t \in Thread, NEW l, Goto(t, l) \/ Return(t, l),
           NEW u \in BitHolders, u # t
    PROVE  u \in BitHolders'
<1>1. pc' = [pc EXCEPT ![t] = l]
  BY DEF Goto, GotoWith, Return
<1>2. pc'[u] = pc[u]
  BY <1>1 DEF BitHolders, Writers, TypeOK
<1> QED
  BY <1>2 DEF BitHolders, Writers

\* Where the bit was not set, whoever sets it holds it.
LEMMA SetterHolds ==
    ASSUME IInv, [Next]_vars, live < WBit, live' >= WBit
    PROVE  BitHolders' # {}
<1> USE DEF IInv, TypeOK
<1>1. live \in Nat /\ WBit \in Nat
  BY WBitAssumption
<1>2. PICK t \in Thread : Begin(t) \/ Lock(t) \/ Read(t) \/ Unlock(t)
  BY <1>1 DEF Next, vars
<1>3. live' # live
  BY <1>1
<1>4. LockOnce(t) \/ LockCas(t) \/ ReadCas(t) \/ UnlockClear(t) \/ UnlockSub(t)
  BY <1>2, <1>3 DEF Begin, BeginLock, BeginRead, Lock, LockLoad, Drain, LockTimeout,
                    Read, ReadLoad, ReadTimeout, Unlock, UnlockLoad
<1>5. CASE LockOnce(t)
  BY <1>3, <1>5 DEF LockOnce, Return, BitHolders, Writers
<1>6. CASE LockCas(t)
  BY <1>3, <1>6 DEF LockCas, Goto, GotoWith, BitHolders
<1>7. CASE ReadCas(t)
  <2>1. live' = live + 1 /\ live < WBit - 1
    BY <1>3, <1>7 DEF ReadCas, CasGuarded
  <2> QED
    BY <1>1, <2>1
<1>8. CASE UnlockClear(t)
  BY <1>1, <1>8, WBitAssumption DEF UnlockClear
<1>9. CASE UnlockSub(t)
  <2>1. t \in Readers
    BY <1>9 DEF UnlockSub, Readers
  <2>2. live # 0
    BY <2>1, ByteSays
  <2>3. live' = live - 1
    BY <1>9, <2>2 DEF UnlockSub
  <2> QED
    BY <1>1, <2>3
<1> QED
  BY <1>4, <1>5, <1>6, <1>7, <1>8, <1>9

\* Where the bit stays set, it is a timed try_lock that lets go of it.
LEMMA LeaverIsTimed ==
    ASSUME IInv, [Next]_vars, live' >= WBit, NEW u \in BitHolders, u \notin BitHolders'
    PROVE  pc[u] = "drain" /\ mode[u] = "timed"
<1> USE DEF IInv, TypeOK
<1>1. PICK t \in Thread : Begin(t) \/ Lock(t) \/ Read(t) \/ Unlock(t)
  BY DEF Next, vars, BitHolders, Writers
<1>2. u = t
  <2>1. CASE \E l \in PCs : Goto(t, l) \/ Return(t, l)
    BY <2>1, OthersStay
  <2>2. CASE LockLoad(t) \/ ReadLoad(t) \/ Begin(t)
    BY <2>2 DEF LockLoad, ReadLoad, Begin, BeginLock, BeginRead, Goto, GotoWith, Return,
                BitHolders, Writers
  <2> QED
    BY <1>1, <2>1, <2>2
       DEF Lock, LockOnce, LockCas, Drain, LockTimeout, Read, ReadCas, ReadTimeout,
           Unlock, UnlockLoad, UnlockClear, UnlockSub, PCs
<1>3. pc[t] \in WithBit /\ pc'[t] \notin WithBit
  BY <1>2 DEF BitHolders, Writers, WithBit
<1>4. Drain(t) \/ LockTimeout(t) \/ UnlockLoad(t) \/ UnlockClear(t)
  BY <1>1, <1>3 DEF Begin, BeginLock, BeginRead, Lock, LockOnce, LockLoad, LockCas, Read,
                    ReadLoad, ReadCas, ReadTimeout, Unlock, UnlockSub, WithBit
<1>5. ~Drain(t)
  BY <1>3 DEF Drain, Return, WithBit
<1>6. ~UnlockLoad(t)
  <2>1. ASSUME UnlockLoad(t) PROVE FALSE
    <3>1. pc[t] = "writing" /\ Goto(t, "clear")
      BY <1>3, <2>1, UnlockLoadSees DEF WithBit
    <3> QED
      BY <1>3, <3>1 DEF Goto, GotoWith, WithBit
  <2> QED
    BY <2>1
<1>7. ~UnlockClear(t)
  BY WBitAssumption DEF UnlockClear
<1> QED
  BY <1>2, <1>3, <1>4, <1>5, <1>6, <1>7 DEF LockTimeout, WithBit

\* The writer's bit is never set with nobody behind it, unless a timed try_lock
\* has given up while readers were inside.
THEOREM TimeoutsOnly == Spec => OnlyTimeoutsLeaveBit
<1>1. ASSUME IInv, [Next]_vars
      PROVE  [live' >= WBit /\ BitHolders' = {} =>
                 \/ live >= WBit /\ BitHolders = {}
                 \/ \E t \in Thread : pc[t] = "drain" /\ mode[t] = "timed"]_vars
  <2> SUFFICES ASSUME live' >= WBit, BitHolders' = {}, ~(live >= WBit /\ BitHolders = {})
               PROVE  \E t \in Thread : pc[t] = "drain" /\ mode[t] = "timed"
    OBVIOUS
  <2>1. live >= WBit
    <3>1. live \in Nat /\ WBit \in Nat
      BY <1>1, WBitAssumption DEF IInv, TypeOK
    <3> QED
      BY <1>1, <3>1, SetterHolds
  <2>2. PICK u \in BitHolders : TRUE
    BY <2>1
  <2>3. u \in Thread
    BY <2>2 DEF BitHolders, Writers
  <2> QED
    BY <1>1, <2>2, <2>3, LeaverIsTimed
<1> QED
  BY <1>1, Invariance, PTL DEF Spec, OnlyTimeoutsLeaveBit

-----------------------------------------------------------------------------
(* Refinement. *)

\* A move that crosses none of the borders between outside, reading, writing.
LEMMA InsideMove ==
    ASSUME TypeOK, NEW t \in Thread, NEW l, pc' = [pc EXCEPT ![t] = l],
           l \in Inside <=> pc[t] \in Inside,
           l \in Writing <=> pc[t] \in Writing
    PROVE  UNCHANGED <<Readers, Writers>>
<1>1. \A u \in Thread : /\ pc'[u] \in Inside <=> pc[u] \in Inside
                        /\ pc'[u] \in Writing <=> pc[u] \in Writing
  BY DEF TypeOK
<1> QED
  BY <1>1 DEF Readers, Writers, Inside, Writing

\* Taking the lock for writing, at once or after the readers have left.
LEMMA EnterWriting ==
    ASSUME IInv, NEW t \in Thread, Return(t, "writing"), t \notin Readers,
           Readers = {}, Writers = {}
    PROVE  Abstract!AcquireWrite(t)
<1>1. Readers' = {} /\ Writers' = {t}
  BY SetsAfter DEF IInv, Return, Inside, Writing
<1> QED
  BY <1>1 DEF Abstract!AcquireWrite

\* The steps of try_lock.
LEMMA LockRefines ==
    ASSUME IInv, NEW t \in Thread, Lock(t)
    PROVE  Abstract!AcquireWrite(t) \/ UNCHANGED <<Readers, Writers>>
<1>1. CASE LockOnce(t) /\ live = 0
  <2>1. Readers = {} /\ Writers = {} /\ Return(t, "writing")
    BY <1>1, ByteSays, WBitAssumption DEF LockOnce
  <2> QED
    BY <2>1, EnterWriting
<1>2. CASE LockOnce(t) /\ live # 0
  BY <1>2, InsideMove DEF IInv, LockOnce, Return, Inside, Writing
<1>3. CASE LockLoad(t)
  BY <1>3, InsideMove DEF IInv, LockLoad, Goto, GotoWith, Return, Inside, Writing
<1>4. CASE LockCas(t)
  BY <1>4, InsideMove DEF IInv, LockCas, Goto, GotoWith, Inside, Writing
<1>5. CASE Drain(t)
  <2>1. t \in BitHolders /\ t \notin Writers
    BY <1>5 DEF Drain, BitHolders, Writers
  <2>2. Writers = {}
    BY <2>1 DEF IInv, OneBitHolder, BitHolders
  <2>3. Readers = {}
    BY <1>5, ByteSays DEF Drain
  <2> QED
    BY <1>5, <2>2, <2>3, EnterWriting DEF Drain
<1>6. CASE LockTimeout(t)
  BY <1>6, InsideMove DEF IInv, LockTimeout, Return, Inside, Writing
<1> QED
  BY <1>1, <1>2, <1>3, <1>4, <1>5, <1>6 DEF Lock

\* The steps of try_read.
LEMMA ReadRefines ==
    ASSUME IInv, NEW t \in Thread, Read(t)
    PROVE  Abstract!AcquireRead(t) \/ UNCHANGED <<Readers, Writers>>
<1>1. CASE ReadLoad(t)
  BY <1>1, InsideMove DEF IInv, ReadLoad, Goto, GotoWith, Return, Inside, Writing
<1>2. CASE ReadTimeout(t)
  BY <1>2, InsideMove DEF IInv, ReadTimeout, Return, Inside, Writing
<1>3. CASE ReadCas(t) /\ live' = live
  <2>1. CASE Goto(t, "readLoad") \/ Return(t, "idle")
    BY <1>3, <2>1, InsideMove DEF IInv, ReadCas, Goto, GotoWith, Return, Inside, Writing
  <2>2. CASE live' = cur[t] + 1 /\ live = cur[t]
    <3>1. cur[t] \in Nat
      BY WBitAssumption DEF IInv, TypeOK
    <3>2. live # live + 1
      BY <2>2, <3>1
    <3> QED
      BY <1>3, <2>2, <3>2
  <2> QED
    BY <1>3, <2>1, <2>2 DEF ReadCas
<1>4. CASE /\ pc[t] = "readCas" /\ live = cur[t]
           /\ live' = cur[t] + 1 /\ Return(t, "reading")
  <2>1. live < WBit - 1 /\ t \notin Readers
    BY <1>4 DEF IInv, CasGuarded, Readers
  <2>2. Writers = {}
    BY <2>1, ByteSays, WBitAssumption DEF IInv, TypeOK
  <2>3. Readers' = Readers \cup {t} /\ Writers' = Writers
    BY <1>4, <2>2, SetsAfter DEF IInv, Return, Inside, Writing
  <2> QED
    BY <2>1, <2>2, <2>3 DEF Abstract!AcquireRead
<1> QED
  BY <1>1, <1>2, <1>3, <1>4 DEF Read, ReadCas

\* The steps of unlock: the store or the subtraction releases.
LEMMA UnlockRefines ==
    ASSUME IInv, NEW t \in Thread, Unlock(t)
    PROVE  Abstract!Release(t) \/ UNCHANGED <<Readers, Writers>>
<1>1. CASE UnlockLoad(t)
  BY <1>1, UnlockLoadSees, InsideMove DEF IInv, Goto, GotoWith, Inside, Writing
<1>2. CASE UnlockClear(t) \/ UnlockSub(t)
  <2>1. t \in Readers \cup Writers
    BY <1>2 DEF UnlockClear, UnlockSub, Readers, Writers
  <2>2. Readers' = Readers \ {t} /\ Writers' = Writers \ {t}
    BY <1>2, SetsAfter DEF IInv, UnlockClear, UnlockSub, Return, Inside, Writing
  <2> QED
    BY <2>1, <2>2 DEF Abstract!Release
<1> QED
  BY <1>1, <1>2 DEF Unlock

\* Every step is a step of the abstract lock or leaves it unchanged.
LEMMA NextRefines ==
    IInv /\ [Next]_vars => [Abstract!Next]_<<Readers, Writers>>
<1> SUFFICES ASSUME IInv, [Next]_vars PROVE [Abstract!Next]_<<Readers, Writers>>
  OBVIOUS
<1>1. CASE UNCHANGED vars
  BY <1>1 DEF vars, Readers, Writers
<1>2. ASSUME NEW t \in Thread, Begin(t) PROVE UNCHANGED <<Readers, Writers>>
  <2>1. PICK l \in {"lockOnce", "lockLoad", "readLoad"} :
           pc[t] = "idle" /\ pc' = [pc EXCEPT ![t] = l]
    BY <1>2 DEF Begin, BeginLock, BeginRead
  <2> QED
    BY <2>1, InsideMove DEF IInv, Inside, Writing
<1>3. ASSUME NEW t \in Thread, Lock(t) PROVE [Abstract!Next]_<<Readers, Writers>>
  BY <1>3, LockRefines DEF Abstract!Next
<1>4. ASSUME NEW t \in Thread, Read(t) PROVE [Abstract!Next]_<<Readers, Writers>>
  BY <1>4, ReadRefines DEF Abstract!Next
<1>5. ASSUME NEW t \in Thread, Unlock(t) PROVE [Abstract!Next]_<<Readers, Writers>>
  BY <1>5, UnlockRefines DEF Abstract!Next
<1> QED
  BY <1>1, <1>2, <1>3, <1>4, <1>5 DEF Next

\* The byte implements the abstract lock: what acquire and read_acquire rely
\* on is a set of at most WBit - 1 readers or one writer.
THEOREM Refinement == Spec => ImplementsRWLock
<1>1. Init => Abstract!Init
  BY ThreadAssumption DEF Init, Abstract!Init, Readers, Writers
<1>2. IInv /\ [Next]_vars => [Abstract!Next]_<<Readers, Writers>>
  BY NextRefines
<1> QED
  BY Invariance, <1>1, <1>2, PTL DEF Spec, ImplementsRWLock, Abstract!Spec
=============================================================================
