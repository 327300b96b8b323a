-------------------------- MODULE CellTableProofs --------------------------
(***************************************************************************)
(* Proofs about CellTable, for any keys, hash function and rows: the count *)
(* of the table is exact and a put always finds a slot, the cells are in   *)
(* Robin Hood order before and after every call of scan_for_slot, and a    *)
(* key is found exactly while its row is there.  The hypothesis FewKeys    *)
(* excludes the keys that a copy drops, and tables so large that the load  *)
(* factor wraps.                                                           *)
(*                                                                         *)
(* The argument: in Robin Hood order no slot between the home of a key and *)
(* its cell is free, and the distances along the way are such that a scan  *)
(* meets the cell before it would stop.  Every cell that was put is either *)
(* in one slot or waits in pending, never both, so a chain of displacements*)
(* or a grow that is half done loses and doubles nothing.                  *)
(***************************************************************************)
EXTENDS CellTable, TLAPS, WellFoundedInduction, FiniteSetTheorems, SequenceTheorems

-----------------------------------------------------------------------------
(* Numbers. *)

\* Every set of naturals that is not empty has a least member.
LEMMA LeastMember ==
    ASSUME NEW T \in SUBSET Nat, T # {}
    PROVE  \E m \in T : \A k \in T : m <= k
<1> DEFINE R == {s \in Nat \X Nat : s[1] < s[2]}
<1>1. IsWellFoundedOn(R, Nat)
  BY NatLessThanWellFounded DEF OpToRel
<1>2. \A x, y \in Nat : x < y => <<x, y>> \in R
  OBVIOUS
<1> HIDE DEF R
<1>3. \E x \in T : \A y \in T : ~(<<y, x>> \in R)
  BY <1>1, WFMin
<1>4. PICK m \in T : \A k \in T : <<k, m>> \notin R
  BY <1>3
<1>5. \A k \in T : ~(k < m) /\ k \in Nat /\ m \in Nat
  BY <1>2, <1>4
<1>6. \A k \in T : m <= k
  BY <1>5
<1> QED
  BY <1>6

\* A number below twice the modulus wraps at most once.
LEMMA WrapsOnce ==
    ASSUME NEW n \in Nat \ {0}, NEW x \in 0 .. 2 * n - 1
    PROVE  x % n = IF x < n THEN x ELSE x - n
<1>1. CASE x < n
  BY <1>1
<1>2. CASE x >= n
  <2>1. x = n * 1 + (x - n) /\ x - n \in 0 .. n - 1
    BY <1>2
  <2> QED
    BY <2>1
<1> QED
  BY <1>1, <1>2

-----------------------------------------------------------------------------
(* The circle of slots. *)

\* What After, Apart and Before are without the remainder.
LEMMA Circle ==
    ASSUME NEW t, t.cap \in Nat \ {0}, NEW h \in Slots(t)
    PROVE  /\ \A d \in 0 .. t.cap : After(t, h, d) = IF h + d < t.cap THEN h + d ELSE h + d - t.cap
           /\ \A p \in Slots(t) : Apart(t, h, p) = IF p < h THEN p + t.cap - h ELSE p - h
           /\ Before(t, h) = IF h = 0 THEN t.cap - 1 ELSE h - 1
<1> DEFINE n == t.cap
<1>1. n \in Nat \ {0} /\ h \in 0 .. n - 1
  BY DEF Slots
<1>2. After(t, h, 0) = h /\ \A d : After(t, h, d) = (h + d) % n
  BY <1>1, WrapsOnce DEF After
<1>3. \A p : Apart(t, h, p) = (p + n - h) % n /\ Before(t, h) = (h + n - 1) % n
  BY DEF Apart, Before
<1>4. Slots(t) = 0 .. n - 1
  BY DEF Slots
<1> HIDE DEF n
<1>5. ASSUME NEW d \in 0 .. n
      PROVE  After(t, h, d) = IF h + d < n THEN h + d ELSE h + d - n
  <2> DEFINE x == h + d
  <2>1. x \in 0 .. 2 * n - 1 /\ After(t, h, d) = x % n
    BY <1>1, <1>2
  <2> HIDE DEF x
  <2>2. After(t, h, d) = IF x < n THEN x ELSE x - n
    BY <1>1, <2>1, WrapsOnce
  <2> QED
    BY <1>1, <2>2 DEF x
<1>6. ASSUME NEW p \in 0 .. n - 1
      PROVE  Apart(t, h, p) = IF p < h THEN p + n - h ELSE p - h
  <2>1. p + n - h \in 0 .. 2 * n - 1
    BY <1>1
  <2> QED
    BY <1>1, <1>3, <2>1, WrapsOnce
<1>7. Before(t, h) = IF h = 0 THEN n - 1 ELSE h - 1
  <2> DEFINE x == h + n - 1
  <2>1. x \in 0 .. 2 * n - 1 /\ Before(t, h) = x % n
    BY <1>1, <1>3
  <2> HIDE DEF x
  <2>2. Before(t, h) = IF x < n THEN x ELSE x - n
    BY <1>1, <2>1, WrapsOnce
  <2> QED
    BY <1>1, <2>2 DEF x
<1> QED
  BY <1>4, <1>5, <1>6, <1>7 DEF n

\* The slots after h, in order, are all slots: After and Apart are inverse.
LEMMA AroundAndBack ==
    ASSUME NEW t, t.cap \in Nat \ {0}, NEW h \in Slots(t)
    PROVE  /\ \A d \in Slots(t) : After(t, h, d) \in Slots(t) /\ Apart(t, h, After(t, h, d)) = d
           /\ \A p \in Slots(t) : Apart(t, h, p) \in Slots(t) /\ After(t, h, Apart(t, h, p)) = p
           /\ After(t, h, t.cap) = h /\ After(t, h, 0) = h
<1> DEFINE n == t.cap
<1>1. n \in Nat \ {0} /\ h \in 0 .. n - 1 /\ Slots(t) = 0 .. n - 1
  BY DEF Slots
<1>2. /\ \A d \in 0 .. n : After(t, h, d) = IF h + d < n THEN h + d ELSE h + d - n
      /\ \A p \in Slots(t) : Apart(t, h, p) = IF p < h THEN p + n - h ELSE p - h
  BY Circle
<1>3. n = t.cap
  OBVIOUS
<1> HIDE DEF n
<1>4. ASSUME NEW d \in Slots(t)
      PROVE  After(t, h, d) \in Slots(t) /\ Apart(t, h, After(t, h, d)) = d
  BY <1>1, <1>2
<1>5. ASSUME NEW p \in Slots(t)
      PROVE  Apart(t, h, p) \in Slots(t) /\ After(t, h, Apart(t, h, p)) = p
  BY <1>1, <1>2
<1>6. After(t, h, n) = h /\ After(t, h, 0) = h
  BY <1>1, <1>2
<1> QED
  BY <1>3, <1>4, <1>5, <1>6

\* The slot before the next but d is the one before it, and the distance from
\* h falls by one on the way back.
LEMMA OneBack ==
    ASSUME NEW t, t.cap \in Nat \ {0}, NEW h \in Slots(t)
    PROVE  /\ \A d \in 0 .. t.cap - 1 : Before(t, After(t, h, d + 1)) = After(t, h, d)
           /\ \A p \in Slots(t) : Before(t, p) \in Slots(t)
           /\ \A p \in Slots(t) : Apart(t, h, p) > 0 => Apart(t, h, Before(t, p)) = Apart(t, h, p) - 1
           /\ \A p \in Slots(t) : Before(t, p) = p => t.cap = 1
<1> DEFINE n == t.cap
<1>1. n \in Nat \ {0} /\ h \in 0 .. n - 1 /\ Slots(t) = 0 .. n - 1
  BY DEF Slots
<1>2. /\ \A d \in 0 .. n : After(t, h, d) = IF h + d < n THEN h + d ELSE h + d - n
      /\ \A p \in Slots(t) : Apart(t, h, p) = IF p < h THEN p + n - h ELSE p - h
      /\ \A p \in Slots(t) : Before(t, p) = IF p = 0 THEN n - 1 ELSE p - 1
  BY Circle
<1>3. n = t.cap
  OBVIOUS
<1> HIDE DEF n
<1>4. ASSUME NEW d \in 0 .. n - 1
      PROVE  Before(t, After(t, h, d + 1)) = After(t, h, d)
  <2>1. d \in 0 .. n /\ d + 1 \in 0 .. n
    BY <1>1
  <2>2. CASE h + d + 1 < n
    <3>1. After(t, h, d + 1) = h + d + 1 /\ After(t, h, d) = h + d /\ h + d + 1 \in Slots(t)
      BY <1>1, <1>2, <2>1, <2>2
    <3> QED
      BY <1>1, <1>2, <3>1
  <2>3. CASE h + d + 1 = n
    <3>1. h + (d + 1) = n /\ n - n = 0 /\ h + d = n - 1 /\ n - 1 < n /\ 0 \in 0 .. n - 1
      BY <1>1, <2>1, <2>3
    <3>2. After(t, h, d + 1) = 0 /\ After(t, h, d) = n - 1
      BY <1>1, <1>2, <2>1, <3>1
    <3> QED
      BY <1>1, <1>2, <3>1, <3>2
  <2>4. CASE h + d + 1 > n
    <3>1. After(t, h, d + 1) = h + d + 1 - n /\ After(t, h, d) = h + d - n
      BY <1>1, <1>2, <2>1, <2>4
    <3>2. h + d + 1 - n \in Slots(t) /\ h + d + 1 - n # 0
      BY <1>1, <2>4
    <3> QED
      BY <1>1, <1>2, <3>1, <3>2
  <2> QED
    BY <1>1, <2>2, <2>3, <2>4
<1>5. ASSUME NEW p \in Slots(t)
      PROVE  /\ Before(t, p) \in Slots(t)
             /\ Apart(t, h, p) > 0 => Apart(t, h, Before(t, p)) = Apart(t, h, p) - 1
             /\ Before(t, p) = p => n = 1
  <2>1. /\ p \in 0 .. n - 1
        /\ Before(t, p) = IF p = 0 THEN n - 1 ELSE p - 1
        /\ Apart(t, h, p) = IF p < h THEN p + n - h ELSE p - h
    BY <1>1, <1>2
  <2>2. Before(t, p) \in Slots(t)
    BY <1>1, <2>1
  <2>3. Apart(t, h, Before(t, p)) = IF Before(t, p) < h THEN Before(t, p) + n - h
                                                        ELSE Before(t, p) - h
    BY <1>2, <2>2
  <2> QED
    BY <1>1, <2>1, <2>2, <2>3
<1> QED
  BY <1>3, <1>4, <1>5

\* All about the slots after slot p.
LEMMA FromSlot ==
    ASSUME NEW t, t.cap \in Nat \ {0}, NEW p \in Slots(t)
    PROVE  /\ \A n \in 0 .. t.cap - 1 : After(t, p, n) \in Slots(t) /\ Apart(t, p, After(t, p, n)) = n
           /\ \A q \in Slots(t) : Apart(t, p, q) \in 0 .. t.cap - 1 /\ After(t, p, Apart(t, p, q)) = q
           /\ After(t, p, 0) = p /\ After(t, p, t.cap) = p
           /\ \A n \in 1 .. t.cap - 1 : After(t, p, n) # p
           /\ \A n \in 0 .. t.cap - 1 : Before(t, After(t, p, n + 1)) = After(t, p, n)
<1>1. Slots(t) = 0 .. t.cap - 1
  BY DEF Slots
<1>2. \A n \in Slots(t) : After(t, p, n) \in Slots(t) /\ Apart(t, p, After(t, p, n)) = n
  BY AroundAndBack
<1>3. \A q \in Slots(t) : Apart(t, p, q) \in Slots(t) /\ After(t, p, Apart(t, p, q)) = q
  BY AroundAndBack
<1>4. After(t, p, t.cap) = p /\ After(t, p, 0) = p
  BY AroundAndBack
<1>5. Apart(t, p, p) = 0
  BY <1>1, <1>2, <1>4
<1>6. \A n \in 1 .. t.cap - 1 : After(t, p, n) # p
  BY <1>1, <1>2, <1>5
<1>7. \A n \in 0 .. t.cap - 1 : Before(t, After(t, p, n + 1)) = After(t, p, n)
  BY OneBack
<1> QED
  BY <1>1, <1>2, <1>3, <1>4, <1>6, <1>7

-----------------------------------------------------------------------------
(* Scans. *)

\* A set of slots that is not empty has a last one.
LEMMA GreatestSlot ==
    ASSUME NEW n \in Nat, NEW T \in SUBSET (0 .. n - 1), T # {}
    PROVE  \E m \in T : \A k \in T : k <= m
<1> DEFINE U == {n - k : k \in T}
<1>1. U \in SUBSET Nat /\ U # {}
  <2>1. \A k \in T : n - k \in Nat
    OBVIOUS
  <2> QED
    BY <2>1
<1> HIDE DEF U
<1>2. PICK m \in U : \A k \in U : m <= k
  BY <1>1, LeastMember
<1>3. PICK x \in T : m = n - x
  BY DEF U
<1>4. \A k \in T : m <= n - k
  BY <1>2 DEF U
<1> QED
  BY <1>3, <1>4

\* A loop that has somewhere to stop stops at the first such place.
LEMMA FirstStop ==
    ASSUME NEW n \in Nat, NEW stops \in SUBSET (0 .. n - 1), stops # {}
    PROVE  \E d \in stops : First(stops) = {d} /\ \A e \in 0 .. d - 1 : e \notin stops
<1>1. PICK d \in stops : \A e \in stops : d <= e
  BY LeastMember
<1>2. First(stops) = {d}
  <2>1. \A e \in stops : (\A f \in stops : e <= f) => e = d
    BY <1>1
  <2> QED
    BY <1>1, <2>1 DEF First
<1> QED
  BY <1>1, <1>2

\* A cell is not a free slot.
LEMMA CellNotFree == IsFree(Free) /\ \A c \in Cell : ~IsFree(c) /\ c.key \in Key /\ c.index \in Nat
BY DEF IsFree, Free, Cell

\* The slots of a table: home slots, and what is in them.
LEMMA SlotFacts ==
    ASSUME NEW t, IsTable(t), t.cap > 0
    PROVE  /\ t.cap \in Nat \ {0}
           /\ \A k \in Key : Home(t, k) \in Slots(t)
           /\ \A p \in Slots(t) : t.slots[p] = Free \/ t.slots[p] \in Cell
           /\ \A p \in Slots(t) : IsFree(t.slots[p]) <=> t.slots[p] = Free
           /\ \A p \in Occupied(t) : p \in Slots(t) /\ t.slots[p] \in Cell /\ t.slots[p].key \in Key
           /\ \A p \in Slots(t) : p \in Occupied(t) <=> ~IsFree(t.slots[p])
<1>1. t.cap \in Nat \ {0}
  BY DEF IsTable
<1>2. \A k \in Key : Home(t, k) \in Slots(t)
  BY <1>1, HashAssumption DEF Home, Slots
<1>3. \A p \in Slots(t) : t.slots[p] = Free \/ t.slots[p] \in Cell
  BY DEF IsTable
<1> QED
  BY <1>1, <1>2, <1>3, CellNotFree DEF Occupied

\* Distances from the home of a key, and the way back along its scan.
LEMMA ScanFacts ==
    ASSUME NEW t, IsTable(t), t.cap > 0, NEW k \in Key
    PROVE  /\ \A d \in Slots(t) : Probe(t, k, d) \in Slots(t) /\ Distance(t, k, Probe(t, k, d)) = d
           /\ \A p \in Slots(t) : Distance(t, k, p) \in Slots(t) /\ Probe(t, k, Distance(t, k, p)) = p
           /\ \A p \in Slots(t) : Distance(t, k, p) > 0 => Distance(t, k, Before(t, p)) = Distance(t, k, p) - 1
           /\ \A p \in Slots(t) : Before(t, p) \in Slots(t)
           /\ \A d \in 0 .. t.cap - 1 : d > 0 => Before(t, Probe(t, k, d)) = Probe(t, k, d - 1)
<1>1. t.cap \in Nat \ {0} /\ Home(t, k) \in Slots(t)
  BY SlotFacts
<1>2. \A d \in 0 .. t.cap - 1 : d > 0 => Before(t, Probe(t, k, d)) = Probe(t, k, d - 1)
  <2> SUFFICES ASSUME NEW d \in 0 .. t.cap - 1, d > 0
               PROVE  Before(t, Probe(t, k, d)) = Probe(t, k, d - 1)
    OBVIOUS
  <2>1. d - 1 \in 0 .. t.cap - 1 /\ (d - 1) + 1 = d
    BY <1>1
  <2>2. Before(t, After(t, Home(t, k), (d - 1) + 1)) = After(t, Home(t, k), d - 1)
    BY <1>1, <2>1, OneBack
  <2> QED
    BY <2>1, <2>2 DEF Probe
<1> QED
  BY <1>1, <1>2, AroundAndBack, OneBack DEF Probe, Distance

\* The distance of a cell from its home is a number.
LEMMA FromHomeNat ==
    ASSUME NEW t, IsTable(t), NEW p \in Occupied(t)
    PROVE  p \in Slots(t) /\ FromHome(t, p) \in Nat /\ FromHome(t, p) < t.cap
<1>1. t.cap > 0 /\ p \in Slots(t)
  BY DEF Occupied, Slots, IsTable
<1>2. t.slots[p].key \in Key /\ t.cap \in Nat
  BY <1>1, SlotFacts
<1>3. FromHome(t, p) \in Slots(t)
  BY <1>1, <1>2, ScanFacts DEF FromHome
<1> QED
  BY <1>1, <1>2, <1>3 DEF Slots

\* No cell is cut off from its home: all slots on the way are occupied, by
\* cells that are as far from theirs.
LEMMA NoGap ==
    ASSUME NEW t, IsTable(t), Ordered(t), NEW p \in Occupied(t),
           NEW e \in 0 .. FromHome(t, p)
    PROVE  LET q == Probe(t, t.slots[p].key, e)
           IN  q \in Occupied(t) /\ FromHome(t, q) >= e
<1> DEFINE k == t.slots[p].key
           d == Distance(t, k, p)
           Good(x) == LET q == Probe(t, k, x)
                      IN  q \in Occupied(t) /\ FromHome(t, q) >= x
           bad == {x \in 0 .. d : ~Good(x)}
<1>1. t.cap > 0 /\ p \in Slots(t)
  BY DEF Occupied, Slots, IsTable
<1>2. k \in Key
  BY <1>1, SlotFacts
<1>3. d \in Slots(t) /\ Probe(t, k, d) = p /\ d = FromHome(t, p)
  BY <1>1, <1>2, ScanFacts DEF FromHome
<1>4. d \in Nat /\ d < t.cap /\ t.cap \in Nat
  BY <1>1, <1>3, SlotFacts DEF Slots
<1>5. Good(d)
  BY <1>3, <1>4
<1>6. ASSUME NEW x \in 0 .. d, x > 0, Good(x)
      PROVE  Good(x - 1)
  <2> DEFINE q == Probe(t, k, x)
             b == Before(t, q)
  <2>1. x \in 0 .. t.cap - 1 /\ x \in Slots(t)
    BY <1>4 DEF Slots
  <2>2. b = Probe(t, k, x - 1)
    BY <1>1, <1>2, <1>6, <2>1, ScanFacts
  <2>3. q \in Occupied(t) /\ FromHome(t, q) >= x
    BY <1>6
  <2>5. FromHome(t, q) \in Nat
    BY <2>3, FromHomeNat
  <2>6. b \in Occupied(t) /\ FromHome(t, q) <= FromHome(t, b) + 1
    BY <2>3, <2>5, <1>4, <1>6 DEF Ordered
  <2>8. FromHome(t, b) \in Nat
    BY <2>6, FromHomeNat
  <2>9. FromHome(t, b) >= x - 1
    BY <2>3, <2>5, <2>6, <2>8, <1>4
  <2> HIDE DEF k, q, b
  <2> QED
    BY <2>2, <2>6, <2>9
<1>7. CASE bad = {}
  BY <1>3, <1>7
<1>8. CASE bad # {}
  <2> DEFINE back == {d - x : x \in bad}
  <2> HIDE DEF Good
  <2>1. back \in SUBSET Nat /\ back # {}
    BY <1>4, <1>8
  <2>2. PICK m \in back : \A y \in back : m <= y
    BY <2>1, LeastMember
  <2>3. PICK x \in bad : m = d - x
    BY <2>2
  <2>4. x # d
    BY <1>5, <2>3
  <2>5. x + 1 \in 0 .. d /\ x + 1 > 0 /\ (x + 1) - 1 = x /\ x \in 0 .. d
    BY <1>4, <2>3, <2>4
  <2>6. ~Good(x)
    BY <2>3
  <2>7. Good(x + 1)
    <3> SUFFICES ASSUME x + 1 \in bad PROVE FALSE
      BY <2>5
    <3>1. m <= d - (x + 1)
      BY <2>2 DEF back
    <3> QED
      BY <1>4, <2>3, <2>5, <3>1
  <2> QED
    BY <1>6, <2>5, <2>6, <2>7
<1> QED
  BY <1>7, <1>8

\* No two cells of the table have the same key.
KeysApart(t) == \A p, q \in Occupied(t) : t.slots[p].key = t.slots[q].key => p = q

\* find_cell finds the cell of a key that has one ...
LEMMA CellFound ==
    ASSUME NEW t, IsTable(t), Ordered(t), KeysApart(t), NEW p \in Occupied(t)
    PROVE  FindCell(t, t.slots[p].key) = {p}
<1> DEFINE k == t.slots[p].key
           d == Distance(t, k, p)
           stops == {x \in Slots(t) : LET c == t.slots[Probe(t, k, x)] IN IsFree(c) \/ c.key = k}
<1>1. t.cap > 0 /\ p \in Slots(t)
  BY DEF Occupied, Slots, IsTable
<1>2. k \in Key /\ t.cap \in Nat /\ ~IsFree(t.slots[p])
  BY <1>1, SlotFacts
<1>3. d \in Slots(t) /\ Probe(t, k, d) = p /\ d = FromHome(t, p)
  BY <1>1, <1>2, ScanFacts DEF FromHome
<1>4. d \in stops /\ stops \in SUBSET (0 .. t.cap - 1)
  BY <1>3 DEF Slots
<1>5. PICK e \in stops : First(stops) = {e} /\ \A x \in 0 .. e - 1 : x \notin stops
  <2> HIDE DEF stops
  <2> QED
    BY <1>2, <1>4, FirstStop
<1>6. e \in 0 .. d /\ e \in Slots(t)
  BY <1>2, <1>3, <1>4, <1>5 DEF Slots
<1>7. Probe(t, k, e) \in Occupied(t)
  BY <1>3, <1>6, NoGap
<1>8. t.slots[Probe(t, k, e)].key = k
  BY <1>5, <1>7 DEF Occupied
<1>9. Probe(t, k, e) = p
  BY <1>7, <1>8 DEF KeysApart
<1> QED
  BY <1>2, <1>5, <1>9 DEF FindCell

\* ... and nothing else.
LEMMA FoundHasKey ==
    ASSUME NEW t, IsTable(t), NEW k \in Key, NEW p \in FindCell(t, k)
    PROVE  p \in Occupied(t) /\ t.slots[p].key = k
<1> DEFINE stops == {x \in Slots(t) : LET c == t.slots[Probe(t, k, x)] IN IsFree(c) \/ c.key = k}
<1>0. PICK d \in First(stops) : p = Probe(t, k, d) /\ ~IsFree(t.slots[p])
  BY DEF FindCell
<1>1. d \in stops
  BY <1>0 DEF First
<1>2. t.cap > 0
  BY <1>1 DEF Slots, IsTable
<1>3. p \in Slots(t)
  BY <1>0, <1>1, <1>2, ScanFacts
<1> QED
  BY <1>0, <1>1, <1>3 DEF Occupied

\* So a key is looked up with success exactly when it has a cell.
LEMMA HasKeyExact ==
    ASSUME NEW t, IsTable(t), Ordered(t), KeysApart(t), NEW k \in Key
    PROVE  HasKey(t, k) <=> \E p \in Occupied(t) : t.slots[p].key = k
BY CellFound, FoundHasKey DEF HasKey

\* Where scan_for_slot puts a cell: all cells before are at least as far from
\* home as this one was there, and the one that gives way is nearer.
LEMMA SlotForExact ==
    ASSUME NEW t, IsTable(t), NEW f \in Slots(t), IsFree(t.slots[f]), NEW k \in Key
    PROVE  \E p \in Slots(t) :
              /\ SlotFor(t, k) = {p}
              /\ \A e \in 0 .. Distance(t, k, p) - 1 :
                    LET q == Probe(t, k, e)
                    IN  q \in Occupied(t) /\ e <= FromHome(t, q)
              /\ p \in Occupied(t) => FromHome(t, p) < Distance(t, k, p)
<1> DEFINE stops == {d \in Slots(t) :
                       LET p == Probe(t, k, d)
                       IN  IsFree(t.slots[p]) \/ Displaces(t, d, p)}
<1>1. t.cap > 0 /\ t.cap \in Nat /\ Slots(t) = 0 .. t.cap - 1
  BY DEF Slots, IsTable
<1>2. Distance(t, k, f) \in stops /\ stops \in SUBSET (0 .. t.cap - 1)
  BY <1>1, ScanFacts
<1>3. PICK d \in stops : First(stops) = {d} /\ \A e \in 0 .. d - 1 : e \notin stops
  <2> HIDE DEF stops
  <2> QED
    BY <1>1, <1>2, FirstStop
<1> DEFINE p == Probe(t, k, d)
<1>4. p \in Slots(t) /\ Distance(t, k, p) = d /\ d \in Slots(t)
  BY <1>1, <1>3, ScanFacts
<1>5. SlotFor(t, k) = {p}
  BY <1>3 DEF SlotFor
<1>6. ASSUME NEW e \in 0 .. d - 1
      PROVE  LET q == Probe(t, k, e)
             IN  q \in Occupied(t) /\ e <= FromHome(t, q)
  <2> DEFINE q == Probe(t, k, e)
  <2>1. e \in Slots(t) /\ e \notin stops
    BY <1>1, <1>3, <1>4
  <2>2. ~IsFree(t.slots[q]) /\ ~(e > FromHome(t, q))
    BY <2>1 DEF Displaces
  <2>3. q \in Occupied(t)
    BY <1>1, <2>1, <2>2, ScanFacts DEF Occupied
  <2>5. FromHome(t, q) \in Nat /\ e \in Nat
    BY <2>3, FromHomeNat
  <2> QED
    BY <2>2, <2>3, <2>5
<1>7. ASSUME p \in Occupied(t)
      PROVE  FromHome(t, p) < d
  <2>1. Displaces(t, d, p)
    BY <1>3, <1>7 DEF Occupied
  <2> QED
    BY <2>1 DEF Displaces
<1> HIDE DEF p
<1> QED
  BY <1>4, <1>5, <1>6, <1>7

\* Place writes one slot.
LEMMA PlaceOne ==
    ASSUME NEW t, IsTable(t), NEW p \in Slots(t), NEW c \in Cell \cup {Free}
    PROVE  /\ IsTable(Place(t, c, p))
           /\ Place(t, c, p).cap = t.cap /\ Place(t, c, p).size = t.size
           /\ Place(t, c, p).slots[p] = c
           /\ \A q \in Slots(t) \ {p} : Place(t, c, p).slots[q] = t.slots[q]
<1> DEFINE s == [t.slots EXCEPT ![p] = c]
           u == [cap |-> t.cap, slots |-> s, size |-> t.size]
<1>1. Place(t, c, p) = u
  <2>1. t = [cap |-> t.cap, slots |-> t.slots, size |-> t.size]
    BY DEF IsTable
  <2> QED
    BY <2>1 DEF Place
<1>2. t.slots \in [Slots(t) -> Cell \cup {Free}] /\ t.cap \in Nat /\ t.size \in Nat
  BY DEF IsTable
<1>3. s \in [Slots(t) -> Cell \cup {Free}] /\ s[p] = c /\ \A q \in Slots(t) \ {p} : s[q] = t.slots[q]
  BY <1>2
<1> HIDE DEF s
<1>4. u.cap = t.cap /\ u.slots = s /\ u.size = t.size /\ Slots(u) = Slots(t)
  BY DEF Slots
<1>5. IsTable(u)
  BY <1>2, <1>3, <1>4 DEF IsTable
<1> HIDE DEF u
<1> QED
  BY <1>1, <1>3, <1>4, <1>5 DEF s

\* Distances depend on the capacity alone.
LEMMA SameCircle ==
    ASSUME NEW t, NEW u, u.cap = t.cap
    PROVE  /\ \A k, p : Distance(u, k, p) = Distance(t, k, p)
           /\ \A p : Before(u, p) = Before(t, p)
           /\ Slots(u) = Slots(t)
BY DEF Distance, Home, Apart, Before, Slots

\* A cell that is put where scan_for_slot says leaves the table in order,
\* whether it fills the slot or displaces the cell there.
LEMMA PutOrdered ==
    ASSUME NEW t, IsTable(t), Ordered(t), NEW f \in Slots(t), IsFree(t.slots[f]),
           NEW c \in Cell, NEW p \in SlotFor(t, c.key),
           NEW u, IsTable(u), u.cap = t.cap, u.slots[p] = c,
           \A q \in Slots(t) \ {p} : u.slots[q] = t.slots[q]
    PROVE  Ordered(u)
<1> DEFINE k == c.key
           d == Distance(t, k, p)
<1>1. t.cap > 0 /\ t.cap \in Nat /\ k \in Key /\ ~IsFree(c)
  BY CellNotFree DEF Slots, IsTable
<1>2. /\ p \in Slots(t)
      /\ \A e \in 0 .. d - 1 : LET q == Probe(t, k, e)
                               IN  q \in Occupied(t) /\ e <= FromHome(t, q)
      /\ p \in Occupied(t) => FromHome(t, p) < d
  BY <1>1, SlotForExact
<1>3. u.slots[p] = c /\ \A x \in Slots(t) \ {p} : u.slots[x] = t.slots[x]
  OBVIOUS
<1>4. d \in 0 .. t.cap - 1 /\ Probe(t, k, d) = p
  BY <1>1, <1>2, ScanFacts DEF Slots
<1> SUFFICES ASSUME NEW x \in Occupied(u), FromHome(u, x) > 0,
                    NEW b, b = Before(t, x)
             PROVE  b \in Occupied(u) /\ FromHome(u, x) <= FromHome(u, b) + 1
  BY SameCircle DEF Ordered
<1>5. x \in Slots(t) /\ b \in Slots(t) /\ \A y \in Slots(t) : y \in Occupied(u) <=> ~IsFree(u.slots[y])
  BY <1>1, ScanFacts, SameCircle DEF Occupied
<1>6. CASE x = p
  <2>1. d > 0 /\ d - 1 \in 0 .. d - 1
    BY <1>3, <1>4, <1>6, SameCircle DEF FromHome
  <2>2. b = Probe(t, k, d - 1)
    BY <1>1, <1>4, <1>6, <2>1, ScanFacts
  <2>3. b \in Occupied(t) /\ d - 1 <= FromHome(t, b)
    BY <1>2, <2>1, <2>2
  <2>4. Distance(t, k, b) = d - 1
    BY <1>1, <1>2, <1>6, <2>1, ScanFacts
  <2>5. b # p
    BY <1>4, <2>4
  <2>6. u.slots[b] = t.slots[b] /\ b \in Occupied(u)
    BY <1>3, <1>5, <2>3, <2>5 DEF Occupied
  <2>7. FromHome(t, b) \in Nat /\ FromHome(u, b) = FromHome(t, b) /\ FromHome(u, x) = d
    BY <1>3, <1>6, <2>3, <2>6, FromHomeNat, SameCircle DEF FromHome
  <2> QED
    BY <1>4, <2>3, <2>6, <2>7
<1>7. CASE x # p
  <2>1. u.slots[x] = t.slots[x] /\ x \in Occupied(t)
    BY <1>3, <1>5, <1>7, SameCircle DEF Occupied
  <2>2. b \in Occupied(t) /\ FromHome(t, x) <= FromHome(t, b) + 1
    BY <2>1, SameCircle DEF Ordered, FromHome
  <2>3. CASE b # p
    <3>1. u.slots[b] = t.slots[b] /\ b \in Occupied(u)
      BY <1>3, <1>5, <2>2, <2>3 DEF Occupied
    <3>2. FromHome(u, b) = FromHome(t, b) /\ FromHome(u, x) = FromHome(t, x)
      BY <2>1, <3>1, SameCircle DEF FromHome
    <3> QED
      BY <2>1, <2>2, <3>1, <3>2, <1>7
  <2>4. CASE b = p
    <3>1. FromHome(t, p) < d
      BY <1>2, <2>2, <2>4
    <3>2. /\ FromHome(t, p) \in Nat /\ FromHome(t, x) \in Nat
      BY <2>1, <2>2, <2>4, FromHomeNat
    <3>3. FromHome(t, x) <= d + 1
      BY <1>4, <2>2, <2>4, <3>1, <3>2
    <3>4. b \in Occupied(u) /\ FromHome(u, b) = d /\ FromHome(u, x) = FromHome(t, x)
      BY <1>1, <1>3, <1>5, <2>1, <2>4, SameCircle DEF FromHome
    <3> QED
      BY <3>3, <3>4
  <2> QED
    BY <2>3, <2>4
<1> QED
  BY <1>6, <1>7

-----------------------------------------------------------------------------
(* Removal. *)

\* What Vacate makes of t: for some r the r cells after slot p have moved back,
\* the slot of the last of them is free, the others have stayed.
Shifted(t, p, r, w) ==
    /\ IsTable(w) /\ w.cap = t.cap /\ w.size = t.size - 1
    /\ r \in 0 .. t.cap - 2
    /\ \A n \in 0 .. r - 1 : /\ w.slots[After(t, p, n)] = t.slots[After(t, p, n + 1)]
                            /\ After(t, p, n + 1) \in Occupied(t)
                            /\ FromHome(t, After(t, p, n + 1)) > 0
    /\ w.slots[After(t, p, r)] = Free
    /\ \A n \in r + 1 .. t.cap - 1 : w.slots[After(t, p, n)] = t.slots[After(t, p, n)]
    /\ After(t, p, r + 1) \in Occupied(t) => FromHome(t, After(t, p, r + 1)) = 0

\* The shift ends before it comes round to slot p: there is another free slot.
LEMMA VacateShifts ==
    ASSUME NEW t, IsTable(t), t.size > 0, NEW p \in Occupied(t), NEW f \in Slots(t), IsFree(t.slots[f])
    PROVE  \E r : Shifted(t, p, r, Vacate(t, p))
<1> DEFINE u == Place(t, Free, p)
           At(n) == After(t, p, n)
           stops == {n \in Slots(t) :
                       LET q == After(t, p, n + 1) IN IsFree(u.slots[q]) \/ FromHome(u, q) = 0}
           Moved(q) == LET n == Apart(t, p, q)
                       IN  IF \A e \in stops : n < e THEN u.slots[After(t, p, n + 1)]
                           ELSE IF n \in First(stops) THEN Free ELSE u.slots[q]
           w == Vacate(t, p)
<1>1. /\ p \in Slots(t) /\ f \in Slots(t) /\ f # p /\ t.cap > 0 /\ t.cap \in Nat \ {0}
      /\ Slots(t) = 0 .. t.cap - 1
  BY DEF Occupied, Slots, IsTable
<1>2. /\ u = [cap |-> t.cap, slots |-> u.slots, size |-> t.size]
      /\ u.cap = t.cap /\ u.size = t.size
      /\ u.slots \in [Slots(t) -> Cell \cup {Free}]
      /\ u.slots[p] = Free /\ \A q \in Slots(t) \ {p} : u.slots[q] = t.slots[q]
  <2>0. p \in Slots(t) /\ Free \in Cell \cup {Free}
    BY <1>1
  <2>1. IsTable(u) /\ u.cap = t.cap /\ u.size = t.size
    BY <2>0, PlaceOne
  <2>2. u.slots[p] = Free /\ \A q \in Slots(t) \ {p} : u.slots[q] = t.slots[q]
    BY <2>0, PlaceOne
  <2> QED
    BY <2>1, <2>2, SameCircle DEF IsTable
<1>3. \A q \in Slots(t) \ {p} : FromHome(u, q) = FromHome(t, q)
  BY <1>2, SameCircle DEF FromHome
<1>4. /\ \A n \in 0 .. t.cap - 1 : At(n) \in Slots(t) /\ Apart(t, p, At(n)) = n
      /\ \A q \in Slots(t) : Apart(t, p, q) \in 0 .. t.cap - 1 /\ At(Apart(t, p, q)) = q
      /\ At(0) = p /\ At(t.cap) = p
  BY <1>1, FromSlot
<1>5. \A n \in 1 .. t.cap - 1 : At(n) # p
  BY <1>1, FromSlot
<1>6. Apart(t, p, f) - 1 \in stops /\ Apart(t, p, f) - 1 \in 0 .. t.cap - 2
  <2>1. Apart(t, p, f) \in 1 .. t.cap - 1
    BY <1>1, <1>4
  <2>2. At((Apart(t, p, f) - 1) + 1) = f
    BY <1>1, <1>4, <2>1
  <2>3. Apart(t, p, f) - 1 \in Slots(t)
    BY <1>1, <2>1
  <2> QED
    BY <1>1, <1>2, <2>1, <2>2, <2>3
<1>7. stops \in SUBSET (0 .. t.cap - 1) /\ stops # {}
  BY <1>1, <1>6
<1>8. PICK r \in stops : First(stops) = {r} /\ \A e \in 0 .. r - 1 : e \notin stops
  <2> HIDE DEF stops
  <2> QED
    BY <1>1, <1>7, FirstStop
<1>9. r \in 0 .. t.cap - 2 /\ \A e \in stops : r <= e
  <2> HIDE DEF stops
  <2> QED
    BY <1>1, <1>6, <1>7, <1>8
<1>10. w = [u EXCEPT !.slots = [q \in Slots(t) |-> Moved(q)], !.size = @ - 1]
  BY DEF Vacate
<1>11. /\ w = [cap |-> t.cap, slots |-> [q \in Slots(t) |-> Moved(q)], size |-> t.size - 1]
       /\ w.cap = t.cap /\ w.size = t.size - 1 /\ w.slots = [q \in Slots(t) |-> Moved(q)]
  <2> HIDE DEF Moved, w, u
  <2> QED
    BY <1>2, <1>10
<1>12. ASSUME NEW n \in 0 .. t.cap - 1
       PROVE  w.slots[At(n)] = IF n < r THEN u.slots[At(n + 1)]
                               ELSE IF n = r THEN Free ELSE u.slots[At(n)]
  <2>1. At(n) \in Slots(t) /\ Apart(t, p, At(n)) = n
    BY <1>4
  <2>2. (\A e \in stops : n < e) <=> n < r
    <3> HIDE DEF stops
    <3> QED
      BY <1>1, <1>7, <1>8, <1>9
  <2>3. n \in First(stops) <=> n = r
    BY <1>8
  <2>4. w.slots[At(n)] = Moved(At(n))
    <3> HIDE DEF Moved, w, At
    <3> QED
      BY <1>11, <2>1
  <2>5. Moved(At(n)) = IF \A e \in stops : n < e THEN u.slots[At(n + 1)]
                       ELSE IF n \in First(stops) THEN Free ELSE u.slots[At(n)]
    <3> HIDE DEF stops, u
    <3> QED
      BY <2>1
  <2> HIDE DEF Moved, w, At, stops, u
  <2> QED
    BY <2>2, <2>3, <2>4, <2>5
<1>13. ASSUME NEW n \in 0 .. r - 1
       PROVE  /\ w.slots[At(n)] = t.slots[At(n + 1)] /\ At(n + 1) \in Occupied(t)
              /\ FromHome(t, At(n + 1)) > 0
  <2>1. n \in 0 .. t.cap - 1 /\ n + 1 \in 1 .. t.cap - 1 /\ n < r /\ n \notin stops
    BY <1>1, <1>8, <1>9
  <2>2. ~IsFree(u.slots[At(n + 1)]) /\ FromHome(u, At(n + 1)) # 0
    BY <1>1, <2>1
  <2>3. At(n + 1) \in Slots(t) \ {p}
    BY <1>1, <1>4, <1>5, <2>1
  <2>4. At(n + 1) \in Occupied(t) /\ FromHome(t, At(n + 1)) # 0
    BY <1>2, <1>3, <2>2, <2>3 DEF Occupied
  <2>5. FromHome(t, At(n + 1)) > 0
    BY <2>4, FromHomeNat
  <2> HIDE DEF w, u, At
  <2> QED
    BY <1>2, <1>12, <2>1, <2>3, <2>4, <2>5
<1>14. w.slots[At(r)] = Free
  <2> HIDE DEF w, u, At
  <2> QED
    BY <1>1, <1>9, <1>12
<1>15. ASSUME NEW n \in r + 1 .. t.cap - 1
       PROVE  w.slots[At(n)] = t.slots[At(n)]
  <2>1. n \in 0 .. t.cap - 1 /\ n \in 1 .. t.cap - 1 /\ ~(n < r) /\ n # r
    BY <1>1, <1>9
  <2>2. At(n) \in Slots(t) \ {p}
    BY <1>4, <1>5, <2>1
  <2> HIDE DEF w, u, At
  <2> QED
    BY <1>2, <1>12, <2>1, <2>2
<1>16. At(r + 1) \in Occupied(t) => FromHome(t, At(r + 1)) = 0
  <2>1. IsFree(u.slots[At(r + 1)]) \/ FromHome(u, At(r + 1)) = 0
    BY <1>8
  <2>2. At(r + 1) \in Slots(t) \ {p}
    <3>1. r + 1 \in 1 .. t.cap - 1 /\ r + 1 \in 0 .. t.cap - 1
      BY <1>1, <1>9
    <3> HIDE DEF At
    <3> QED
      BY <1>4, <1>5, <3>1
  <2> QED
    BY <1>2, <1>3, <2>1, <2>2 DEF Occupied
<1>17. IsTable(w)
  <2>1. \A q \in Slots(t) : w.slots[q] \in Cell \cup {Free}
    <3> SUFFICES ASSUME NEW q \in Slots(t) PROVE w.slots[q] \in Cell \cup {Free}
      OBVIOUS
    <3> DEFINE n == Apart(t, p, q)
    <3>1. n \in 0 .. t.cap - 1 /\ At(n) = q
      BY <1>4
    <3>2. At(n + 1) \in Slots(t)
      <4>1. n + 1 \in 0 .. t.cap - 1 \/ n + 1 = t.cap
        BY <1>1, <3>1
      <4> HIDE DEF At, n
      <4> QED
        BY <1>1, <1>4, <4>1
    <3>3. u.slots[q] \in Cell \cup {Free} /\ u.slots[At(n + 1)] \in Cell \cup {Free}
      BY <1>2, <3>2
    <3> HIDE DEF n, w, u, At
    <3> QED
      BY <1>12, <3>1, <3>3
  <2>2. w.slots \in [Slots(w) -> Cell \cup {Free}]
    <3>1. Slots(w) = Slots(t)
      BY <1>11 DEF Slots
    <3> HIDE DEF Moved, w
    <3> QED
      BY <1>11, <2>1, <3>1
  <2>3. w.size \in Nat /\ w.cap \in Nat
    BY <1>1, <1>11 DEF IsTable
  <2> HIDE DEF w, Moved
  <2> QED
    BY <1>11, <2>2, <2>3 DEF IsTable
<1>18. w.cap = t.cap /\ w.size = t.size - 1
  BY <1>11
<1> HIDE DEF w
<1>19. Shifted(t, p, r, w)
  BY <1>9, <1>13, <1>14, <1>15, <1>16, <1>17, <1>18 DEF Shifted
<1> QED
  BY <1>19 DEF w

\* The cells that have moved are one slot nearer to their homes.
LEMMA MovedNearer ==
    ASSUME NEW t, IsTable(t), NEW p \in Occupied(t), NEW r, NEW w, Shifted(t, p, r, w),
           NEW n \in 0 .. r - 1
    PROVE  LET x == After(t, p, n)
               y == After(t, p, n + 1)
           IN  /\ x \in Slots(t) /\ y \in Occupied(t) /\ x = Before(t, y)
               /\ w.slots[x] = t.slots[y]
               /\ FromHome(t, y) \in Nat /\ FromHome(t, y) > 0
               /\ FromHome(w, x) = FromHome(t, y) - 1
<1> DEFINE x == After(t, p, n)
           y == After(t, p, n + 1)
<1>1. t.cap > 0 /\ t.cap \in Nat \ {0} /\ p \in Slots(t)
  BY DEF Occupied, Slots, IsTable
<1>2. r \in 0 .. t.cap - 2 /\ n \in 0 .. t.cap - 1 /\ w.cap = t.cap
  BY <1>1 DEF Shifted
<1>3. w.slots[x] = t.slots[y] /\ y \in Occupied(t) /\ FromHome(t, y) > 0
  BY DEF Shifted
<1>4. x \in Slots(t) /\ x = Before(t, y)
  BY <1>1, <1>2, FromSlot
<1>5. y \in Slots(t) /\ FromHome(t, y) \in Nat /\ t.slots[y].key \in Key
  BY <1>1, <1>3, FromHomeNat, SlotFacts
<1>6. Distance(t, t.slots[y].key, x) = Distance(t, t.slots[y].key, y) - 1
  BY <1>1, <1>3, <1>4, <1>5, ScanFacts DEF FromHome
<1>7. FromHome(w, x) = FromHome(t, y) - 1
  BY <1>2, <1>3, <1>6, SameCircle DEF FromHome
<1> HIDE DEF x, y
<1> QED
  BY <1>3, <1>4, <1>5, <1>7 DEF x, y

\* A removal leaves the table in order.
LEMMA VacateOrdered ==
    ASSUME NEW t, IsTable(t), Ordered(t), NEW p \in Occupied(t), NEW r, NEW w, Shifted(t, p, r, w)
    PROVE  Ordered(w)
<1> DEFINE At(n) == After(t, p, n)
<1>1. t.cap > 0 /\ t.cap \in Nat \ {0} /\ p \in Slots(t)
  BY DEF Occupied, Slots, IsTable
<1>2. r \in 0 .. t.cap - 2 /\ w.cap = t.cap /\ w.slots[At(r)] = Free
  BY DEF Shifted
<1>3. /\ \A n \in 0 .. t.cap - 1 : At(n) \in Slots(t) /\ Apart(t, p, At(n)) = n
      /\ \A q \in Slots(t) : Apart(t, p, q) \in 0 .. t.cap - 1 /\ At(Apart(t, p, q)) = q
      /\ At(0) = p /\ At(t.cap) = p
      /\ \A n \in 0 .. t.cap - 1 : Before(t, At(n + 1)) = At(n)
  BY <1>1, FromSlot
<1>4. ASSUME NEW n \in r + 1 .. t.cap - 1
      PROVE  /\ w.slots[At(n)] = t.slots[At(n)] /\ FromHome(w, At(n)) = FromHome(t, At(n))
             /\ At(n) \in Occupied(w) <=> At(n) \in Occupied(t)
  <2>1. w.slots[At(n)] = t.slots[At(n)]
    BY DEF Shifted
  <2>2. At(n) \in Slots(t)
    BY <1>1, <1>2, <1>3
  <2> HIDE DEF At
  <2> QED
    BY <1>2, <2>1, <2>2, SameCircle DEF FromHome, Occupied
<1>5. ASSUME NEW n \in 0 .. r - 1
      PROVE  /\ At(n) \in Occupied(w) /\ At(n + 1) \in Occupied(t) /\ At(n) = Before(t, At(n + 1))
             /\ FromHome(t, At(n + 1)) \in Nat /\ FromHome(t, At(n + 1)) > 0
             /\ FromHome(w, At(n)) = FromHome(t, At(n + 1)) - 1
  <2>1. /\ At(n) \in Slots(t) /\ At(n + 1) \in Occupied(t) /\ At(n) = Before(t, At(n + 1))
        /\ w.slots[At(n)] = t.slots[At(n + 1)]
        /\ FromHome(t, At(n + 1)) \in Nat /\ FromHome(t, At(n + 1)) > 0
        /\ FromHome(w, At(n)) = FromHome(t, At(n + 1)) - 1
    BY MovedNearer
  <2> HIDE DEF At
  <2>2. At(n) \in Occupied(w)
    BY <1>2, <2>1, SameCircle DEF Occupied
  <2> QED
    BY <2>1, <2>2
<1> SUFFICES ASSUME NEW x \in Occupied(w), FromHome(w, x) > 0
             PROVE  Before(t, x) \in Occupied(w) /\ FromHome(w, x) <= FromHome(w, Before(t, x)) + 1
  BY <1>2, SameCircle DEF Ordered
<1> DEFINE n == Apart(t, p, x)
<1>6. x \in Slots(t) /\ ~IsFree(w.slots[x])
  BY <1>2, SameCircle DEF Occupied
<1>7. n \in 0 .. t.cap - 1 /\ At(n) = x
  BY <1>3, <1>6
<1>8. n # r
  BY <1>2, <1>6, <1>7, CellNotFree
<1> HIDE DEF At, n
<1>9. CASE n < r
  <2>1. n \in 0 .. r - 1
    BY <1>7, <1>9, <1>2
  <2>2. FromHome(w, x) = FromHome(t, At(n + 1)) - 1 /\ FromHome(t, At(n + 1)) \in Nat
    BY <1>5, <1>7, <2>1
  <2>3. x \in Occupied(t) /\ FromHome(t, At(n + 1)) <= FromHome(t, x) + 1
    BY <1>5, <1>7, <2>1 DEF Ordered
  <2>4. FromHome(t, x) \in Nat /\ FromHome(w, x) <= FromHome(t, x) /\ FromHome(t, x) > 0
    BY <2>2, <2>3, FromHomeNat
  <2>5. CASE n = 0
    <3>1. x = p /\ Before(t, x) = At(t.cap - 1) /\ t.cap - 1 \in r + 1 .. t.cap - 1
      <4>1. t.cap - 1 \in 0 .. t.cap - 1 /\ (t.cap - 1) + 1 = t.cap /\ t.cap - 1 \in r + 1 .. t.cap - 1
        BY <1>1, <1>2
      <4> QED
        BY <1>3, <1>7, <2>5, <4>1
    <3>2. Before(t, x) \in Occupied(t) /\ FromHome(t, x) <= FromHome(t, Before(t, x)) + 1
      BY <2>3, <2>4 DEF Ordered
    <3>3. Before(t, x) \in Occupied(w) /\ FromHome(w, Before(t, x)) = FromHome(t, Before(t, x))
      BY <1>4, <3>1, <3>2
    <3> QED
      BY <2>2, <2>4, <3>2, <3>3, FromHomeNat
  <2>6. CASE n > 0
    <3>1. n - 1 \in 0 .. r - 1 /\ n - 1 \in 0 .. t.cap - 1 /\ (n - 1) + 1 = n
      BY <1>1, <1>2, <2>1, <2>6
    <3>2. Before(t, x) = At(n - 1)
      BY <1>3, <1>7, <3>1
    <3>3. At(n - 1) \in Occupied(w) /\ FromHome(w, At(n - 1)) = FromHome(t, x) - 1
      BY <1>5, <1>7, <3>1
    <3> QED
      BY <2>4, <3>2, <3>3
  <2> QED
    BY <1>7, <2>5, <2>6
<1>10. CASE n > r
  <2>1. n \in r + 1 .. t.cap - 1 /\ n - 1 \in 0 .. t.cap - 1 /\ (n - 1) + 1 = n
    BY <1>1, <1>2, <1>7, <1>10
  <2>2. x \in Occupied(t) /\ FromHome(w, x) = FromHome(t, x)
    BY <1>4, <1>7, <2>1
  <2>3. Before(t, x) \in Occupied(t) /\ FromHome(t, x) <= FromHome(t, Before(t, x)) + 1
    BY <2>2 DEF Ordered
  <2>4. Before(t, x) = At(n - 1)
    BY <1>3, <1>7, <2>1
  <2>5. n # r + 1
    <3>1. At(r + 1) \in Occupied(t) => FromHome(t, At(r + 1)) = 0
      BY DEF Shifted, At
    <3> QED
      BY <1>7, <2>2, <3>1
  <2>6. n - 1 \in r + 1 .. t.cap - 1
    BY <1>1, <1>2, <1>7, <2>1, <2>5
  <2> QED
    BY <1>4, <2>2, <2>3, <2>4, <2>6
<1> QED
  BY <1>2, <1>7, <1>8, <1>9, <1>10

\* A removal takes the cell of slot p out and loses or doubles no other.
LEMMA VacateCells ==
    ASSUME NEW t, IsTable(t), NEW p \in Occupied(t), NEW r, NEW w, Shifted(t, p, r, w)
    PROVE  /\ Occupied(w) = Occupied(t) \ {After(t, p, r)}
           /\ After(t, p, r) \in Occupied(t)
           /\ \A x \in Occupied(w) : \E y \in Occupied(t) \ {p} : w.slots[x] = t.slots[y]
           /\ \A y \in Occupied(t) \ {p} : \E x \in Occupied(w) : w.slots[x] = t.slots[y]
           /\ KeysApart(t) => KeysApart(w)
<1> DEFINE At(n) == After(t, p, n)
           Src(n) == IF n < r THEN n + 1 ELSE n
<1>1. t.cap > 0 /\ t.cap \in Nat \ {0} /\ p \in Slots(t)
  BY DEF Occupied, Slots, IsTable
<1>2. r \in 0 .. t.cap - 2 /\ w.cap = t.cap /\ w.slots[At(r)] = Free
  BY DEF Shifted
<1>3. /\ \A n \in 0 .. t.cap - 1 : At(n) \in Slots(t) /\ Apart(t, p, At(n)) = n
      /\ \A q \in Slots(t) : Apart(t, p, q) \in 0 .. t.cap - 1 /\ At(Apart(t, p, q)) = q
      /\ At(0) = p
  BY <1>1, FromSlot
<1>4. \A n \in r + 1 .. t.cap - 1 : w.slots[At(n)] = t.slots[At(n)]
  BY DEF Shifted
<1>5. \A n \in 0 .. r - 1 : w.slots[At(n)] = t.slots[At(n + 1)] /\ At(n + 1) \in Occupied(t)
  BY DEF Shifted
<1>6. Slots(w) = Slots(t)
  BY <1>2, SameCircle
<1> HIDE DEF At
<1>7. ASSUME NEW n \in 0 .. t.cap - 1, n # r
      PROVE  Src(n) \in 1 .. t.cap - 1 /\ w.slots[At(n)] = t.slots[At(Src(n))]
  BY <1>1, <1>2, <1>4, <1>5, <1>7
<1>8. ASSUME NEW n \in 0 .. r
      PROVE  At(n) \in Occupied(t)
  <2>1. CASE n = 0
    BY <1>3, <2>1
  <2>2. CASE n > 0
    <3>1. n - 1 \in 0 .. r - 1 /\ (n - 1) + 1 = n
      BY <1>1, <1>2, <2>2
    <3> QED
      BY <1>5, <3>1
  <2> QED
    BY <1>1, <1>2, <2>1, <2>2
<1>9. \A n \in 0 .. t.cap - 1 : At(n) \in Occupied(w) <=> At(n) \in Occupied(t) /\ n # r
  <2> SUFFICES ASSUME NEW n \in 0 .. t.cap - 1
               PROVE  At(n) \in Occupied(w) <=> At(n) \in Occupied(t) /\ n # r
    OBVIOUS
  <2>1. At(n) \in Slots(t)
    BY <1>3
  <2>2. CASE n = r
    BY <1>2, <2>2, CellNotFree DEF Occupied
  <2>3. CASE n < r
    <3>1. n \in 0 .. r - 1 /\ n \in 0 .. r
      BY <1>1, <1>2, <2>3
    <3>2. At(n) \in Occupied(t) /\ w.slots[At(n)] = t.slots[At(n + 1)] /\ At(n + 1) \in Occupied(t)
      BY <1>5, <1>8, <3>1
    <3> QED
      BY <1>6, <2>1, <2>3, <3>2 DEF Occupied
  <2>4. CASE n > r
    <3>1. n \in r + 1 .. t.cap - 1
      BY <1>1, <1>2, <2>4
    <3> QED
      BY <1>4, <1>6, <2>1, <2>4, <3>1 DEF Occupied
  <2> QED
    BY <1>1, <1>2, <2>2, <2>3, <2>4
<1>10. \A x \in Slots(t) : x = At(r) <=> Apart(t, p, x) = r
  BY <1>1, <1>2, <1>3
<1>11. Occupied(w) = Occupied(t) \ {At(r)}
  <2>1. \A x \in Slots(t) : x \in Occupied(w) <=> x \in Occupied(t) /\ x # At(r)
    BY <1>3, <1>9, <1>10
  <2> QED
    BY <1>6, <2>1 DEF Occupied
<1>12. At(r) \in Occupied(t)
  BY <1>2, <1>8
<1>13. \A x \in Occupied(w) : x \in Slots(t) /\ Apart(t, p, x) \in 0 .. t.cap - 1 /\ Apart(t, p, x) # r
  BY <1>3, <1>6, <1>9 DEF Occupied
<1>14. ASSUME NEW x \in Occupied(w)
       PROVE  LET y == At(Src(Apart(t, p, x)))
              IN  y \in Occupied(t) \ {p} /\ w.slots[x] = t.slots[y]
  <2> DEFINE n == Apart(t, p, x)
  <2>1. n \in 0 .. t.cap - 1 /\ n # r /\ At(n) = x
    BY <1>3, <1>13
  <2>2. Src(n) \in 1 .. t.cap - 1 /\ w.slots[x] = t.slots[At(Src(n))]
    BY <1>7, <2>1
  <2>3. At(Src(n)) \in Slots(t) /\ At(Src(n)) # p
    BY <1>1, <1>3, <2>2, FromSlot DEF At
  <2>4. ~IsFree(t.slots[At(Src(n))])
    BY <2>2 DEF Occupied
  <2> HIDE DEF n, Src
  <2> QED
    BY <2>2, <2>3, <2>4 DEF Occupied, n
<1>15. ASSUME NEW y \in Occupied(t) \ {p}
       PROVE  \E x \in Occupied(w) : w.slots[x] = t.slots[y]
  <2> DEFINE m == Apart(t, p, y)
             n == IF m <= r THEN m - 1 ELSE m
  <2>1. m \in 0 .. t.cap - 1 /\ At(m) = y
    BY <1>3 DEF Occupied
  <2>2. m # 0
    BY <1>3, <2>1
  <2> HIDE DEF m
  <2>3. n \in 0 .. t.cap - 1 /\ n # r /\ Src(n) = m
    BY <1>1, <1>2, <2>1, <2>2
  <2>4. w.slots[At(n)] = t.slots[y] /\ At(n) \in Slots(t)
    BY <1>3, <1>7, <2>1, <2>3
  <2>5. At(n) \in Occupied(w)
    BY <1>6, <2>4 DEF Occupied
  <2> QED
    BY <2>4, <2>5
<1>16. ASSUME KeysApart(t)
       PROVE  KeysApart(w)
  <2> SUFFICES ASSUME NEW x \in Occupied(w), NEW z \in Occupied(w),
                      w.slots[x].key = w.slots[z].key
               PROVE  x = z
    BY DEF KeysApart
  <2> DEFINE m == Apart(t, p, x)
             n == Apart(t, p, z)
  <2>1. /\ m \in 0 .. t.cap - 1 /\ m # r /\ At(m) = x
        /\ n \in 0 .. t.cap - 1 /\ n # r /\ At(n) = z
    BY <1>3, <1>13
  <2>2. At(Src(m)) = At(Src(n))
    <3>1. /\ At(Src(m)) \in Occupied(t) /\ w.slots[x] = t.slots[At(Src(m))]
          /\ At(Src(n)) \in Occupied(t) /\ w.slots[z] = t.slots[At(Src(n))]
      BY <1>14
    <3> QED
      BY <1>16, <3>1 DEF KeysApart
  <2>3. Src(m) \in 0 .. t.cap - 1 /\ Src(n) \in 0 .. t.cap - 1
    <3>1. Src(m) \in 1 .. t.cap - 1 /\ Src(n) \in 1 .. t.cap - 1
      BY <1>7, <2>1
    <3> QED
      BY <1>1, <3>1
  <2> HIDE DEF m, n
  <2>4. Src(m) = Src(n)
    <3> HIDE DEF Src
    <3> QED
      BY <1>3, <2>2, <2>3
  <2>5. m = n
    BY <1>1, <1>2, <2>1, <2>4
  <2> QED
    BY <2>1, <2>5
<1> QED
  BY <1>11, <1>12, <1>14, <1>15, <1>16 DEF At

-----------------------------------------------------------------------------
(* The table as a whole. *)

\* A table between two calls of scan_for_slot.
TableInv(t) ==
    /\ IsTable(t) /\ Ordered(t) /\ KeysApart(t)
    /\ t.cap = 0 \/ t.cap >= 4
    /\ t.size = Cardinality(Occupied(t))
    /\ t.cap > 0 => t.size < t.cap

\* The cells of a table, and those in a sequence of cells and free slots.
Stored(t) == {t.slots[p] : p \in Occupied(t)}
Waiting(q) == {q[i] : i \in {j \in DOMAIN q : ~IsFree(q[j])}}

\* Occupied slots are finitely many.
LEMMA OccupiedFinite ==
    ASSUME NEW t, IsTable(t)
    PROVE  /\ IsFiniteSet(Slots(t)) /\ Cardinality(Slots(t)) = t.cap
           /\ IsFiniteSet(Occupied(t)) /\ Occupied(t) \in SUBSET Slots(t)
<1>1. t.cap \in Nat
  BY DEF IsTable
<1>2. 0 \in Int /\ t.cap - 1 \in Int
  BY <1>1
<1>3. IsFiniteSet(0 .. t.cap - 1) /\ Cardinality(0 .. t.cap - 1) = IF 0 > t.cap - 1 THEN 0 ELSE (t.cap - 1) - 0 + 1
  BY <1>2, FS_Interval
<1>4. IsFiniteSet(Slots(t)) /\ Cardinality(Slots(t)) = t.cap
  BY <1>1, <1>3 DEF Slots
<1>5. Occupied(t) \in SUBSET Slots(t)
  BY DEF Occupied
<1> QED
  BY <1>4, <1>5, FS_Subset

\* A fresh table.
LEMMA NewTableInv ==
    ASSUME NEW n \in Nat, n = 0 \/ n >= 4
    PROVE  TableInv(NewTable(n)) /\ Occupied(NewTable(n)) = {} /\ Stored(NewTable(n)) = {}
<1> DEFINE t == NewTable(n)
<1>1. /\ t = [cap |-> n, slots |-> t.slots, size |-> 0] /\ t.cap = n /\ t.size = 0
      /\ t.slots = [p \in 0 .. n - 1 |-> Free]
  BY DEF NewTable
<1> HIDE DEF t
<1>2. Slots(t) = 0 .. n - 1 /\ \A p \in Slots(t) : t.slots[p] = Free
  BY <1>1 DEF Slots
<1>3. IsTable(t)
  BY <1>1, <1>2 DEF IsTable
<1>4. Occupied(t) = {}
  BY <1>2, CellNotFree DEF Occupied
<1>5. Ordered(t) /\ KeysApart(t) /\ Stored(t) = {}
  BY <1>4 DEF Ordered, KeysApart, Stored
<1>6. t.size = Cardinality(Occupied(t)) /\ (t.cap > 0 => t.size < t.cap)
  BY <1>1, <1>4, FS_EmptySet
<1> QED
  BY <1>1, <1>3, <1>4, <1>5, <1>6 DEF TableInv, t

\* What the theorems ask of the keys: none is empty, and there are so few that
\* a hundred times their number fits in a word.
FewKeys == EmptyKeys = {} /\ Cardinality(Key) * 100 < Word

\* A table holds no more cells than there are keys.
LEMMA SizeBounded ==
    ASSUME NEW t, TableInv(t), FewKeys
    PROVE  t.size \in Nat /\ t.size * 100 < Word
<1> DEFINE f == [p \in Occupied(t) |-> t.slots[p].key]
<1>1. IsTable(t) /\ KeysApart(t) /\ t.size = Cardinality(Occupied(t)) /\ t.size \in Nat
  BY DEF TableInv, IsTable
<1>2. ASSUME NEW p \in Occupied(t)
      PROVE  t.slots[p].key \in Key
  <2>1. t.cap > 0
    BY <1>1 DEF Occupied, Slots, IsTable
  <2> QED
    BY <1>1, <2>1, SlotFacts
<1>3. f \in Injection(Occupied(t), Key)
  BY <1>1, <1>2 DEF Injection, IsInjective, KeysApart
<1> HIDE DEF f
<1>4. Cardinality(Occupied(t)) <= Cardinality(Key)
  BY <1>3, KeyAssumption, FS_Injection
<1>5. Cardinality(Key) \in Nat
  BY KeyAssumption, FS_CardinalityType
<1> QED
  BY <1>1, <1>4, <1>5, WordAssumption DEF FewKeys

\* A table that need not grow has room for one cell more and then some.
LEMMA RoomLeft ==
    ASSUME NEW t, TableInv(t), FewKeys, ~MustGrow(t)
    PROVE  /\ t.cap \in Nat /\ t.cap > 0 /\ t.size + 1 < t.cap
           /\ \E f \in Slots(t) : IsFree(t.slots[f])
<1>1. /\ t.size \in Nat /\ t.size * 100 < Word /\ t.cap \in Nat /\ IsTable(t)
      /\ t.cap = 0 \/ t.cap >= 4
  BY SizeBounded DEF TableInv, IsTable
<1>2. t.cap # 0 /\ ((t.size * 100) % Word) \div t.cap <= 70
  BY <1>1, WordAssumption DEF MustGrow, LoadFactor
<1>3. (t.size * 100) % Word = t.size * 100
  BY <1>1, WordAssumption
<1>4. t.size + 1 < t.cap
  <2> DEFINE n == t.cap
             m == t.size * 100
             q == m \div n
  <2>1. n \in Nat \ {0} /\ m \in Nat /\ q <= 70
    BY <1>1, <1>2, <1>3
  <2>2. q \in Nat /\ m < n * (q + 1)
    <3> HIDE DEF m, n
    <3> QED
      BY <2>1
  <2>3. n * (q + 1) <= n * 71
    <3> HIDE DEF m, n, q
    <3> QED
      BY <2>1, <2>2
  <2>4. m < n * 71
    <3>1. n * (q + 1) \in Nat /\ n * 71 \in Nat
      <4> HIDE DEF m, n, q
      <4> QED
        BY <2>1, <2>2
    <3> HIDE DEF m, n, q
    <3> QED
      BY <2>1, <2>2, <2>3, <3>1
  <2> HIDE DEF q
  <2> QED
    BY <1>1, <1>2, <2>4
<1>5. Occupied(t) # Slots(t)
  BY <1>1, <1>4, OccupiedFinite DEF TableInv
<1>6. \E f \in Slots(t) : IsFree(t.slots[f])
  BY <1>5 DEF Occupied
<1> QED
  BY <1>1, <1>2, <1>4, <1>6

\* A scan finds a slot, and only slots of the table.
LEMMA ScanEnds ==
    ASSUME NEW t, TableInv(t), FewKeys, ~MustGrow(t), NEW k \in Key
    PROVE  SlotFor(t, k) # {} /\ SlotFor(t, k) \subseteq Slots(t)
<1>1. PICK f \in Slots(t) : IsFree(t.slots[f])
  BY RoomLeft
<1>2. IsTable(t)
  BY DEF TableInv
<1>3. PICK p \in Slots(t) : SlotFor(t, k) = {p}
  BY <1>1, <1>2, SlotForExact
<1> QED
  BY <1>3

\* A cell that fills a free slot.
LEMMA FillTable ==
    ASSUME NEW t, TableInv(t), FewKeys, ~MustGrow(t),
           NEW c \in Cell, \A e \in Stored(t) : e.key # c.key,
           NEW p \in SlotFor(t, c.key), IsFree(t.slots[p])
    PROVE  LET u == [Place(t, c, p) EXCEPT !.size = @ + 1]
           IN  TableInv(u) /\ Stored(u) = Stored(t) \cup {c}
<1> DEFINE v == Place(t, c, p)
           u == [v EXCEPT !.size = @ + 1]
<1>1. /\ IsTable(t) /\ Ordered(t) /\ KeysApart(t) /\ t.size = Cardinality(Occupied(t))
      /\ t.cap = 0 \/ t.cap >= 4
  BY DEF TableInv
<1>2. t.cap \in Nat /\ t.cap > 0 /\ t.size + 1 < t.cap
  BY RoomLeft
<1>3. PICK f \in Slots(t) : IsFree(t.slots[f])
  BY RoomLeft
<1>4. c.key \in Key /\ ~IsFree(c)
  BY CellNotFree
<1>5. p \in Slots(t)
  BY <1>4, ScanEnds
<1>6. /\ IsTable(v) /\ v.cap = t.cap /\ v.size = t.size /\ v.slots[p] = c
      /\ \A q \in Slots(t) \ {p} : v.slots[q] = t.slots[q]
  BY <1>1, <1>5, PlaceOne
<1> HIDE DEF v
<1>7. /\ u = [cap |-> v.cap, slots |-> v.slots, size |-> v.size + 1]
      /\ u.cap = t.cap /\ u.slots = v.slots /\ u.size = t.size + 1
  BY <1>6 DEF IsTable
<1> HIDE DEF u
<1>8. IsTable(u)
  <2>1. Slots(u) = Slots(v) /\ u.size \in Nat /\ u.cap \in Nat
    BY <1>6, <1>7 DEF IsTable, Slots
  <2> QED
    BY <1>6, <1>7, <2>1 DEF IsTable
<1>9. u.slots[p] = c /\ \A q \in Slots(t) \ {p} : u.slots[q] = t.slots[q]
  BY <1>6, <1>7
<1>10. Ordered(u)
  BY <1>1, <1>3, <1>7, <1>8, <1>9, PutOrdered
<1>11. Slots(u) = Slots(t)
  BY <1>7 DEF Slots
<1>12. Occupied(u) = Occupied(t) \cup {p} /\ p \notin Occupied(t)
  BY <1>4, <1>5, <1>9, <1>11 DEF Occupied
<1>13. \A q \in Occupied(t) : u.slots[q] = t.slots[q] /\ t.slots[q].key # c.key
  BY <1>9, <1>12 DEF Occupied, Stored
<1>14. KeysApart(u)
  BY <1>1, <1>9, <1>12, <1>13 DEF KeysApart
<1>15. u.size = Cardinality(Occupied(u))
  BY <1>1, <1>7, <1>12, OccupiedFinite, FS_AddElement
<1>16. Stored(u) = Stored(t) \cup {c}
  BY <1>9, <1>12, <1>13 DEF Stored
<1>17. TableInv(u)
  BY <1>1, <1>2, <1>7, <1>8, <1>10, <1>14, <1>15 DEF TableInv
<1> QED
  BY <1>16, <1>17 DEF u, v

\* A cell that takes the slot of another.
LEMMA DisplaceTable ==
    ASSUME NEW t, TableInv(t), FewKeys, ~MustGrow(t),
           NEW c \in Cell, \A e \in Stored(t) : e.key # c.key,
           NEW p \in SlotFor(t, c.key), ~IsFree(t.slots[p])
    PROVE  LET u == Place(t, c, p)
           IN  /\ TableInv(u) /\ Stored(u) = (Stored(t) \ {t.slots[p]}) \cup {c}
               /\ t.slots[p] \in Stored(t) /\ t.slots[p] \in Cell
<1> DEFINE u == Place(t, c, p)
<1>1. /\ IsTable(t) /\ Ordered(t) /\ KeysApart(t) /\ t.size = Cardinality(Occupied(t))
      /\ t.cap = 0 \/ t.cap >= 4
      /\ t.cap > 0 => t.size < t.cap
  BY DEF TableInv
<1>2. t.cap \in Nat /\ t.cap > 0
  BY RoomLeft
<1>3. PICK f \in Slots(t) : IsFree(t.slots[f])
  BY RoomLeft
<1>4. c.key \in Key /\ ~IsFree(c)
  BY CellNotFree
<1>5. p \in Slots(t) /\ p \in Occupied(t) /\ t.slots[p] \in Cell
  <2>1. p \in Slots(t)
    BY <1>4, ScanEnds
  <2> QED
    BY <1>1, <1>2, <2>1, SlotFacts
<1>6. /\ IsTable(u) /\ u.cap = t.cap /\ u.size = t.size /\ u.slots[p] = c
      /\ \A q \in Slots(t) \ {p} : u.slots[q] = t.slots[q]
  BY <1>1, <1>5, PlaceOne
<1> HIDE DEF u
<1>7. Ordered(u)
  BY <1>1, <1>3, <1>6, PutOrdered
<1>8. Slots(u) = Slots(t)
  BY <1>6 DEF Slots
<1>9. Occupied(u) = Occupied(t)
  BY <1>4, <1>5, <1>6, <1>8 DEF Occupied
<1>10. \A q \in Occupied(t) : /\ q # p => u.slots[q] = t.slots[q]
                              /\ t.slots[q].key # c.key
                              /\ q # p => t.slots[q] # t.slots[p]
  BY <1>1, <1>5, <1>6 DEF Occupied, Stored, KeysApart
<1>11. KeysApart(u)
  BY <1>1, <1>6, <1>9, <1>10 DEF KeysApart
<1>12. Stored(u) = (Stored(t) \ {t.slots[p]}) \cup {c}
  <2>1. \A e : e \in Stored(u) => e \in (Stored(t) \ {t.slots[p]}) \cup {c}
    BY <1>6, <1>9, <1>10 DEF Stored
  <2>2. \A e \in Stored(t) : e # t.slots[p] => e \in Stored(u)
    BY <1>9, <1>10 DEF Stored
  <2>3. c \in Stored(u)
    BY <1>5, <1>6, <1>9 DEF Stored
  <2> QED
    BY <2>1, <2>2, <2>3
<1>13. TableInv(u)
  BY <1>1, <1>6, <1>7, <1>9, <1>11 DEF TableInv
<1>14. t.slots[p] \in Stored(t)
  BY <1>5 DEF Stored
<1> QED
  BY <1>5, <1>12, <1>13, <1>14 DEF u

\* A cell that is removed.
LEMMA VacateTable ==
    ASSUME NEW t, TableInv(t), NEW p \in Occupied(t)
    PROVE  LET w == Vacate(t, p)
           IN  TableInv(w) /\ Stored(w) = Stored(t) \ {t.slots[p]}
<1> DEFINE w == Vacate(t, p)
<1>1. /\ IsTable(t) /\ Ordered(t) /\ KeysApart(t) /\ t.size = Cardinality(Occupied(t))
      /\ t.cap = 0 \/ t.cap >= 4
      /\ t.cap > 0 => t.size < t.cap
  BY DEF TableInv
<1>2. t.cap \in Nat /\ t.cap > 0 /\ t.size \in Nat
  BY <1>1 DEF Occupied, Slots, IsTable
<1>3. t.size > 0
  BY <1>1, <1>2, OccupiedFinite, FS_EmptySet
<1>4. PICK f \in Slots(t) : IsFree(t.slots[f])
  <2>1. Occupied(t) # Slots(t)
    BY <1>1, <1>2, OccupiedFinite
  <2> QED
    BY <2>1 DEF Occupied
<1>5. PICK r : Shifted(t, p, r, w)
  BY <1>1, <1>3, <1>4, VacateShifts
<1> HIDE DEF w
<1>6. IsTable(w) /\ w.cap = t.cap /\ w.size = t.size - 1
  BY <1>5 DEF Shifted
<1>7. Ordered(w)
  BY <1>1, <1>5, VacateOrdered
<1>8. /\ Occupied(w) = Occupied(t) \ {After(t, p, r)} /\ After(t, p, r) \in Occupied(t)
      /\ \A x \in Occupied(w) : \E y \in Occupied(t) \ {p} : w.slots[x] = t.slots[y]
      /\ \A y \in Occupied(t) \ {p} : \E x \in Occupied(w) : w.slots[x] = t.slots[y]
      /\ KeysApart(w)
  BY <1>1, <1>5, VacateCells
<1>9. w.size = Cardinality(Occupied(w))
  <2>1. IsFiniteSet(Occupied(t))
    BY <1>1, OccupiedFinite
  <2>2. Cardinality(Occupied(t) \ {After(t, p, r)}) = Cardinality(Occupied(t)) - 1
    BY <1>8, <2>1, FS_RemoveElement
  <2> QED
    BY <1>1, <1>6, <1>8, <2>2
<1>10. TableInv(w)
  BY <1>1, <1>2, <1>6, <1>7, <1>8, <1>9 DEF TableInv
<1>11. \A y \in Occupied(t) \ {p} : t.slots[y] # t.slots[p]
  BY <1>1 DEF KeysApart
<1>12. Stored(w) = Stored(t) \ {t.slots[p]}
  <2>1. \A e \in Stored(w) : e \in Stored(t) /\ e # t.slots[p]
    BY <1>8, <1>11 DEF Stored
  <2>2. \A e \in Stored(t) : e # t.slots[p] => e \in Stored(w)
    BY <1>8 DEF Stored
  <2> QED
    BY <2>1, <2>2
<1> QED
  BY <1>10, <1>12 DEF w

\* A cell after the removal of row i: the indices beyond i fall by one.
Lowered(c, i) == IF c.index <= i THEN c ELSE [c EXCEPT !.index = @ - 1]

\* Lowering the index of a cell keeps its key, and it remains a cell.
LEMMA LoweredCell ==
    ASSUME NEW c \in Cell, NEW i \in Nat
    PROVE  /\ Lowered(c, i) \in Cell /\ Lowered(c, i).key = c.key
           /\ Lowered(c, i).index = IF c.index <= i THEN c.index ELSE c.index - 1
BY DEF Lowered, Cell

\* The table whose indices are lowered.
LEMMA ShiftTable ==
    ASSUME NEW t, TableInv(t), NEW i \in Nat
    PROVE  LET u == ShiftIndices(t, i)
           IN  /\ TableInv(u) /\ Occupied(u) = Occupied(t)
               /\ \A p \in Occupied(t) : u.slots[p] = Lowered(t.slots[p], i)
<1> DEFINE s == [p \in Slots(t) |->
                    LET c == t.slots[p]
                    IN  IF IsFree(c) \/ c.index <= i THEN c ELSE [c EXCEPT !.index = @ - 1]]
           u == ShiftIndices(t, i)
<1>1. /\ IsTable(t) /\ Ordered(t) /\ KeysApart(t) /\ t.size = Cardinality(Occupied(t))
      /\ t.cap = 0 \/ t.cap >= 4
      /\ t.cap > 0 => t.size < t.cap
  BY DEF TableInv
<1>2. u = [t EXCEPT !.slots = s]
  BY DEF ShiftIndices
<1>3. \A p \in Slots(t) : t.slots[p] = Free \/ t.slots[p] \in Cell
  BY <1>1 DEF IsTable
<1>4. ASSUME NEW p \in Slots(t)
      PROVE  /\ s[p] = IF p \in Occupied(t) THEN Lowered(t.slots[p], i) ELSE t.slots[p]
             /\ p \in Occupied(t) => t.slots[p] \in Cell
             /\ s[p] \in Cell \cup {Free}
             /\ IsFree(s[p]) <=> p \notin Occupied(t)
  <2>1. CASE t.slots[p] = Free
    BY <2>1, CellNotFree DEF Occupied
  <2>2. CASE t.slots[p] \in Cell
    <3>1. p \in Occupied(t) /\ ~IsFree(t.slots[p])
      BY <2>2, CellNotFree DEF Occupied
    <3>2. s[p] = Lowered(t.slots[p], i)
      BY <3>1 DEF Lowered
    <3>3. Lowered(t.slots[p], i) \in Cell
      BY <2>2, LoweredCell
    <3> HIDE DEF s
    <3> QED
      BY <2>2, <3>1, <3>2, <3>3, CellNotFree
  <2> QED
    BY <1>3, <2>1, <2>2
<1>5. s \in [Slots(t) -> Cell \cup {Free}]
  <2>1. DOMAIN s = Slots(t) /\ s = [p \in Slots(t) |-> s[p]]
    OBVIOUS
  <2> HIDE DEF s
  <2> QED
    BY <1>4, <2>1
<1> HIDE DEF s
<1>6. /\ u = [cap |-> t.cap, slots |-> s, size |-> t.size]
      /\ u.cap = t.cap /\ u.slots = s /\ u.size = t.size
  BY <1>1, <1>2 DEF IsTable
<1> HIDE DEF u
<1>7. IsTable(u) /\ Slots(u) = Slots(t)
  <2>1. Slots(u) = Slots(t)
    BY <1>6 DEF Slots
  <2> QED
    BY <1>1, <1>5, <1>6, <2>1 DEF IsTable
<1>8. Occupied(u) = Occupied(t)
  BY <1>4, <1>6, <1>7 DEF Occupied
<1>9. \A p \in Occupied(t) : /\ u.slots[p] = Lowered(t.slots[p], i)
                             /\ u.slots[p].key = t.slots[p].key
                             /\ FromHome(u, p) = FromHome(t, p)
  <2> SUFFICES ASSUME NEW p \in Occupied(t)
               PROVE  /\ u.slots[p] = Lowered(t.slots[p], i)
                      /\ u.slots[p].key = t.slots[p].key
                      /\ FromHome(u, p) = FromHome(t, p)
    OBVIOUS
  <2>1. u.slots[p] = Lowered(t.slots[p], i) /\ t.slots[p] \in Cell
    BY <1>4, <1>6 DEF Occupied
  <2>2. u.slots[p].key = t.slots[p].key
    BY <2>1, LoweredCell
  <2> QED
    BY <1>6, <2>1, <2>2, SameCircle DEF FromHome
<1>10. Ordered(u)
  BY <1>1, <1>6, <1>8, <1>9, SameCircle DEF Ordered
<1>11. KeysApart(u)
  BY <1>1, <1>8, <1>9 DEF KeysApart
<1>12. TableInv(u)
  BY <1>1, <1>6, <1>7, <1>8, <1>10, <1>11 DEF TableInv
<1> QED
  BY <1>8, <1>9, <1>12 DEF u

\* Without empty keys a copy is the table again.
LEMMA CopyTable ==
    ASSUME NEW t, IsTable(t), EmptyKeys = {}
    PROVE  CopyOf(t) = t
<1> DEFINE s == [p \in Slots(t) |-> IF t.slots[p].key \in EmptyKeys THEN Free ELSE t.slots[p]]
<1>1. s = t.slots
  BY DEF IsTable
<1>2. CopyOf(t) = [t EXCEPT !.slots = s]
  BY DEF CopyOf
<1> HIDE DEF s
<1> QED
  BY <1>1, <1>2 DEF IsTable

-----------------------------------------------------------------------------
(* The cells that wait for their call. *)

CellSeq == Seq(Cell \cup {Free})

\* No key waits twice.
KeysOnce(q) ==
    \A i, j \in DOMAIN q : ~IsFree(q[i]) /\ ~IsFree(q[j]) /\ q[i].key = q[j].key => i = j

\* Every cell is in one place, also while a put is under way.
OnePlace(q, t) ==
    /\ KeysOnce(q)
    /\ \A c \in Stored(t), d \in Waiting(q) : c.key # d.key

\* A key determines its cell.
LEMMA StoredByKey ==
    ASSUME NEW t, KeysApart(t), NEW c \in Stored(t), NEW d \in Stored(t), c.key = d.key
    PROVE  c = d
BY DEF Stored, KeysApart

\* Cells are cells, wherever they are.
LEMMA CellsTyped ==
    ASSUME NEW t, IsTable(t), NEW q \in CellSeq
    PROVE  Stored(t) \in SUBSET Cell /\ Waiting(q) \in SUBSET Cell
<1>1. \A p \in Occupied(t) : t.slots[p] \in Cell
  BY CellNotFree DEF Occupied, IsTable
<1>2. \A i \in DOMAIN q : q[i] \in Cell \cup {Free}
  BY LenProperties, ElementOfSeq DEF CellSeq
<1> QED
  BY <1>1, <1>2, CellNotFree DEF Stored, Waiting

\* The first call is made and the others still wait.
LEMMA AfterCall ==
    ASSUME NEW q \in CellSeq, q # <<>>, KeysOnce(q)
    PROVE  /\ Tail(q) \in CellSeq /\ KeysOnce(Tail(q)) /\ Head(q) \in Cell \cup {Free}
           /\ IsFree(Head(q)) => Waiting(q) = Waiting(Tail(q))
           /\ ~IsFree(Head(q)) => /\ Head(q) \in Cell
                                 /\ Waiting(q) = Waiting(Tail(q)) \cup {Head(q)}
                                 /\ \A d \in Waiting(Tail(q)) : d.key # Head(q).key
<1> DEFINE n == Len(q)
           r == Tail(q)
<1>1. /\ n \in Nat \ {0} /\ DOMAIN q = 1 .. n /\ r \in CellSeq /\ Head(q) = q[1]
      /\ Head(q) \in Cell \cup {Free}
  BY LenProperties, EmptySeq, HeadTailProperties DEF CellSeq
<1>2. DOMAIN r = 1 .. n - 1 /\ \A i \in 1 .. n - 1 : r[i] = q[i + 1]
  BY <1>1, LenProperties, HeadTailProperties DEF CellSeq
<1> HIDE DEF n, r
<1>3. \A i \in DOMAIN r : r[i] = q[i + 1] /\ i + 1 \in DOMAIN q /\ i + 1 # 1
  BY <1>1, <1>2
<1>4. KeysOnce(r)
  <2> SUFFICES ASSUME NEW i \in DOMAIN r, NEW j \in DOMAIN r, ~IsFree(r[i]), ~IsFree(r[j]),
                      r[i].key = r[j].key
               PROVE  i = j
    BY DEF KeysOnce
  <2>1. i + 1 = j + 1
    BY <1>3 DEF KeysOnce
  <2> QED
    BY <1>1, <1>2, <2>1
<1>5. \A i \in DOMAIN q : i # 1 => i - 1 \in DOMAIN r /\ r[i - 1] = q[i]
  BY <1>1, <1>2
<1>6. \A d \in Waiting(r) : d \in Waiting(q)
  BY <1>3 DEF Waiting
<1>7. \A d \in Waiting(q) : d \in Waiting(r) \/ (d = q[1] /\ ~IsFree(q[1]))
  BY <1>5 DEF Waiting
<1>8. ~IsFree(q[1]) => q[1] \in Waiting(q) /\ q[1] \in Cell
  BY <1>1, CellNotFree DEF Waiting
<1>9. ASSUME ~IsFree(q[1]), NEW d \in Waiting(r)
      PROVE  d.key # q[1].key
  <2>1. PICK i \in DOMAIN r : d = r[i] /\ ~IsFree(r[i])
    BY DEF Waiting
  <2> QED
    BY <1>1, <1>3, <1>9, <2>1 DEF KeysOnce
<1> QED
  BY <1>1, <1>4, <1>6, <1>7, <1>8, <1>9 DEF r

\* The call is made again, for another cell.
LEMMA OtherCall ==
    ASSUME NEW q \in CellSeq, q # <<>>, NEW e \in Cell, KeysOnce(Tail(q)),
           \A d \in Waiting(Tail(q)) : d.key # e.key
    PROVE  LET r == [q EXCEPT ![1] = e]
           IN  r \in CellSeq /\ KeysOnce(r) /\ Waiting(r) = Waiting(Tail(q)) \cup {e}
<1> DEFINE n == Len(q)
           s == Tail(q)
           r == [q EXCEPT ![1] = e]
<1>1. n \in Nat \ {0} /\ DOMAIN q = 1 .. n /\ s \in CellSeq
  BY LenProperties, EmptySeq, HeadTailProperties DEF CellSeq
<1>2. DOMAIN s = 1 .. n - 1 /\ \A i \in 1 .. n - 1 : s[i] = q[i + 1]
  BY <1>1, LenProperties, HeadTailProperties DEF CellSeq
<1>3. /\ r \in CellSeq /\ DOMAIN r = 1 .. n /\ r[1] = e
      /\ \A i \in 1 .. n : i # 1 => r[i] = q[i]
  <2>1. 1 \in 1 .. Len(q) /\ e \in Cell \cup {Free}
    BY <1>1
  <2>2. r \in CellSeq
    BY <2>1, ExceptSeq DEF CellSeq
  <2> QED
    BY <1>1, <2>2
<1> HIDE DEF n, r, s
<1>4. ~IsFree(e)
  BY CellNotFree
<1>5. \A i \in DOMAIN s : s[i] = r[i + 1] /\ i + 1 \in DOMAIN r
  BY <1>1, <1>2, <1>3
<1>6. \A i \in DOMAIN r : i # 1 => i - 1 \in DOMAIN s /\ s[i - 1] = r[i]
  BY <1>1, <1>2, <1>3
<1>7. \A i \in DOMAIN r : i # 1 /\ ~IsFree(r[i]) => r[i] \in Waiting(s) /\ r[i].key # e.key
  BY <1>6 DEF Waiting, s
<1>8. KeysOnce(r)
  <2> SUFFICES ASSUME NEW i \in DOMAIN r, NEW j \in DOMAIN r, ~IsFree(r[i]), ~IsFree(r[j]),
                      r[i].key = r[j].key
               PROVE  i = j
    BY DEF KeysOnce
  <2>1. CASE i = 1 \/ j = 1
    BY <1>3, <1>7, <2>1
  <2>2. CASE i # 1 /\ j # 1
    <3>1. i - 1 = j - 1
      BY <1>6, <2>2 DEF KeysOnce, s
    <3> QED
      BY <1>1, <1>3, <3>1
  <2> QED
    BY <2>1, <2>2
<1>9. Waiting(r) = Waiting(s) \cup {e}
  <2>1. \A d \in Waiting(r) : d \in Waiting(s) \cup {e}
    BY <1>3, <1>7 DEF Waiting
  <2>2. \A d \in Waiting(s) : d \in Waiting(r)
    BY <1>5 DEF Waiting
  <2>3. e \in Waiting(r)
    BY <1>1, <1>3, <1>4 DEF Waiting
  <2> QED
    BY <2>1, <2>2, <2>3
<1> QED
  BY <1>3, <1>8, <1>9 DEF r, s

\* All cells of the old storage wait before those that waited already.
LEMMA StorageWaits ==
    ASSUME NEW t, IsTable(t), KeysApart(t), NEW q \in CellSeq, OnePlace(q, t)
    PROVE  LET r == Storage(t) \o q
           IN  r \in CellSeq /\ KeysOnce(r) /\ Waiting(r) = Stored(t) \cup Waiting(q)
<1> DEFINE s == Storage(t)
           r == s \o q
           m == t.cap
           n == Len(q)
<1>1. m \in Nat /\ n \in Nat /\ DOMAIN q = 1 .. n
  BY LenProperties DEF CellSeq, IsTable
<1>2. s \in CellSeq /\ Len(s) = m /\ \A i \in 1 .. m : s[i] = t.slots[i - 1] /\ i - 1 \in Slots(t)
  <2>1. \A i \in 1 .. m : i - 1 \in Slots(t)
    BY <1>1 DEF Slots
  <2>2. \A i \in 1 .. m : t.slots[i - 1] \in Cell \cup {Free}
    BY <2>1 DEF IsTable
  <2>3. s \in [1 .. m -> Cell \cup {Free}]
    BY <2>2 DEF Storage
  <2>4. s \in CellSeq /\ Len(s) = m
    <3> HIDE DEF s, m
    <3> QED
      BY <1>1, <2>3 DEF CellSeq
  <2> QED
    BY <2>1, <2>4 DEF Storage
<1> HIDE DEF s, m, n
<1>3. /\ r \in CellSeq /\ DOMAIN r = 1 .. m + n
      /\ \A i \in 1 .. m + n : r[i] = IF i <= m THEN s[i] ELSE q[i - m]
  <2>1. r \in CellSeq /\ Len(r) = m + n
    BY <1>2, ConcatProperties DEF CellSeq, n
  <2>2. DOMAIN r = 1 .. Len(r)
    BY <2>1, LenProperties DEF CellSeq
  <2>3. \A i \in 1 .. Len(s) + Len(q) : (s \o q)[i] = IF i <= Len(s) THEN s[i] ELSE q[i - Len(s)]
    BY <1>2, ConcatProperties DEF CellSeq
  <2> QED
    BY <1>2, <2>1, <2>2, <2>3 DEF n
<1> HIDE DEF r
<1>4. \A i \in 1 .. m : ~IsFree(s[i]) => i - 1 \in Occupied(t) /\ s[i] \in Stored(t)
  BY <1>2 DEF Occupied, Stored
<1>5. \A i \in DOMAIN r : i > m => i - m \in DOMAIN q /\ r[i] = q[i - m]
  BY <1>1, <1>3
<1>6. \A i \in DOMAIN r : i <= m => i \in 1 .. m /\ r[i] = s[i]
  BY <1>1, <1>3
<1>7. \A i \in DOMAIN r : ~IsFree(r[i]) => (i > m => r[i] \in Waiting(q)) /\ (i <= m => r[i] \in Stored(t))
  BY <1>4, <1>5, <1>6 DEF Waiting
<1>8. KeysOnce(r)
  <2> SUFFICES ASSUME NEW i \in DOMAIN r, NEW j \in DOMAIN r, ~IsFree(r[i]), ~IsFree(r[j]),
                      r[i].key = r[j].key
               PROVE  i = j
    BY DEF KeysOnce
  <2>1. CASE i <= m /\ j <= m
    <3>1. /\ i - 1 \in Occupied(t) /\ r[i] = t.slots[i - 1]
          /\ j - 1 \in Occupied(t) /\ r[j] = t.slots[j - 1]
      BY <1>2, <1>4, <1>6, <2>1
    <3>2. i - 1 = j - 1
      BY <3>1 DEF KeysApart
    <3> QED
      BY <1>1, <1>3, <3>2
  <2>2. CASE i > m /\ j > m
    <3>1. i - m = j - m
      BY <1>5, <2>2 DEF OnePlace, KeysOnce
    <3> QED
      BY <1>1, <1>3, <3>1
  <2>3. CASE i <= m /\ j > m
    BY <1>7, <2>3 DEF OnePlace
  <2>4. CASE i > m /\ j <= m
    BY <1>7, <2>4 DEF OnePlace
  <2> QED
    BY <1>1, <1>3, <2>1, <2>2, <2>3, <2>4
<1>9. Waiting(r) = Stored(t) \cup Waiting(q)
  <2>1. \A d \in Waiting(r) : d \in Stored(t) \cup Waiting(q)
    <3> SUFFICES ASSUME NEW i \in DOMAIN r, ~IsFree(r[i]) PROVE r[i] \in Stored(t) \cup Waiting(q)
      BY DEF Waiting
    <3> QED
      BY <1>1, <1>3, <1>7
  <2>2. ASSUME NEW p \in Occupied(t)
        PROVE  t.slots[p] \in Waiting(r)
    <3>1. p + 1 \in 1 .. m /\ p + 1 \in DOMAIN r /\ (p + 1) - 1 = p
      BY <1>1, <1>3 DEF Occupied, Slots, m
    <3>2. r[p + 1] = t.slots[p] /\ ~IsFree(r[p + 1])
      BY <1>2, <1>6, <3>1 DEF Occupied
    <3> QED
      BY <3>1, <3>2 DEF Waiting
  <2>3. ASSUME NEW i \in DOMAIN q, ~IsFree(q[i])
        PROVE  q[i] \in Waiting(r)
    <3>1. i + m \in DOMAIN r /\ i + m > m /\ (i + m) - m = i
      BY <1>1, <1>3
    <3>2. r[i + m] = q[i]
      BY <1>5, <3>1
    <3> QED
      BY <2>3, <3>1, <3>2 DEF Waiting
  <2>4. Stored(t) \subseteq Waiting(r)
    BY <2>2 DEF Stored
  <2>5. Waiting(q) \subseteq Waiting(r)
    <3> SUFFICES ASSUME NEW d \in Waiting(q) PROVE d \in Waiting(r)
      OBVIOUS
    <3>1. PICK i \in DOMAIN q : ~IsFree(q[i]) /\ d = q[i]
      BY DEF Waiting
    <3> QED
      BY <2>3, <3>1
  <2> QED
    BY <2>1, <2>4, <2>5
<1> QED
  BY <1>3, <1>8, <1>9 DEF r, s

-----------------------------------------------------------------------------
(* The inductive invariant. *)

Held == Stored(table) \cup Waiting(pending)

\* A cell names the row its key was put for, or is one a removal has left behind.
CellsLive ==
    \A c \in Held : IF rowOf[c.key] # NoRow
                    THEN c.index \in RowIndex /\ rows[c.index + 1] = rowOf[c.key]
                    ELSE c.key \in strays

\* A key with a row has a cell.
KeysHeld == \A k \in Key : rowOf[k] # NoRow => \E c \in Held : c.key = k

\* No row is there twice.
RowsApart == \A i, j \in DOMAIN rows : rows[i] = rows[j] => i = j

\* What the invariant says of the types of the other variables.
Typed ==
    /\ pending \in CellSeq
    /\ rows \in Seq(Row)
    /\ rowOf \in [Key -> Row \cup {NoRow}]
    /\ strays \in SUBSET Key
    /\ err = FALSE

IInv ==
    /\ Typed
    /\ TableInv(table)
    /\ OnePlace(pending, table)
    /\ CellsLive /\ KeysHeld /\ RowsApart

\* A call of scan_for_slot changes the place of cells, never which there are.
LEMMA CallsKeepInv ==
    ASSUME IInv, Typed', TableInv(table)', OnePlace(pending, table)', Held' = Held,
           UNCHANGED <<rows, rowOf, strays>>
    PROVE  IInv'
<1>1. CellsLive'
  BY DEF IInv, CellsLive, RowIndex
<1>2. KeysHeld'
  BY DEF IInv, KeysHeld
<1>3. RowsApart'
  BY DEF IInv, RowsApart
<1> QED
  BY <1>1, <1>2, <1>3 DEF IInv

\* grow's loop passes over a free slot: no cell waits there.
LEMMA PassOverInv == IInv /\ PassOver => IInv'
<1> SUFFICES ASSUME IInv, PassOver PROVE IInv'
  OBVIOUS
<1>1. /\ pending # <<>> /\ IsFree(Head(pending)) /\ pending' = Tail(pending)
      /\ UNCHANGED <<table, rows, rowOf, strays, err>>
  BY DEF PassOver, Idle
<1>2. pending \in CellSeq /\ KeysOnce(pending) /\ OnePlace(pending, table)
  BY DEF IInv, Typed, OnePlace
<1>3. Tail(pending) \in CellSeq /\ KeysOnce(Tail(pending)) /\ Waiting(pending) = Waiting(Tail(pending))
  BY <1>1, <1>2, AfterCall
<1>4. Typed'
  BY <1>1, <1>3 DEF IInv, Typed
<1>5. TableInv(table)'
  BY <1>1 DEF IInv
<1>6. OnePlace(pending, table)'
  BY <1>1, <1>2, <1>3 DEF OnePlace
<1>7. Held' = Held
  BY <1>1, <1>3 DEF Held
<1> QED
  BY <1>1, <1>4, <1>5, <1>6, <1>7, CallsKeepInv

\* grow moves the cells of the table to pending, before the one that waits.
LEMMA GrowInv == IInv /\ Grow => IInv'
<1> SUFFICES ASSUME IInv, Grow PROVE IInv'
  OBVIOUS
<1> DEFINE n == IF table.cap = 0 THEN 4 ELSE 2 * table.cap
<1>1. /\ table' = NewTable(n) /\ pending' = Storage(table) \o pending
      /\ UNCHANGED <<rows, rowOf, strays, err>>
  BY DEF Grow
<1>2. pending \in CellSeq /\ OnePlace(pending, table) /\ IsTable(table) /\ KeysApart(table)
  BY DEF IInv, Typed, TableInv
<1>3. n \in Nat /\ n >= 4
  BY DEF IInv, TableInv, IsTable
<1> HIDE DEF n
<1>4. TableInv(NewTable(n)) /\ Stored(NewTable(n)) = {}
  BY <1>3, NewTableInv
<1>5. /\ Storage(table) \o pending \in CellSeq /\ KeysOnce(Storage(table) \o pending)
      /\ Waiting(Storage(table) \o pending) = Stored(table) \cup Waiting(pending)
  BY <1>2, StorageWaits
<1>6. Typed'
  BY <1>1, <1>5 DEF IInv, Typed
<1>7. TableInv(table)'
  BY <1>1, <1>4
<1>8. OnePlace(pending, table)'
  BY <1>1, <1>4, <1>5 DEF OnePlace
<1>9. Held' = Held
  BY <1>1, <1>4, <1>5 DEF Held
<1> QED
  BY <1>1, <1>6, <1>7, <1>8, <1>9, CallsKeepInv

\* What a call finds: a cell with a key the table does not have.
LEMMA CallFacts ==
    ASSUME IInv, Calling
    PROVE  LET c == Head(pending)
           IN  /\ pending \in CellSeq /\ pending # <<>> /\ KeysOnce(pending)
               /\ c \in Cell /\ c.key \in Key /\ ~IsFree(c)
               /\ \A e \in Stored(table) : e.key # c.key
               /\ Tail(pending) \in CellSeq /\ KeysOnce(Tail(pending))
               /\ Waiting(pending) = Waiting(Tail(pending)) \cup {c}
               /\ \A d \in Waiting(Tail(pending)) : d.key # c.key
               /\ \A e \in Stored(table), d \in Waiting(Tail(pending)) : e.key # d.key
<1> DEFINE c == Head(pending)
<1>1. pending \in CellSeq /\ pending # <<>> /\ KeysOnce(pending) /\ ~IsFree(c)
  BY DEF IInv, Typed, OnePlace, Calling, Idle
<1>2. /\ c \in Cell /\ Tail(pending) \in CellSeq /\ KeysOnce(Tail(pending))
      /\ Waiting(pending) = Waiting(Tail(pending)) \cup {c}
      /\ \A d \in Waiting(Tail(pending)) : d.key # c.key
  BY <1>1, AfterCall
<1>3. \A e \in Stored(table), d \in Waiting(pending) : e.key # d.key
  BY DEF IInv, OnePlace
<1> HIDE DEF c
<1>4. \A e \in Stored(table) : e.key # c.key
  BY <1>2, <1>3
<1>5. \A e \in Stored(table), d \in Waiting(Tail(pending)) : e.key # d.key
  BY <1>2, <1>3
<1> QED
  BY <1>1, <1>2, <1>4, <1>5, CellNotFree DEF c

\* The cell that waited is in a slot now.  There always is a slot: the table
\* has just been found not too full.
LEMMA FillInv == FewKeys /\ IInv /\ Fill => IInv'
<1> SUFFICES ASSUME FewKeys, IInv, Fill PROVE IInv'
  OBVIOUS
<1> DEFINE c == Head(pending)
           u(p) == [Place(table, c, p) EXCEPT !.size = @ + 1]
<1>1. Calling /\ ~MustGrow(table) /\ pending' = Tail(pending) /\ UNCHANGED <<rows, rowOf, strays>>
  BY DEF Fill
<1>2. /\ c \in Cell /\ c.key \in Key
      /\ \A e \in Stored(table) : e.key # c.key
      /\ Tail(pending) \in CellSeq /\ KeysOnce(Tail(pending))
      /\ Waiting(pending) = Waiting(Tail(pending)) \cup {c}
      /\ \A d \in Waiting(Tail(pending)) : d.key # c.key
      /\ \A e \in Stored(table), d \in Waiting(Tail(pending)) : e.key # d.key
  BY <1>1, CallFacts
<1>3. TableInv(table)
  BY DEF IInv
<1>4. SlotFor(table, c.key) # {}
  BY <1>1, <1>2, <1>3, ScanEnds
<1>5. PICK p \in SlotFor(table, c.key) : IsFree(table.slots[p]) /\ table' = u(p) /\ UNCHANGED err
  BY <1>4 DEF Fill
<1>6. TableInv(u(p)) /\ Stored(u(p)) = Stored(table) \cup {c}
  BY <1>1, <1>2, <1>3, <1>5, FillTable
<1> HIDE DEF u, c
<1>7. Typed'
  BY <1>1, <1>2, <1>5 DEF IInv, Typed
<1>8. TableInv(table)'
  BY <1>5, <1>6
<1>9. OnePlace(pending, table)'
  BY <1>1, <1>2, <1>5, <1>6 DEF OnePlace
<1>10. Held' = Held
  BY <1>1, <1>2, <1>5, <1>6 DEF Held
<1> QED
  BY <1>1, <1>7, <1>8, <1>9, <1>10, CallsKeepInv

\* The cell that waited is in a slot now, and the one that was there waits.
LEMMA DisplaceInv == FewKeys /\ IInv /\ Displace => IInv'
<1> SUFFICES ASSUME FewKeys, IInv, Displace PROVE IInv'
  OBVIOUS
<1> DEFINE c == Head(pending)
           u(p) == Place(table, c, p)
<1>1. Calling /\ ~MustGrow(table) /\ UNCHANGED <<rows, rowOf, strays, err>>
  BY DEF Displace
<1>2. /\ pending \in CellSeq /\ pending # <<>> /\ KeysOnce(pending)
      /\ c \in Cell /\ c.key \in Key
      /\ \A e \in Stored(table) : e.key # c.key
      /\ Tail(pending) \in CellSeq /\ KeysOnce(Tail(pending))
      /\ Waiting(pending) = Waiting(Tail(pending)) \cup {c}
      /\ \A d \in Waiting(Tail(pending)) : d.key # c.key
      /\ \A e \in Stored(table), d \in Waiting(Tail(pending)) : e.key # d.key
  BY <1>1, CallFacts
<1>3. TableInv(table) /\ KeysApart(table)
  BY DEF IInv, TableInv
<1>4. PICK p \in SlotFor(table, c.key) : /\ ~IsFree(table.slots[p]) /\ table' = u(p)
                                        /\ pending' = [pending EXCEPT ![1] = table.slots[p]]
  BY DEF Displace
<1> DEFINE e == table.slots[p]
<1>5. /\ TableInv(u(p)) /\ Stored(u(p)) = (Stored(table) \ {e}) \cup {c}
      /\ e \in Stored(table) /\ e \in Cell
  BY <1>1, <1>2, <1>3, <1>4, DisplaceTable
<1>6. pending' = [pending EXCEPT ![1] = e]
  BY <1>4
<1> HIDE DEF u, c, e
<1>7. pending' \in CellSeq /\ KeysOnce(pending') /\ Waiting(pending') = Waiting(Tail(pending)) \cup {e}
  BY <1>2, <1>5, <1>6, OtherCall
<1>8. Typed'
  BY <1>1, <1>7 DEF IInv, Typed
<1>9. TableInv(table)'
  BY <1>4, <1>5
<1>10. \A f \in Stored(table) : f # e => f.key # e.key
  BY <1>3, <1>5, StoredByKey
<1>11. OnePlace(pending, table)'
  <2>1. \A f \in (Stored(table) \ {e}) \cup {c}, d \in Waiting(Tail(pending)) \cup {e} : f.key # d.key
    BY <1>2, <1>5, <1>10
  <2> QED
    BY <1>4, <1>5, <1>7, <2>1 DEF OnePlace
<1>12. Held' = Held
  BY <1>2, <1>4, <1>5, <1>7 DEF Held
<1> QED
  BY <1>1, <1>8, <1>9, <1>11, <1>12, CallsKeepInv

\* Between two operations the cells are those in the table.
LEMMA IdleHeld ==
    ASSUME Idle
    PROVE  Held = Stored(table) /\ pending = <<>> /\ Waiting(<<>>) = {} /\ KeysOnce(<<>>) /\ <<>> \in CellSeq
<1>1. DOMAIN <<>> = {}
  BY DEF CellSeq
<1>2. Waiting(<<>>) = {} /\ KeysOnce(<<>>)
  BY <1>1 DEF Waiting, KeysOnce
<1>3. <<>> \in CellSeq
  BY EmptySeq DEF CellSeq
<1> QED
  BY <1>2, <1>3 DEF Idle, Held

\* The one call a put begins with.
LEMMA OneWaiting ==
    ASSUME NEW c \in Cell
    PROVE  <<c>> \in CellSeq /\ KeysOnce(<<c>>) /\ Waiting(<<c>>) = {c}
<1>1. <<c>> \in CellSeq /\ DOMAIN <<c>> = {1} /\ <<c>>[1] = c
  BY DEF CellSeq
<1>2. ~IsFree(c)
  BY CellNotFree
<1>3. KeysOnce(<<c>>)
  BY <1>1 DEF KeysOnce
<1>4. Waiting(<<c>>) = {c}
  BY <1>1, <1>2 DEF Waiting
<1> QED
  BY <1>1, <1>3, <1>4

\* A put begins: the key is new, so its cell is the only one with it.
LEMMA PutBegins ==
    ASSUME IInv, Idle, NEW k \in Key, ~HasKey(table, k), NEW i \in Nat,
           pending' = <<NewCell(k, i)>>, UNCHANGED <<table, err>>
    PROVE  /\ NewCell(k, i) \in Cell /\ NewCell(k, i).key = k /\ NewCell(k, i).index = i
           /\ Held = Stored(table) /\ \A c \in Held : c \in Cell /\ c.key # k
           /\ Held' = Held \cup {NewCell(k, i)}
           /\ pending' \in CellSeq /\ err' = FALSE
           /\ TableInv(table)' /\ OnePlace(pending, table)'
<1> DEFINE c == NewCell(k, i)
<1>1. c \in Cell /\ c.key = k /\ c.index = i
  BY DEF NewCell, Cell
<1>2. pending' = <<c>>
  OBVIOUS
<1> HIDE DEF c
<1>3. <<c>> \in CellSeq /\ KeysOnce(<<c>>) /\ Waiting(<<c>>) = {c}
  BY <1>1, OneWaiting
<1>4. IsTable(table) /\ Ordered(table) /\ KeysApart(table) /\ pending \in CellSeq /\ err = FALSE
  BY DEF IInv, TableInv, Typed
<1>5. Held = Stored(table)
  BY IdleHeld
<1>6. \A d \in Stored(table) : d \in Cell /\ d.key # k
  BY <1>4, CellsTyped, HasKeyExact DEF Stored
<1>7. Held' = Held \cup {c}
  BY <1>2, <1>3, <1>5 DEF Held
<1>8. TableInv(table)'
  BY DEF IInv
<1>9. OnePlace(pending, table)'
  BY <1>1, <1>2, <1>3, <1>6 DEF OnePlace
<1> QED
  BY <1>1, <1>2, <1>3, <1>4, <1>5, <1>6, <1>7, <1>8, <1>9 DEF c

\* A row is appended.
LEMMA RowAppended ==
    ASSUME rows \in Seq(Row), RowsApart, NEW r \in Row, r \notin Range(rows), rows' = Append(rows, r)
    PROVE  /\ rows' \in Seq(Row) /\ Len(rows') = Len(rows) + 1 /\ RowsApart'
           /\ rows'[Len(rows) + 1] = r /\ Len(rows) \in Nat
           /\ \A i \in RowIndex : i \in RowIndex' /\ rows'[i + 1] = rows[i + 1]
<1> DEFINE n == Len(rows)
<1>1. n \in Nat /\ DOMAIN rows = 1 .. n
  BY LenProperties
<1>2. /\ rows' \in Seq(Row) /\ Len(rows') = n + 1 /\ rows'[n + 1] = r
      /\ \A i \in 1 .. n : rows'[i] = rows[i]
  BY AppendProperties
<1>3. DOMAIN rows' = 1 .. n + 1
  BY <1>2, LenProperties
<1>4. \A i \in 1 .. n : rows[i] # r
  BY <1>1 DEF Range
<1>5. RowIndex = 0 .. n - 1 /\ RowIndex' = 0 .. n
  BY <1>1, <1>2 DEF RowIndex
<1> HIDE DEF n
<1>6. RowsApart'
  BY <1>1, <1>2, <1>3, <1>4 DEF RowsApart
<1>7. \A i \in RowIndex : i \in RowIndex' /\ rows'[i + 1] = rows[i + 1]
  BY <1>1, <1>2, <1>5
<1> QED
  BY <1>1, <1>2, <1>6, <1>7 DEF n

\* qput: a new row, and a cell for it that waits.
LEMMA QputInv ==
    ASSUME IInv, NEW k \in Key, Qput(k)
    PROVE  IInv'
<1> DEFINE c == NewCell(k, Len(rows))
<1>1. /\ Idle /\ ~HasKey(table, k) /\ k \notin Range(rows) /\ rows' = Append(rows, k)
      /\ rowOf' = [rowOf EXCEPT ![k] = k] /\ strays' = strays \ {k} /\ pending' = <<c>>
      /\ UNCHANGED <<table, err>>
  BY DEF Qput
<1>2. rows \in Seq(Row) /\ RowsApart /\ rowOf \in [Key -> Row \cup {NoRow}] /\ strays \in SUBSET Key
  BY DEF IInv, Typed
<1>3. k \in Row /\ k # NoRow
  BY RowAssumption DEF Row
<1>4. /\ rows' \in Seq(Row) /\ Len(rows') = Len(rows) + 1 /\ RowsApart'
      /\ rows'[Len(rows) + 1] = k /\ Len(rows) \in Nat
      /\ \A i \in RowIndex : i \in RowIndex' /\ rows'[i + 1] = rows[i + 1]
  BY <1>1, <1>2, <1>3, RowAppended
<1>5. /\ c \in Cell /\ c.key = k /\ c.index = Len(rows)
      /\ \A d \in Held : d \in Cell /\ d.key # k
      /\ Held' = Held \cup {c}
      /\ pending' \in CellSeq /\ err' = FALSE
      /\ TableInv(table)' /\ OnePlace(pending, table)'
  BY <1>1, <1>4, PutBegins
<1> HIDE DEF c
<1>6. rowOf' \in [Key -> Row \cup {NoRow}] /\ rowOf'[k] = k /\ \A j \in Key : j # k => rowOf'[j] = rowOf[j]
  BY <1>1, <1>2, <1>3
<1>7. Typed'
  BY <1>1, <1>2, <1>4, <1>5, <1>6 DEF Typed
<1>8. \A d \in Held : d.key \in Key /\ rowOf'[d.key] = rowOf[d.key]
  BY <1>5, <1>6, CellNotFree
<1>9. CellsLive'
  <2>1. c.index \in RowIndex' /\ rows'[c.index + 1] = rowOf'[c.key]
    BY <1>4, <1>5, <1>6 DEF RowIndex
  <2>2. \A d \in Held : IF rowOf'[d.key] # NoRow
                        THEN d.index \in RowIndex' /\ rows'[d.index + 1] = rowOf'[d.key]
                        ELSE d.key \in strays'
    BY <1>1, <1>4, <1>5, <1>8 DEF IInv, CellsLive
  <2> QED
    BY <1>3, <1>5, <1>6, <2>1, <2>2 DEF CellsLive
<1>10. KeysHeld'
  BY <1>5, <1>6 DEF IInv, KeysHeld
<1> QED
  BY <1>4, <1>5, <1>7, <1>9, <1>10 DEF IInv

\* push: a new row without a cell.
LEMMA PushInv ==
    ASSUME IInv, NEW r \in Plain, Push(r)
    PROVE  IInv'
<1>1. /\ r \notin Range(rows) /\ rows' = Append(rows, r)
      /\ UNCHANGED <<table, pending, rowOf, strays, err>>
  BY DEF Push
<1>2. rows \in Seq(Row) /\ RowsApart /\ r \in Row
  BY DEF IInv, Typed, Row
<1>3. /\ rows' \in Seq(Row) /\ RowsApart'
      /\ \A i \in RowIndex : i \in RowIndex' /\ rows'[i + 1] = rows[i + 1]
  BY <1>1, <1>2, RowAppended
<1>4. Typed'
  BY <1>1, <1>3 DEF IInv, Typed
<1>5. Held' = Held
  BY <1>1 DEF Held
<1>6. CellsLive'
  BY <1>1, <1>3, <1>5 DEF IInv, CellsLive
<1>7. KeysHeld'
  BY <1>1, <1>5 DEF IInv, KeysHeld
<1>8. TableInv(table)' /\ OnePlace(pending, table)'
  BY <1>1 DEF IInv
<1> QED
  BY <1>3, <1>4, <1>6, <1>7, <1>8 DEF IInv

\* addcell: a cell for a row that is there.
LEMMA AddCellInv ==
    ASSUME IInv, NEW k \in Key, NEW i \in RowIndex, AddCell(k, i)
    PROVE  IInv'
<1> DEFINE c == NewCell(k, i)
           r == rows[i + 1]
<1>1. /\ Idle /\ ~HasKey(table, k) /\ rowOf' = [rowOf EXCEPT ![k] = r]
      /\ strays' = strays \ {k} /\ pending' = <<c>> /\ UNCHANGED <<table, rows, err>>
  BY DEF AddCell
<1>2. rows \in Seq(Row) /\ RowsApart /\ rowOf \in [Key -> Row \cup {NoRow}] /\ strays \in SUBSET Key
  BY DEF IInv, Typed
<1>3. i \in Nat /\ r \in Row /\ r # NoRow
  BY <1>2, LenProperties, ElementOfSeq, RowAssumption DEF RowIndex
<1>4. /\ c \in Cell /\ c.key = k /\ c.index = i
      /\ \A d \in Held : d \in Cell /\ d.key # k
      /\ Held' = Held \cup {c}
      /\ pending' \in CellSeq /\ err' = FALSE
      /\ TableInv(table)' /\ OnePlace(pending, table)'
  BY <1>1, <1>3, PutBegins
<1>5. rows[i + 1] = r
  OBVIOUS
<1> HIDE DEF c, r
<1>6. rowOf' \in [Key -> Row \cup {NoRow}] /\ rowOf'[k] = r /\ \A j \in Key : j # k => rowOf'[j] = rowOf[j]
  BY <1>1, <1>2, <1>3
<1>7. Typed' /\ RowsApart'
  BY <1>1, <1>2, <1>4, <1>6 DEF Typed, RowsApart
<1>8. \A d \in Held : d.key \in Key /\ rowOf'[d.key] = rowOf[d.key]
  BY <1>4, <1>6, CellNotFree
<1>9. RowIndex' = RowIndex
  BY <1>1 DEF RowIndex
<1>10. CellsLive'
  <2>1. \A d \in Held : IF rowOf'[d.key] # NoRow
                        THEN d.index \in RowIndex' /\ rows'[d.index + 1] = rowOf'[d.key]
                        ELSE d.key \in strays'
    BY <1>1, <1>4, <1>8, <1>9 DEF IInv, CellsLive
  <2> QED
    BY <1>1, <1>3, <1>4, <1>5, <1>6, <1>9, <2>1 DEF CellsLive
<1>11. KeysHeld'
  BY <1>4, <1>6 DEF IInv, KeysHeld
<1> QED
  BY <1>4, <1>7, <1>10, <1>11 DEF IInv

\* clear: nothing is left.
LEMMA ClearInv == IInv /\ Clear => IInv'
<1> SUFFICES ASSUME IInv, Clear PROVE IInv'
  OBVIOUS
<1>1. /\ Idle /\ table' = NewTable(4) /\ rows' = <<>> /\ rowOf' = [k \in Key |-> NoRow]
      /\ strays' = {} /\ UNCHANGED <<pending, err>>
  BY DEF Clear
<1>2. TableInv(NewTable(4)) /\ Stored(NewTable(4)) = {}
  BY NewTableInv
<1>3. pending' = <<>> /\ Waiting(<<>>) = {} /\ KeysOnce(<<>>) /\ <<>> \in CellSeq
  BY <1>1, IdleHeld
<1>4. rows' \in Seq(Row) /\ DOMAIN rows' = {}
  BY <1>1, EmptySeq
<1>5. Typed'
  BY <1>1, <1>3, <1>4 DEF IInv, Typed
<1>6. Held' = {}
  BY <1>1, <1>2, <1>3 DEF Held
<1>7. TableInv(table)' /\ OnePlace(pending, table)'
  BY <1>1, <1>2, <1>3 DEF OnePlace
<1>8. CellsLive' /\ KeysHeld' /\ RowsApart'
  BY <1>1, <1>4, <1>6 DEF CellsLive, KeysHeld, RowsApart
<1> QED
  BY <1>5, <1>7, <1>8 DEF IInv

\* A copy is the same table, as there are no empty keys.
LEMMA CopyInv == FewKeys /\ IInv /\ Copy => IInv'
<1> SUFFICES ASSUME FewKeys, IInv, Copy PROVE IInv'
  OBVIOUS
<1>1. UNCHANGED vars
  BY CopyTable DEF FewKeys, IInv, TableInv, Copy, vars
<1>2. Held' = Held
  BY <1>1 DEF vars, Held
<1>3. Typed'
  BY <1>1 DEF IInv, Typed, vars
<1>4. TableInv(table)' /\ OnePlace(pending, table)'
  BY <1>1 DEF IInv, vars
<1> QED
  BY <1>1, <1>2, <1>3, <1>4, CallsKeepInv DEF vars

-----------------------------------------------------------------------------
(* Removal of a row. *)

\* What removeAtByValue leaves: every cell with another index, lowered, and of
\* those with the index all but one.
LEMMA RemovalCells ==
    ASSUME NEW t, TableInv(t), NEW i \in Nat,
           NEW w, t.size = 0 => w = t, t.size # 0 => w = RemoveAtByValue(t, i)
    PROVE  /\ TableInv(w)
           /\ \A c \in Stored(t) : c.index # i => Lowered(c, i) \in Stored(w)
           /\ \A d \in Stored(w) : \E c \in Stored(t) :
                 /\ d = Lowered(c, i)
                 /\ c.index = i => \E e \in Stored(t) : e.index = i /\ e.key # c.key
<1> DEFINE s == ShiftIndices(t, i)
           found == CellsAt(t, i)
<1>1. IsTable(t) /\ KeysApart(t) /\ t.size = Cardinality(Occupied(t)) /\ Stored(t) \in SUBSET Cell
  <2>1. IsTable(t) /\ KeysApart(t) /\ t.size = Cardinality(Occupied(t))
    BY DEF TableInv
  <2>2. \A p \in Occupied(t) : t.slots[p] \in Cell
    BY <2>1, CellNotFree DEF Occupied, IsTable
  <2> QED
    BY <2>1, <2>2 DEF Stored
<1>2. TableInv(s) /\ Occupied(s) = Occupied(t) /\ \A p \in Occupied(t) : s.slots[p] = Lowered(t.slots[p], i)
  BY ShiftTable
<1>3. \A p \in found : p \in Occupied(t) /\ t.slots[p].index = i
  BY DEF CellsAt
<1>4. \A p \in Occupied(t) : t.slots[p].index = i => p \in found
  BY DEF CellsAt
<1> HIDE DEF s, found
<1>5. /\ \A c \in Stored(t) : Lowered(c, i) \in Stored(s)
      /\ \A d \in Stored(s) : \E c \in Stored(t) : d = Lowered(c, i)
  BY <1>2 DEF Stored
<1>6. CASE t.size = 0
  <2>1. Occupied(t) = {}
    BY <1>1, <1>6, OccupiedFinite, FS_EmptySet
  <2>2. w = t /\ Stored(t) = {}
    BY <1>6, <2>1 DEF Stored
  <2> QED
    BY <2>2
<1>7. CASE t.size # 0 /\ found = {}
  <2>1. w = s
    BY <1>7 DEF RemoveAtByValue, s, found
  <2>2. \A c \in Stored(t) : c.index # i
    BY <1>4, <1>7 DEF Stored
  <2> QED
    BY <1>2, <1>5, <2>1, <2>2
<1>8. CASE t.size # 0 /\ found # {}
  <2> DEFINE p == CHOOSE x \in found : \A q \in found : q <= x
  <2>1. w = Vacate(s, p)
    BY <1>8 DEF RemoveAtByValue, s, found
  <2>2. p \in found
    <3>1. found \in SUBSET (0 .. t.cap - 1) /\ t.cap \in Nat
      BY <1>1, <1>3 DEF Occupied, Slots, IsTable
    <3>2. \E m \in found : \A k \in found : k <= m
      BY <1>8, <3>1, GreatestSlot
    <3> QED
      BY <3>2
  <2> HIDE DEF p
  <2>3. p \in Occupied(s) /\ p \in Occupied(t) /\ t.slots[p].index = i
    BY <1>2, <1>3, <2>2
  <2> DEFINE e == t.slots[p]
  <2>4. TableInv(w) /\ Stored(w) = Stored(s) \ {Lowered(e, i)}
    BY <1>2, <2>1, <2>3, VacateTable
  <2>5. e \in Stored(t) /\ e \in Cell /\ e.index = i
    BY <1>1, <2>3 DEF Stored
  <2> HIDE DEF e
  <2>6. Lowered(e, i).key = e.key
    BY <2>5, LoweredCell
  <2>7. \A c \in Stored(t) : Lowered(c, i).key = c.key
    BY <1>1, LoweredCell
  <2>8. ASSUME NEW c \in Stored(t), c.index # i
        PROVE  Lowered(c, i) \in Stored(w)
    <3>1. c.key # e.key
      BY <1>1, <2>5, <2>8, StoredByKey
    <3> QED
      BY <1>5, <2>4, <2>6, <2>7, <3>1
  <2>9. ASSUME NEW d \in Stored(w)
        PROVE  \E c \in Stored(t) : /\ d = Lowered(c, i)
                                    /\ c.index = i => \E f \in Stored(t) : f.index = i /\ f.key # c.key
    <3>1. d \in Stored(s) /\ d # Lowered(e, i)
      BY <2>4
    <3>2. PICK c \in Stored(t) : d = Lowered(c, i)
      BY <1>5, <3>1
    <3>3. c.key # e.key
      BY <1>1, <2>5, <3>1, <3>2, StoredByKey
    <3> QED
      BY <2>5, <3>2, <3>3
  <2> QED
    BY <2>4, <2>8, <2>9
<1> QED
  BY <1>6, <1>7, <1>8

\* The rows after a removed one move down by one.
LEMMA RowRemoved ==
    ASSUME rows \in Seq(Row), RowsApart, NEW i \in RowIndex, rows' = RemoveAt(rows, i + 1)
    PROVE  /\ rows' \in Seq(Row) /\ RowsApart'
           /\ \A j \in RowIndex : j # i =>
                 LET m == IF j <= i THEN j ELSE j - 1
                 IN  m \in RowIndex' /\ rows'[m + 1] = rows[j + 1] /\ rows[j + 1] # rows[i + 1]
<1> DEFINE n == Len(rows)
           a == SubSeq(rows, 1, i)
           b == SubSeq(rows, i + 2, n)
<1>1. n \in Nat /\ DOMAIN rows = 1 .. n /\ i \in 0 .. n - 1 /\ \A j \in 1 .. n : rows[j] \in Row
  BY LenProperties, ElementOfSeq DEF RowIndex
<1>2. rows' = a \o b
  <2>1. rows' = SubSeq(rows, 1, (i + 1) - 1) \o SubSeq(rows, (i + 1) + 1, Len(rows))
    BY DEF RemoveAt
  <2>2. (i + 1) - 1 = i /\ (i + 1) + 1 = i + 2
    BY <1>1
  <2> QED
    BY <2>1, <2>2
<1> HIDE DEF n
<1>3. a \in Seq(Row) /\ Len(a) = i /\ \A j \in 1 .. i : a[j] = rows[j]
  <2>1. 1 \in Int /\ i \in Int /\ \A j \in 1 .. i : rows[j] \in Row
    BY <1>1
  <2>2. /\ a \in Seq(Row) /\ Len(a) = IF 1 <= i THEN i - 1 + 1 ELSE 0
        /\ \A j \in 1 .. i - 1 + 1 : a[j] = rows[1 + j - 1]
    BY <2>1, SubSeqProperties
  <2> HIDE DEF a
  <2>3. \A j \in 1 .. i : j \in 1 .. i - 1 + 1 /\ 1 + j - 1 = j
    BY <1>1
  <2> QED
    BY <1>1, <2>2, <2>3
<1>4. b \in Seq(Row) /\ Len(b) = n - i - 1 /\ \A j \in 1 .. n - i - 1 : b[j] = rows[j + i + 1]
  <2>1. i + 2 \in Int /\ n \in Int /\ \A j \in i + 2 .. n : rows[j] \in Row
    BY <1>1
  <2>2. /\ b \in Seq(Row) /\ Len(b) = IF i + 2 <= n THEN n - (i + 2) + 1 ELSE 0
        /\ \A j \in 1 .. n - (i + 2) + 1 : b[j] = rows[(i + 2) + j - 1]
    BY <2>1, SubSeqProperties
  <2> HIDE DEF b
  <2>3. \A j \in 1 .. n - i - 1 : j \in 1 .. n - (i + 2) + 1 /\ (i + 2) + j - 1 = j + i + 1
    BY <1>1
  <2> QED
    BY <1>1, <2>2, <2>3
<1> HIDE DEF a, b
<1>5. /\ rows' \in Seq(Row) /\ Len(rows') = n - 1
      /\ \A j \in 1 .. n - 1 : rows'[j] = IF j <= i THEN rows[j] ELSE rows[j + 1]
  <2>1. /\ a \o b \in Seq(Row) /\ Len(a \o b) = i + (n - i - 1)
        /\ \A j \in 1 .. i + (n - i - 1) : (a \o b)[j] = IF j <= i THEN a[j] ELSE b[j - i]
    <3>1. /\ a \o b \in Seq(Row) /\ Len(a \o b) = Len(a) + Len(b)
          /\ \A j \in 1 .. Len(a) + Len(b) : (a \o b)[j] = IF j <= Len(a) THEN a[j] ELSE b[j - Len(a)]
      <4>1. a \in Seq(Row) /\ b \in Seq(Row)
        BY <1>3, <1>4
      <4> QED
        BY <4>1, ConcatProperties
    <3> QED
      BY <1>3, <1>4, <3>1
  <2>2. i + (n - i - 1) = n - 1
    BY <1>1
  <2>3. ASSUME NEW j \in 1 .. n - 1
        PROVE  rows'[j] = IF j <= i THEN rows[j] ELSE rows[j + 1]
    <3>1. rows'[j] = IF j <= i THEN a[j] ELSE b[j - i]
      BY <1>2, <2>1, <2>2
    <3>2. CASE j <= i
      <4>1. j \in 1 .. i
        BY <1>1, <3>2
      <4> QED
        BY <1>3, <3>1, <3>2, <4>1
    <3>3. CASE ~(j <= i)
      <4>1. j - i \in 1 .. n - i - 1 /\ (j - i) + i + 1 = j + 1
        BY <1>1, <3>3
      <4> QED
        BY <1>4, <3>1, <3>3, <4>1
    <3> QED
      BY <3>2, <3>3
  <2> QED
    BY <1>2, <2>1, <2>2, <2>3
<1>6. DOMAIN rows' = 1 .. n - 1 /\ RowIndex' = 0 .. n - 2 /\ RowIndex = 0 .. n - 1
  <2>1. DOMAIN rows' = 1 .. Len(rows')
    BY <1>5, LenProperties
  <2>2. RowIndex' = 0 .. (n - 1) - 1 /\ (n - 1) - 1 = n - 2
    BY <1>1, <1>5 DEF RowIndex
  <2> QED
    BY <1>5, <2>1, <2>2 DEF RowIndex, n
<1>7. \A j, k \in 1 .. n : rows[j] = rows[k] => j = k
  BY <1>1 DEF RowsApart
<1>8. RowsApart'
  <2> SUFFICES ASSUME NEW j \in 1 .. n - 1, NEW k \in 1 .. n - 1, rows'[j] = rows'[k]
               PROVE  j = k
    BY <1>6 DEF RowsApart
  <2> DEFINE from(x) == IF x <= i THEN x ELSE x + 1
  <2>1. from(j) \in 1 .. n /\ from(k) \in 1 .. n
    BY <1>1
  <2>2. rows'[j] = rows[from(j)] /\ rows'[k] = rows[from(k)]
    BY <1>5
  <2>3. from(j) = from(k)
    <3> HIDE DEF from
    <3> QED
      BY <1>7, <2>1, <2>2
  <2> QED
    BY <1>1, <2>3
<1>9. ASSUME NEW j \in RowIndex, j # i
      PROVE  LET m == IF j <= i THEN j ELSE j - 1
             IN  m \in RowIndex' /\ rows'[m + 1] = rows[j + 1] /\ rows[j + 1] # rows[i + 1]
  <2> DEFINE m == IF j <= i THEN j ELSE j - 1
  <2>1. m \in 0 .. n - 2 /\ m + 1 \in 1 .. n - 1 /\ j + 1 \in 1 .. n /\ i + 1 \in 1 .. n /\ j + 1 # i + 1
    BY <1>1, <1>6, <1>9
  <2>2. rows[j + 1] # rows[i + 1]
    BY <1>7, <2>1
  <2>3. rows'[m + 1] = rows[j + 1]
    <3>1. CASE j <= i
      <4>1. m + 1 = j + 1 /\ m + 1 <= i
        BY <1>1, <1>6, <1>9, <3>1
      <4> HIDE DEF m
      <4> QED
        BY <1>5, <2>1, <4>1
    <3>2. CASE ~(j <= i)
      <4>1. (m + 1) + 1 = j + 1 /\ ~(m + 1 <= i)
        BY <1>1, <1>6, <1>9, <3>2
      <4> HIDE DEF m
      <4> QED
        BY <1>5, <2>1, <4>1
    <3> QED
      BY <3>1, <3>2
  <2> HIDE DEF m
  <2> QED
    BY <1>6, <2>1, <2>2, <2>3 DEF m
<1> QED
  BY <1>5, <1>8, <1>9

\* removeAt: the row goes and one of its cells with it; its other keys become
\* strays, whose cells keep an index that may be another row's now.
LEMMA RemoveRowInv ==
    ASSUME IInv, NEW i \in RowIndex, RemoveRow(i)
    PROVE  IInv'
<1> DEFINE r == rows[i + 1]
           both == Cardinality(KeysAt(i)) > 1
<1>1. /\ Idle /\ rows' = RemoveAt(rows, i + 1)
      /\ rowOf' = [k \in Key |-> IF rowOf[k] = r THEN NoRow ELSE rowOf[k]]
      /\ table' = IF table.size = 0 THEN table ELSE RemoveAtByValue(table, i)
      /\ strays' = IF both THEN strays \cup KeysAt(i) ELSE strays \ KeysAt(i)
      /\ UNCHANGED <<pending, err>>
  BY DEF RemoveRow
<1>2. /\ rows \in Seq(Row) /\ RowsApart /\ rowOf \in [Key -> Row \cup {NoRow}] /\ strays \in SUBSET Key
      /\ TableInv(table) /\ IsTable(table) /\ KeysApart(table) /\ pending \in CellSeq
  BY DEF IInv, Typed, TableInv
<1>3. i \in Nat
  BY <1>2, LenProperties DEF RowIndex
<1>4. /\ TableInv(table)'
      /\ \A c \in Stored(table) : c.index # i => Lowered(c, i) \in Stored(table')
      /\ \A d \in Stored(table') : \E c \in Stored(table) :
            /\ d = Lowered(c, i)
            /\ c.index = i => \E e \in Stored(table) : e.index = i /\ e.key # c.key
  <2> DEFINE w == table'
  <2>1. (table.size = 0 => w = table) /\ (table.size # 0 => w = RemoveAtByValue(table, i))
    BY <1>1
  <2>2. w = table'
    OBVIOUS
  <2> HIDE DEF w
  <2>3. /\ TableInv(w)
        /\ \A c \in Stored(table) : c.index # i => Lowered(c, i) \in Stored(w)
        /\ \A d \in Stored(w) : \E c \in Stored(table) :
              /\ d = Lowered(c, i)
              /\ c.index = i => \E e \in Stored(table) : e.index = i /\ e.key # c.key
    BY <1>2, <1>3, <2>1, RemovalCells
  <2> QED
    BY <2>2, <2>3
<1>5. /\ rows' \in Seq(Row) /\ RowsApart'
      /\ \A j \in RowIndex : j # i =>
            LET m == IF j <= i THEN j ELSE j - 1
            IN  m \in RowIndex' /\ rows'[m + 1] = rows[j + 1] /\ rows[j + 1] # r
  BY <1>1, <1>2, RowRemoved
<1>6. /\ \A c \in Stored(table) : c \in Cell /\ c.key \in Key
      /\ Held = Stored(table) /\ Held' = Stored(table') /\ pending' = <<>>
      /\ Waiting(<<>>) = {} /\ KeysOnce(<<>>) /\ <<>> \in CellSeq
  <2>1. \A c \in Stored(table) : c \in Cell /\ c.key \in Key
    BY <1>2, CellsTyped, CellNotFree
  <2>2. Held = Stored(table) /\ pending = <<>> /\ Waiting(<<>>) = {} /\ KeysOnce(<<>>) /\ <<>> \in CellSeq
    BY <1>1, IdleHeld
  <2> QED
    BY <1>1, <2>1, <2>2 DEF Held
<1>7. \A k : k \in KeysAt(i) <=> \E c \in Stored(table) : c.index = i /\ c.key = k
  BY DEF KeysAt, CellsAt, Stored
<1>8. KeysAt(i) \in SUBSET Key
  BY <1>6, <1>7
<1>9. \A a, b \in KeysAt(i) : a # b => both
  <2> SUFFICES ASSUME NEW a \in KeysAt(i), NEW b \in KeysAt(i), a # b PROVE both
    OBVIOUS
  <2>1. IsFiniteSet(KeysAt(i))
    BY <1>8, KeyAssumption, FS_Subset
  <2>2. /\ IsFiniteSet(KeysAt(i) \ {a}) /\ Cardinality(KeysAt(i) \ {a}) = Cardinality(KeysAt(i)) - 1
        /\ b \in KeysAt(i) \ {a}
    BY <2>1, FS_RemoveElement
  <2>3. Cardinality(KeysAt(i) \ {a}) # 0
    BY <2>2, FS_EmptySet
  <2>4. Cardinality(KeysAt(i) \ {a}) \in Nat /\ Cardinality(KeysAt(i)) \in Nat
    BY <2>1, <2>2, FS_CardinalityType
  <2> QED
    BY <2>2, <2>3, <2>4
<1> HIDE DEF both, r
<1>10. \A k \in Key : rowOf'[k] = IF rowOf[k] = r THEN NoRow ELSE rowOf[k]
  BY <1>1
<1>11. Typed'
  BY <1>1, <1>2, <1>5, <1>6, <1>8 DEF IInv, Typed
<1>12. OnePlace(pending, table)'
  BY <1>6 DEF OnePlace
<1>13. CellsLive'
  <2> SUFFICES ASSUME NEW d \in Stored(table')
               PROVE  IF rowOf'[d.key] # NoRow
                      THEN d.index \in RowIndex' /\ rows'[d.index + 1] = rowOf'[d.key]
                      ELSE d.key \in strays'
    BY <1>6 DEF CellsLive
  <2>1. PICK c \in Stored(table) :
            /\ d = Lowered(c, i)
            /\ c.index = i => \E e \in Stored(table) : e.index = i /\ e.key # c.key
    BY <1>4
  <2>2. /\ c \in Cell /\ c.key \in Key /\ d.key = c.key
        /\ d.index = IF c.index <= i THEN c.index ELSE c.index - 1
    BY <1>3, <1>6, <2>1, LoweredCell
  <2>3. IF rowOf[c.key] # NoRow THEN c.index \in RowIndex /\ rows[c.index + 1] = rowOf[c.key]
                                ELSE c.key \in strays
    BY <1>6 DEF IInv, CellsLive
  <2>4. CASE c.index = i
    <3>1. c.key \in KeysAt(i) /\ both
      BY <1>7, <1>9, <2>1, <2>4
    <3>2. c.key \in strays'
      BY <1>1, <3>1
    <3>3. rowOf'[c.key] = NoRow
      BY <1>10, <2>2, <2>3, <2>4 DEF r
    <3> QED
      BY <2>2, <3>2, <3>3
  <2>5. CASE c.index # i /\ rowOf[c.key] # NoRow
    <3>1. d.index \in RowIndex' /\ rows'[d.index + 1] = rows[c.index + 1] /\ rows[c.index + 1] # r
      BY <1>5, <2>2, <2>3, <2>5
    <3> QED
      BY <1>10, <2>2, <2>3, <2>5, <3>1
  <2>6. CASE c.index # i /\ rowOf[c.key] = NoRow
    <3>1. c.key \notin KeysAt(i)
      BY <1>2, <1>7, <2>6, StoredByKey
    <3>2. c.key \in strays'
      BY <1>1, <2>3, <2>6, <3>1
    <3>3. rowOf'[c.key] = NoRow
      BY <1>10, <2>2, <2>6
    <3> QED
      BY <2>2, <3>2, <3>3
  <2> QED
    BY <2>4, <2>5, <2>6
<1>14. KeysHeld'
  <2> SUFFICES ASSUME NEW k \in Key, rowOf'[k] # NoRow
               PROVE  \E d \in Stored(table') : d.key = k
    BY <1>6 DEF KeysHeld
  <2>1. rowOf[k] # NoRow /\ rowOf[k] # r
    BY <1>10
  <2>2. PICK c \in Stored(table) : c.key = k
    BY <1>6, <2>1 DEF IInv, KeysHeld
  <2>3. rows[c.index + 1] = rowOf[k]
    BY <1>6, <2>1, <2>2 DEF IInv, CellsLive
  <2>4. c.index # i
    BY <2>1, <2>3 DEF r
  <2>5. Lowered(c, i) \in Stored(table') /\ Lowered(c, i).key = k
    BY <1>3, <1>4, <1>6, <2>2, <2>4, LoweredCell
  <2> QED
    BY <2>5
<1> QED
  BY <1>4, <1>5, <1>11, <1>12, <1>13, <1>14 DEF IInv

-----------------------------------------------------------------------------
(* Theorems. *)

\* At the start there is no storage, no cell and no row.
LEMMA InitInv == Init => IInv
<1> SUFFICES ASSUME Init PROVE IInv
  OBVIOUS
<1>1. TableInv(NewTable(0)) /\ Stored(NewTable(0)) = {}
  BY NewTableInv
<1>2. Held = {} /\ KeysOnce(<<>>) /\ <<>> \in CellSeq /\ Waiting(<<>>) = {}
  BY <1>1, IdleHeld DEF Init, Idle
<1>3. Typed
  BY <1>2, EmptySeq DEF Init, Typed
<1>4. OnePlace(pending, table)
  BY <1>1, <1>2 DEF Init, OnePlace
<1>5. CellsLive /\ KeysHeld /\ RowsApart
  <2>1. DOMAIN rows = {}
    BY DEF Init
  <2> QED
    BY <1>2, <2>1 DEF Init, CellsLive, KeysHeld, RowsApart
<1> QED
  BY <1>1, <1>3, <1>4, <1>5 DEF Init, IInv

\* Every step keeps it.
LEMMA NextInv == FewKeys /\ IInv /\ [Next]_vars => IInv'
<1> SUFFICES ASSUME FewKeys, IInv, [Next]_vars PROVE IInv'
  OBVIOUS
<1>1. CASE UNCHANGED vars
  <2>1. Typed' /\ TableInv(table)' /\ OnePlace(pending, table)' /\ Held' = Held
    BY <1>1 DEF IInv, Typed, vars, Held
  <2> QED
    BY <1>1, <2>1, CallsKeepInv DEF vars
<1>2. ASSUME NEW k \in Key, Qput(k) PROVE IInv'
  BY <1>2, QputInv
<1>3. ASSUME NEW r \in Plain, Push(r) PROVE IInv'
  BY <1>3, PushInv
<1>4. ASSUME NEW k \in Key, NEW i \in RowIndex, AddCell(k, i) PROVE IInv'
  BY <1>4, AddCellInv
<1>5. ASSUME NEW i \in RowIndex, RemoveRow(i) PROVE IInv'
  BY <1>5, RemoveRowInv
<1> QED
  BY <1>1, <1>2, <1>3, <1>4, <1>5, PassOverInv, GrowInv, FillInv, DisplaceInv, ClearInv, CopyInv
     DEF Next

\* The invariant implies the properties of the runs.
LEMMA InvTypeOK == IInv => TypeOK
BY DEF IInv, Typed, CellSeq, TableInv, IsTable, TypeOK, SizeExact

\* The order is part of the invariant.
LEMMA InvRobinHood == IInv => RobinHood
BY DEF IInv, TableInv, RobinHood

\* A key that has a row has one cell, which the scan from its home finds.
LEMMA InvKeysFound == IInv => KeysFound
<1> SUFFICES ASSUME IInv, Idle, NEW k \in Key
             PROVE  IF rowOf[k] # NoRow
                    THEN \E p \in FindCell(table, k) :
                            /\ table.slots[p].index \in RowIndex
                            /\ rows[table.slots[p].index + 1] = rowOf[k]
                    ELSE k \notin strays => ~HasKey(table, k)
  BY DEF KeysFound
<1>1. IsTable(table) /\ Ordered(table) /\ KeysApart(table) /\ Held = Stored(table)
  BY IdleHeld DEF IInv, TableInv
<1>2. ASSUME rowOf[k] # NoRow
      PROVE  \E p \in FindCell(table, k) : /\ table.slots[p].index \in RowIndex
                                           /\ rows[table.slots[p].index + 1] = rowOf[k]
  <2>1. PICK p \in Occupied(table) : table.slots[p].key = k
    BY <1>1, <1>2 DEF IInv, KeysHeld, Stored
  <2>2. FindCell(table, k) = {p}
    BY <1>1, <2>1, CellFound
  <2>3. table.slots[p] \in Held
    BY <1>1 DEF Stored
  <2>4. table.slots[p].index \in RowIndex /\ rows[table.slots[p].index + 1] = rowOf[k]
    BY <1>2, <2>1, <2>3 DEF IInv, CellsLive
  <2> QED
    BY <2>2, <2>4
<1>3. ASSUME rowOf[k] = NoRow, k \notin strays, HasKey(table, k)
      PROVE  FALSE
  <2>1. PICK p \in Occupied(table) : table.slots[p].key = k
    BY <1>1, <1>3, HasKeyExact
  <2>2. table.slots[p] \in Held
    BY <1>1 DEF Stored
  <2> QED
    BY <1>3, <2>1, <2>2 DEF IInv, CellsLive
<1> QED
  BY <1>2, <1>3

\* The invariant holds throughout, for tables of any size in which the load
\* factor is computed without wrapping.
THEOREM Invariance == FewKeys => (Spec => []IInv)
<1> SUFFICES ASSUME FewKeys PROVE Spec => []IInv
  OBVIOUS
<1>1. IInv /\ [Next]_vars => IInv'
  BY NextInv
<1> QED
  BY <1>1, InitInv, PTL DEF Spec

\* The types hold, the count of the table is exact, and a put always finds a
\* slot: the table is never reported as corrupted.
THEOREM TypeCorrect == FewKeys => (Spec => []TypeOK)
<1> SUFFICES ASSUME FewKeys PROVE Spec => []TypeOK
  OBVIOUS
<1>1. Spec => []IInv
  BY Invariance
<1> QED
  BY <1>1, InvTypeOK, PTL

\* The table is in Robin Hood order before and after every call of scan_for_slot.
THEOREM RobinHoodOrder == FewKeys => (Spec => []RobinHood)
<1> SUFFICES ASSUME FewKeys PROVE Spec => []RobinHood
  OBVIOUS
<1>1. Spec => []IInv
  BY Invariance
<1> QED
  BY <1>1, InvRobinHood, PTL

\* Looking a key up gives its row, and gives nothing once the row is gone.
THEOREM LookupExact == FewKeys => (Spec => []KeysFound)
<1> SUFFICES ASSUME FewKeys PROVE Spec => []KeysFound
  OBVIOUS
<1>1. Spec => []IInv
  BY Invariance
<1> QED
  BY <1>1, InvKeysFound, PTL
=============================================================================
