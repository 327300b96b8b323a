-------------------------- MODULE SnapshotsProofs ---------------------------
(***************************************************************************)
(* Proofs about Snapshots: types, the cells of a subunit name its pools,   *)
(* and the refinement of SubunitStore, for every set of labels and data,   *)
(* every number of columns and every width of the generation.              *)
(***************************************************************************)
EXTENDS Snapshots, TLAPS, SequenceTheorems, FiniteSetTheorems

-----------------------------------------------------------------------------
(* The operations of a pool. *)

\* A Ptr from create_column names a column of the pool, sound or not, and
\* neither it nor the others lose their generations.
LEMMA CreateTyped ==
    ASSUME NEW p \in Pool, CanCreate(p)
    PROVE  /\ Create(p) \in Pool
           /\ CreatedCol(p) \in Column
           /\ Create(p).gen = p.gen
           /\ Create(p).made \in p.made .. MaxCols
<1> USE MaxColsAssumption
<1>1. CASE p.free # <<>>
  <2>1. p.free \in Seq(Column)
    BY DEF Pool
  <2>2. Front(p.free) \in Seq(Column) /\ Last(p.free) \in Column
    BY <1>1, <2>1 DEF Front, Last
  <2>3. Create(p) = [p EXCEPT !.free = Front(p.free)] /\ CreatedCol(p) = Last(p.free)
    BY <1>1 DEF Create, CreatedCol
  <2> QED
    BY <2>2, <2>3 DEF Pool
<1>2. CASE p.free = <<>>
  <2>1. p.made \in 0 .. MaxCols - 1
    BY <1>2 DEF CanCreate, Pool
  <2>2. Create(p) = [p EXCEPT !.made = p.made + 1] /\ CreatedCol(p) = p.made
    BY <1>2 DEF Create, CreatedCol
  <2> QED
    BY <2>1, <2>2 DEF Pool, Column
<1> QED
  BY <1>1, <1>2

\* The generation stays in range: one more, or GenMod less after a wrap.
LEMMA NextGenFacts ==
    ASSUME NEW g \in Gen
    PROVE  NextGen(g) \in Gen /\ NextGen(g) \in {g + 1, g + 1 - GenMod}
BY GenModAssumption DEF Gen, NextGen

\* Recycling keeps a pool a pool, whatever column is named: no other column is
\* bumped, and that one only if it is not on the free stack.
LEMMA RecycleTyped ==
    ASSUME NEW p \in Pool, NEW i \in Column
    PROVE  /\ RecycleCol(p, i) \in Pool
           /\ RecycleCol(p, i).made = p.made
           /\ \A j \in Column \ {i} : RecycleCol(p, i).gen[j] = p.gen[j]
           /\ i \notin FreeCols(p) => RecycleCol(p, i).gen[i] = NextGen(p.gen[i])
<1>1. CASE i \in FreeCols(p)
  BY <1>1 DEF RecycleCol
<1>2. CASE i \notin FreeCols(p)
  <2>1. p.gen[i] \in Gen /\ p.gen \in [Column -> Gen] /\ p.free \in Seq(Column)
    BY DEF Pool
  <2>2. NextGen(p.gen[i]) \in Gen
    BY <2>1, NextGenFacts
  <2>3. Append(p.free, i) \in Seq(Column)
    BY <2>1
  <2>4. RecycleCol(p, i) = [p EXCEPT !.gen = [p.gen EXCEPT ![i] = NextGen(p.gen[i])],
                                     !.free = Append(p.free, i)]
    BY <1>2 DEF RecycleCol
  <2> QED
    BY <2>1, <2>2, <2>3, <2>4 DEF Pool
<1> QED
  BY <1>1, <1>2

-----------------------------------------------------------------------------

-----------------------------------------------------------------------------
(* Pools and columns. *)

\* A subunit has at most one pool for each label.
LEMMA MaxPoolsType == MaxPools \in Nat
BY LabelAssumption, FS_CardinalityType DEF MaxPools

-----------------------------------------------------------------------------
(* The operations on a content. *)

\* What every operation on a pool that is there leaves as it was.
SameLabels(c, e) ==
    DOMAIN e = DOMAIN c /\ \A p \in DOMAIN c : e[p].label = c[p].label

\* Pools keep their place and columns their generations.
SameGens(c, e) ==
    /\ DOMAIN c \subseteq DOMAIN e
    /\ \A p \in DOMAIN c, i \in Column : e[p].pool.gen[i] = c[p].pool.gen[i]

\* A content with one of its pools replaced.
LEMMA ReplacePool ==
    ASSUME NEW c \in Content, NEW p \in DOMAIN c, NEW q \in NamedPool,
           q.label = c[p].label
    PROVE  /\ [c EXCEPT ![p] = q] \in Content
           /\ Len([c EXCEPT ![p] = q]) = Len(c)
           /\ SameLabels(c, [c EXCEPT ![p] = q])
<1> DEFINE e == [c EXCEPT ![p] = q]
<1>1. Len(c) \in Nat /\ DOMAIN c = 1 .. Len(c) /\ \A i \in DOMAIN c : c[i] \in NamedPool
  BY DEF Content
<1>2. e \in [1 .. Len(c) -> NamedPool]
  BY <1>1
<1>3. e \in Seq(NamedPool) /\ Len(e) = Len(c)
  BY <1>1, <1>2, IsASeq, LenProperties
<1> QED
  BY <1>1, <1>3 DEF Content, SameLabels

\* create_column and erase change the data and the free stack of one pool.
LEMMA TakenFacts ==
    ASSUME NEW c \in Content, NEW p \in DOMAIN c, CanCreate(c[p].pool)
    PROVE  /\ Taken(c, p) \in Content
           /\ Len(Taken(c, p)) = Len(c)
           /\ SameLabels(c, Taken(c, p))
           /\ SameGens(c, Taken(c, p))
           /\ Blank(c) => Blank(Taken(c, p))
<1> DEFINE i == CreatedCol(c[p].pool)
           q == [c[p] EXCEPT !.data = [c[p].data EXCEPT ![i] = Nothing],
                             !.pool = Create(c[p].pool)]
<1>1. c[p] \in NamedPool
  BY DEF Content
<1>2. /\ Create(c[p].pool) \in Pool
      /\ i \in Column
      /\ Create(c[p].pool).gen = c[p].pool.gen
      /\ Create(c[p].pool).made \in c[p].pool.made .. MaxCols
  BY <1>1, CreateTyped DEF NamedPool
<1>3. q \in NamedPool /\ q.label = c[p].label
  BY <1>1, <1>2 DEF NamedPool
<1>4. Taken(c, p) = [c EXCEPT ![p] = q]
  BY DEF Taken
<1>5. /\ Taken(c, p) \in Content
      /\ Len(Taken(c, p)) = Len(c)
      /\ SameLabels(c, Taken(c, p))
  <2>1. q \in NamedPool /\ q.label = c[p].label
    BY <1>3
  <2> HIDE DEF q
  <2>2. /\ [c EXCEPT ![p] = q] \in Content
        /\ Len([c EXCEPT ![p] = q]) = Len(c)
        /\ SameLabels(c, [c EXCEPT ![p] = q])
    BY <2>1, ReplacePool
  <2> QED
    BY <2>2, <1>4
<1>6. ASSUME Blank(c) PROVE Blank(Taken(c, p))
  <2>1. SUFFICES ASSUME NEW r \in DOMAIN c, NEW j \in Column,
                        j >= Taken(c, p)[r].pool.made
                 PROVE  /\ Taken(c, p)[r].pool.gen[j] = 0
                        /\ Taken(c, p)[r].data[j] = Nothing
    BY <1>5 DEF Blank, SameLabels
  <2>2. CASE r # p
    BY <1>6, <2>1, <2>2, <1>4 DEF Blank
  <2>3. CASE r = p
    <3>1. Taken(c, p)[r] = q
      BY <2>3, <1>4
    <3>2. c[p].pool.made \in Nat /\ q.pool.made \in Nat /\ q.pool.made >= c[p].pool.made
      BY <1>1, <1>2, MaxColsAssumption DEF NamedPool, Pool
    <3>3. j >= c[p].pool.made
      BY <2>1, <3>1, <3>2 DEF Column
    <3>4. c[p].pool.gen[j] = 0 /\ c[p].data[j] = Nothing
      BY <1>6, <3>3 DEF Blank
    <3> QED
      BY <1>1, <1>2, <3>1, <3>4 DEF NamedPool
  <2> QED
    BY <2>2, <2>3
<1>7. SameGens(c, Taken(c, p))
  <2>1. q.pool.gen = c[p].pool.gen
    BY <1>1, <1>2 DEF NamedPool
  <2> HIDE DEF q
  <2> QED
    BY <1>4, <2>1 DEF SameGens
<1> QED
  BY <1>5, <1>6, <1>7

\* Storing in a column that was made changes its data only.
LEMMA StoredFacts ==
    ASSUME NEW c \in Content, NEW p \in DOMAIN c, NEW i \in Column, NEW d \in Datum,
           i < c[p].pool.made
    PROVE  /\ Stored(c, p, i, d) \in Content
           /\ Len(Stored(c, p, i, d)) = Len(c)
           /\ SameLabels(c, Stored(c, p, i, d))
           /\ SameGens(c, Stored(c, p, i, d))
           /\ Blank(c) => Blank(Stored(c, p, i, d))
<1> DEFINE q == [c[p] EXCEPT !.data = [c[p].data EXCEPT ![i] = d]]
<1>1. c[p] \in NamedPool
  BY DEF Content
<1>2. q \in NamedPool /\ q.label = c[p].label
  BY <1>1 DEF NamedPool
<1>3. Stored(c, p, i, d) = [c EXCEPT ![p] = q]
  BY DEF Stored
<1>4. /\ Stored(c, p, i, d) \in Content
      /\ Len(Stored(c, p, i, d)) = Len(c)
      /\ SameLabels(c, Stored(c, p, i, d))
  <2>1. q \in NamedPool /\ q.label = c[p].label
    BY <1>2
  <2> HIDE DEF q
  <2>2. /\ [c EXCEPT ![p] = q] \in Content
        /\ Len([c EXCEPT ![p] = q]) = Len(c)
        /\ SameLabels(c, [c EXCEPT ![p] = q])
    BY <2>1, ReplacePool
  <2> QED
    BY <2>2, <1>3
<1>5. ASSUME Blank(c) PROVE Blank(Stored(c, p, i, d))
  <2>1. SUFFICES ASSUME NEW r \in DOMAIN c, NEW j \in Column,
                        j >= Stored(c, p, i, d)[r].pool.made
                 PROVE  /\ Stored(c, p, i, d)[r].pool.gen[j] = 0
                        /\ Stored(c, p, i, d)[r].data[j] = Nothing
    BY <1>4 DEF Blank, SameLabels
  <2>2. CASE r # p
    BY <1>5, <2>1, <2>2, <1>3 DEF Blank
  <2>3. CASE r = p
    <3>1. Stored(c, p, i, d)[r] = q
      BY <2>3, <1>3
    <3>2. q.pool = c[p].pool /\ c[p].pool.made \in Nat
      BY <1>1, MaxColsAssumption DEF NamedPool, Pool
    <3>3. j >= c[p].pool.made /\ j # i
      BY <2>1, <3>1, <3>2 DEF Column
    <3>4. c[p].pool.gen[j] = 0 /\ c[p].data[j] = Nothing
      BY <1>5, <3>3 DEF Blank
    <3> QED
      BY <1>1, <3>1, <3>2, <3>3, <3>4 DEF NamedPool
  <2> QED
    BY <2>2, <2>3
<1>6. SameGens(c, Stored(c, p, i, d))
  <2>1. q.pool = c[p].pool
    BY <1>1 DEF NamedPool
  <2> HIDE DEF q
  <2> QED
    BY <1>3, <2>1 DEF SameGens
<1> QED
  BY <1>4, <1>5, <1>6

\* recycle_column bumps one column, and only if it is not already free.
LEMMA RecycledFacts ==
    ASSUME NEW c \in Content, NEW p \in DOMAIN c, NEW i \in Column,
           i < c[p].pool.made
    PROVE  /\ Recycled(c, p, i) \in Content
           /\ Len(Recycled(c, p, i)) = Len(c)
           /\ SameLabels(c, Recycled(c, p, i))
           /\ \A r \in DOMAIN c, j \in Column :
                  <<r, j>> # <<p, i>> =>
                      Recycled(c, p, i)[r].pool.gen[j] = c[r].pool.gen[j]
           /\ i \notin FreeCols(c[p].pool) =>
                  Recycled(c, p, i)[p].pool.gen[i] = NextGen(c[p].pool.gen[i])
           /\ Blank(c) => Blank(Recycled(c, p, i))
<1> DEFINE q == [c[p] EXCEPT !.pool = RecycleCol(c[p].pool, i)]
<1>1. c[p] \in NamedPool
  BY DEF Content
<1>2. /\ RecycleCol(c[p].pool, i) \in Pool
      /\ RecycleCol(c[p].pool, i).made = c[p].pool.made
      /\ \A j \in Column \ {i} : RecycleCol(c[p].pool, i).gen[j] = c[p].pool.gen[j]
      /\ i \notin FreeCols(c[p].pool) =>
             RecycleCol(c[p].pool, i).gen[i] = NextGen(c[p].pool.gen[i])
  BY <1>1, RecycleTyped DEF NamedPool
<1>3. q \in NamedPool /\ q.label = c[p].label
  BY <1>1, <1>2 DEF NamedPool
<1>4. Recycled(c, p, i) = [c EXCEPT ![p] = q]
  BY DEF Recycled
<1>5. /\ Recycled(c, p, i) \in Content
      /\ Len(Recycled(c, p, i)) = Len(c)
      /\ SameLabels(c, Recycled(c, p, i))
  <2>1. q \in NamedPool /\ q.label = c[p].label
    BY <1>3
  <2> HIDE DEF q
  <2>2. /\ [c EXCEPT ![p] = q] \in Content
        /\ Len([c EXCEPT ![p] = q]) = Len(c)
        /\ SameLabels(c, [c EXCEPT ![p] = q])
    BY <2>1, ReplacePool
  <2> QED
    BY <2>2, <1>4
<1>6. ASSUME Blank(c) PROVE Blank(Recycled(c, p, i))
  <2>1. SUFFICES ASSUME NEW r \in DOMAIN c, NEW j \in Column,
                        j >= Recycled(c, p, i)[r].pool.made
                 PROVE  /\ Recycled(c, p, i)[r].pool.gen[j] = 0
                        /\ Recycled(c, p, i)[r].data[j] = Nothing
    BY <1>5 DEF Blank, SameLabels
  <2>2. CASE r # p
    BY <1>6, <2>1, <2>2, <1>4 DEF Blank
  <2>3. CASE r = p
    <3>1. Recycled(c, p, i)[r] = q
      BY <2>3, <1>4
    <3>2. q.pool = RecycleCol(c[p].pool, i) /\ q.data = c[p].data
      BY <1>1 DEF NamedPool
    <3>3. c[p].pool.made \in Nat
      BY <1>1, MaxColsAssumption DEF NamedPool, Pool
    <3>4. j >= c[p].pool.made /\ j # i
      BY <2>1, <3>1, <3>2, <3>3, <1>2 DEF Column
    <3>5. c[p].pool.gen[j] = 0 /\ c[p].data[j] = Nothing
      BY <1>6, <3>4 DEF Blank
    <3> QED
      BY <1>2, <3>1, <3>2, <3>4, <3>5
  <2> QED
    BY <2>2, <2>3
<1>7. /\ \A r \in DOMAIN c, j \in Column :
            <<r, j>> # <<p, i>> => Recycled(c, p, i)[r].pool.gen[j] = c[r].pool.gen[j]
      /\ i \notin FreeCols(c[p].pool) =>
             Recycled(c, p, i)[p].pool.gen[i] = NextGen(c[p].pool.gen[i])
  <2>1. q.pool = RecycleCol(c[p].pool, i)
    BY <1>1 DEF NamedPool
  <2> HIDE DEF q
  <2> QED
    BY <1>2, <1>4, <2>1
<1> QED
  BY <1>5, <1>6, <1>7

\* add() puts an empty pool after the others.
LEMMA AddedFacts ==
    ASSUME NEW c \in Content, NEW l \in Label
    PROVE  /\ AddedPool(c, l) \in Content
           /\ Len(AddedPool(c, l)) = Len(c) + 1
           /\ \A p \in DOMAIN c : AddedPool(c, l)[p] = c[p]
           /\ AddedPool(c, l)[Len(c) + 1].label = l
           /\ Blank(c) => Blank(AddedPool(c, l))
<1> DEFINE q == [label |-> l, pool |-> EmptyPool, data |-> [i \in Column |-> Nothing]]
           e == AddedPool(c, l)
<1>1. EmptyPool \in Pool /\ EmptyPool.made = 0 /\ \A i \in Column : EmptyPool.gen[i] = 0
  <2>1. 0 \in Gen /\ 0 \in 0 .. MaxCols
    BY GenModAssumption, MaxColsAssumption DEF Gen
  <2> QED
    BY <2>1 DEF EmptyPool, Pool
<1>2. q \in NamedPool
  BY <1>1 DEF NamedPool
<1>3. e = Append(c, q)
  BY DEF AddedPool
<1>4. /\ e \in Content
      /\ Len(e) = Len(c) + 1
      /\ \A p \in DOMAIN c : e[p] = c[p]
      /\ e[Len(c) + 1] = q
  <2> HIDE DEF q, e
  <2> QED
    BY <1>2, <1>3 DEF Content
<1>5. ASSUME Blank(c) PROVE Blank(e)
  <2>1. DOMAIN e = 1 .. Len(c) + 1 /\ DOMAIN c = 1 .. Len(c) /\ Len(c) \in Nat
    BY <1>4 DEF Content
  <2>2. \A i \in Column : q.pool.gen[i] = 0 /\ q.data[i] = Nothing
    BY <1>1
  <2> HIDE DEF q, e
  <2> QED
    BY <1>4, <1>5, <2>1, <2>2 DEF Blank
<1> HIDE DEF e
<1>6. e[Len(c) + 1].label = l
  BY <1>4
<1> QED
  BY <1>4, <1>5, <1>6 DEF e

-----------------------------------------------------------------------------
(* Writing a snapshot and reading it. *)

\* snapshot_col writes a field for each column that was made.
LEMMA WritePoolTyped ==
    ASSUME NEW q \in NamedPool
    PROVE  WritePool(q) \in SavedPool /\ Len(WritePool(q).cols) = q.pool.made
<1> DEFINE g == [i \in 1 .. q.pool.made |->
                    [gen |-> q.pool.gen[i - 1], data |-> q.data[i - 1]]]
<1>1. /\ q.label \in Label /\ q.pool.made \in 0 .. MaxCols
      /\ q.pool.free \in Seq(Column)
      /\ q.pool.gen \in [Column -> Gen]
      /\ q.data \in [Column -> Datum \cup {Nothing}]
  BY DEF NamedPool, Pool
<1>2. q.pool.made \in Nat /\ \A i \in 1 .. q.pool.made : i - 1 \in Column
  BY <1>1, MaxColsAssumption DEF Column
<1>3. \A i \in 1 .. q.pool.made : g[i] \in Field
  BY <1>1, <1>2 DEF Field
<1>4. g \in Seq(Field) /\ Len(g) = q.pool.made
  <2>1. g \in [1 .. q.pool.made -> Field]
    BY <1>3
  <2> HIDE DEF g
  <2> QED
    BY <1>2, <2>1, IsASeq, LenProperties
<1>5. WritePool(q) = [label |-> q.label, free |-> q.pool.free, cols |-> g]
  BY DEF WritePool
<1> HIDE DEF g
<1> QED
  BY <1>1, <1>4, <1>5 DEF SavedPool

\* load_snapshot_col makes the columns that were saved and no others.
LEMMA ReadPoolTyped ==
    ASSUME NEW f \in SavedPool
    PROVE  /\ ReadPool(f) \in NamedPool
           /\ ReadPool(f).label = f.label
           /\ \A i \in Column : i >= ReadPool(f).pool.made =>
                  ReadPool(f).pool.gen[i] = 0 /\ ReadPool(f).data[i] = Nothing
<1> DEFINE n == Len(f.cols)
           g == [i \in Column |-> IF i < n THEN f.cols[i + 1].gen ELSE 0]
           d == [i \in Column |-> IF i < n THEN f.cols[i + 1].data ELSE Nothing]
<1>1. /\ f.label \in Label /\ f.free \in Seq(Column)
      /\ f.cols \in Seq(Field) /\ n \in 0 .. MaxCols
  BY MaxColsAssumption DEF SavedPool
<1>2. \A i \in Column : i < n => f.cols[i + 1] \in Field
  BY <1>1 DEF Column
<1>3. 0 \in Gen
  BY GenModAssumption DEF Gen
<1> HIDE DEF n
<1>4. g \in [Column -> Gen] /\ d \in [Column -> Datum \cup {Nothing}]
  BY <1>2, <1>3 DEF Field
<1>5. \A i \in Column : i >= n => g[i] = 0 /\ d[i] = Nothing
  BY <1>1 DEF Column
<1>6. ReadPool(f) = [label |-> f.label, data |-> d,
                     pool |-> [made |-> n, free |-> f.free, gen |-> g]]
  BY DEF ReadPool, n
<1> HIDE DEF g, d
<1> QED
  BY <1>1, <1>4, <1>5, <1>6 DEF NamedPool, Pool

\* A pool comes back from its snapshot with labels, stack, generations and data.
LEMMA PoolRoundTrip ==
    ASSUME NEW q \in NamedPool,
           \A i \in Column : i >= q.pool.made => q.pool.gen[i] = 0 /\ q.data[i] = Nothing
    PROVE  ReadPool(WritePool(q)) = q
<1> DEFINE f == WritePool(q)
           n == Len(f.cols)
           g == [i \in Column |-> IF i < n THEN f.cols[i + 1].gen ELSE 0]
           d == [i \in Column |-> IF i < n THEN f.cols[i + 1].data ELSE Nothing]
<1>1. /\ q.pool \in Pool /\ q.pool.made \in 0 .. MaxCols
      /\ q.pool.gen \in [Column -> Gen]
      /\ q.data \in [Column -> Datum \cup {Nothing}]
  BY DEF NamedPool, Pool
<1>2. /\ n = q.pool.made /\ f.label = q.label /\ f.free = q.pool.free
      /\ \A i \in 1 .. q.pool.made :
            f.cols[i] = [gen |-> q.pool.gen[i - 1], data |-> q.data[i - 1]]
  BY WritePoolTyped DEF WritePool
<1>3. ReadPool(f) = [label |-> f.label, data |-> d,
                     pool |-> [made |-> n, free |-> f.free, gen |-> g]]
  BY DEF ReadPool
<1> HIDE DEF f, n
<1>4. ASSUME NEW i \in Column PROVE g[i] = q.pool.gen[i] /\ d[i] = q.data[i]
  <2>1. CASE i < n
    <3>1. i + 1 \in 1 .. q.pool.made /\ (i + 1) - 1 = i
      BY <1>1, <1>2, <2>1, MaxColsAssumption DEF Column
    <3>2. f.cols[i + 1] = [gen |-> q.pool.gen[i], data |-> q.data[i]]
      BY <1>2, <3>1
    <3> QED
      BY <2>1, <3>2
  <2>2. CASE ~(i < n)
    <3>1. i >= q.pool.made
      BY <1>1, <1>2, <2>2, MaxColsAssumption DEF Column
    <3> QED
      BY <2>2, <3>1
  <2> QED
    BY <2>1, <2>2
<1>5. g = q.pool.gen
  BY <1>1, <1>4
<1>6. d = q.data
  BY <1>1, <1>4
<1> HIDE DEF g, d
<1>7. q.pool = [made |-> q.pool.made, free |-> q.pool.free, gen |-> q.pool.gen]
  BY <1>1 DEF Pool
<1>8. q = [label |-> q.label, data |-> q.data, pool |-> q.pool]
  BY DEF NamedPool
<1>9. ReadPool(f) = [label |-> q.label, data |-> q.data,
                     pool |-> [made |-> q.pool.made, free |-> q.pool.free,
                               gen |-> q.pool.gen]]
  BY <1>2, <1>3, <1>5, <1>6
<1> QED
  BY <1>7, <1>8, <1>9 DEF f

\* As many pools are saved as there are.
LEMMA WriteFacts ==
    ASSUME NEW c \in Content
    PROVE  /\ WritePools(c) \in Seq(SavedPool)
           /\ Len(WritePools(c)) = Len(c)
<1>1. Len(c) \in Nat /\ DOMAIN c = 1 .. Len(c) /\ \A p \in DOMAIN c : c[p] \in NamedPool
  BY DEF Content
<1>2. WritePools(c) \in [1 .. Len(c) -> SavedPool]
  BY <1>1, WritePoolTyped DEF WritePools
<1> QED
  BY <1>1, <1>2, IsASeq, LenProperties

\* As many pools are read as were saved.
LEMMA ReadFacts ==
    ASSUME NEW f \in Seq(SavedPool)
    PROVE  /\ ReadPools(f) \in Content
           /\ Len(ReadPools(f)) = Len(f)
           /\ Blank(ReadPools(f))
<1>1. Len(f) \in Nat /\ DOMAIN f = 1 .. Len(f) /\ \A p \in DOMAIN f : f[p] \in SavedPool
  OBVIOUS
<1>2. ReadPools(f) \in [1 .. Len(f) -> NamedPool]
  BY <1>1, ReadPoolTyped DEF ReadPools
<1>3. ReadPools(f) \in Content /\ Len(ReadPools(f)) = Len(f)
  BY <1>1, <1>2, IsASeq, LenProperties DEF Content
<1>4. Blank(ReadPools(f))
  BY <1>1, ReadPoolTyped DEF Blank, ReadPools
<1> QED
  BY <1>3, <1>4

\* What load reads is what save wrote: labels, free stacks, generations, data.
LEMMA RoundTrip ==
    ASSUME NEW c \in Content, Blank(c)
    PROVE  ReadPools(WritePools(c)) = c
<1>1. Len(c) \in Nat /\ DOMAIN c = 1 .. Len(c) /\ \A p \in DOMAIN c : c[p] \in NamedPool
  BY DEF Content
<1>2. DOMAIN WritePools(c) = DOMAIN c /\ \A p \in DOMAIN c : WritePools(c)[p] = WritePool(c[p])
  BY DEF WritePools
<1>3. /\ DOMAIN ReadPools(WritePools(c)) = DOMAIN c
      /\ \A p \in DOMAIN c : ReadPools(WritePools(c))[p] = c[p]
  BY <1>1, <1>2, PoolRoundTrip DEF ReadPools, Blank
<1>4. /\ ReadPools(WritePools(c)) = [p \in DOMAIN c |-> ReadPools(WritePools(c))[p]]
      /\ c = [p \in DOMAIN c |-> c[p]]
  BY <1>1, <1>3 DEF ReadPools, Content
<1> QED
  BY <1>3, <1>4

-----------------------------------------------------------------------------
(* The inductive invariant. *)

Saved == ReadPools(file.pools)

\* What is in memory where there is no process to hold it.
AtRest == pc \in {"down", "hung"} => pools = <<>> /\ keys = {}

\* Where the file can be Torn, and that bounce clears what it has written.
FileInv ==
    /\ pc = "up" => file # Torn
    /\ pc \in {"saving", "bouncing"} => file = Torn
    /\ pc = "clearing" => file # Torn /\ Saved = pools /\ file.keys = keys

\* The cells of a subunit, in memory and in the file, are those of its pools.
\* Pools are only ever added: those of the file are the first in memory.
KeyInv ==
    ~broken =>
        /\ pc \notin {"down", "hung"} => keys = KeysOf(Stands)
        /\ pc \in {"saving", "bouncing", "clearing"} => Loaded
        /\ file # Torn => file.keys = KeysOf(Saved) /\ Saved # <<>>
        /\ file # Torn /\ Loaded =>
               /\ Len(file.pools) <= Len(pools)
               /\ \A p \in DOMAIN file.pools : file.pools[p].label = pools[p].label

IInv == TypeOK /\ Blank(pools) /\ AtRest /\ FileInv /\ KeyInv

-----------------------------------------------------------------------------
(* Facts about cells and files. *)

\* The cells of the pools of a subunit fit the table.
LEMMA KeysOfType ==
    ASSUME NEW c \in Content, Len(c) <= MaxPools
    PROVE  KeysOf(c) \in Keys
<1>1. Len(c) \in Nat /\ DOMAIN c = 1 .. Len(c) /\ \A p \in DOMAIN c : c[p] \in NamedPool
  BY DEF Content
<1>2. \A p \in DOMAIN c : <<c[p].label, p>> \in Label \X Index
  BY <1>1, MaxPoolsType DEF NamedPool, Index
<1> QED
  BY <1>2 DEF KeysOf, Keys

\* Work on pools that are there needs no other cells.
LEMMA SameLabelsSameKeys ==
    ASSUME NEW c, NEW e, SameLabels(c, e)
    PROVE  KeysOf(e) = KeysOf(c)
BY DEF SameLabels, KeysOf

\* A new pool needs one more cell.
LEMMA AddedKeys ==
    ASSUME NEW c \in Content, NEW l \in Label
    PROVE  KeysOf(AddedPool(c, l)) = KeysOf(c) \cup {<<l, Len(c) + 1>>}
<1> DEFINE e == AddedPool(c, l)
<1>1. /\ e \in Content /\ Len(e) = Len(c) + 1
      /\ \A p \in DOMAIN c : e[p] = c[p]
      /\ e[Len(c) + 1].label = l
  BY AddedFacts
<1> HIDE DEF e
<1>2. /\ Len(c) \in Nat /\ DOMAIN c = 1 .. Len(c)
      /\ DOMAIN e = DOMAIN c \cup {Len(c) + 1}
  BY <1>1 DEF Content
<1> QED
  BY <1>1, <1>2 DEF KeysOf, e

\* A file that holds what it was given.
LEMMA WrittenFile ==
    ASSUME NEW c \in Content, Len(c) <= MaxPools, Blank(c), NEW k \in Keys
    PROVE  /\ [pools |-> WritePools(c), keys |-> k] \in Snapshot
           /\ [pools |-> WritePools(c), keys |-> k] # Torn
           /\ ReadPools(WritePools(c)) = c
           /\ Len(WritePools(c)) = Len(c)
           /\ DOMAIN WritePools(c) = DOMAIN c
           /\ \A p \in DOMAIN c : WritePools(c)[p].label = c[p].label
<1>1. WritePools(c) \in Seq(SavedPool) /\ Len(WritePools(c)) = Len(c)
  BY WriteFacts
<1>2. [pools |-> WritePools(c), keys |-> k] \in Snapshot
  BY <1>1 DEF Snapshot
<1>3. \A p \in DOMAIN c : WritePools(c)[p].label = c[p].label
  BY DEF WritePools, WritePool
<1>4. DOMAIN WritePools(c) = DOMAIN c
  BY DEF WritePools
<1> QED
  BY <1>1, <1>2, <1>3, <1>4, RoundTrip, TornAssumption

\* What is read from a whole file.
LEMMA ReadFile ==
    ASSUME NEW f \in Snapshot
    PROVE  /\ f.pools \in Seq(SavedPool) /\ f.keys \in Keys
           /\ Len(f.pools) <= MaxPools
           /\ ReadPools(f.pools) \in Content
           /\ Len(ReadPools(f.pools)) = Len(f.pools)
           /\ Blank(ReadPools(f.pools))
           /\ DOMAIN ReadPools(f.pools) = DOMAIN f.pools
           /\ \A p \in DOMAIN f.pools : ReadPools(f.pools)[p].label = f.pools[p].label
<1>1. f.pools \in Seq(SavedPool) /\ f.keys \in Keys /\ Len(f.pools) <= MaxPools
  BY DEF Snapshot
<1>2. \A p \in DOMAIN f.pools : f.pools[p] \in SavedPool
  BY <1>1
<1> QED
  BY <1>1, <1>2, ReadFacts, ReadPoolTyped DEF ReadPools

-----------------------------------------------------------------------------
(* The invariant is inductive. *)

\* A step that works on the pools that are there.
LEMMA WorkStep ==
    ASSUME IInv, Working, FileUnchanged,
           pools' \in Content, Len(pools') = Len(pools), SameLabels(pools, pools'),
           Blank(pools'), keys' = keys, held' \in SUBSET Ptr, life' \in Life
    PROVE  IInv'
<1> USE DEF IInv, Working, Loaded, FileUnchanged
<1>1. TypeOK'
  BY DEF TypeOK
<1>2. pools' # <<>>
  BY DEF TypeOK, SameLabels, Content
<1>3. AtRest' /\ FileInv'
  BY DEF AtRest, FileInv, Saved
<1>4. ASSUME ~broken PROVE KeyInv'
  <2>1. KeysOf(pools') = KeysOf(pools)
    BY SameLabelsSameKeys
  <2>2. keys = KeysOf(pools)
    BY <1>4 DEF KeyInv, Stands, Unloaded
  <2>3. Stands' = pools'
    BY <1>2 DEF Stands, Unloaded
  <2>4. ASSUME file # Torn
        PROVE  /\ file.keys = KeysOf(Saved) /\ Saved # <<>>
               /\ Len(file.pools) <= Len(pools')
               /\ \A p \in DOMAIN file.pools : file.pools[p].label = pools'[p].label
    <3>1. /\ file.keys = KeysOf(Saved) /\ Saved # <<>>
          /\ Len(file.pools) <= Len(pools)
          /\ \A p \in DOMAIN file.pools : file.pools[p].label = pools[p].label
      BY <1>4, <2>4 DEF KeyInv
    <3>2. DOMAIN file.pools \subseteq DOMAIN pools
      <4>1. file.pools \in Seq(SavedPool)
        BY <2>4, ReadFile DEF TypeOK
      <4>2. pools \in Content
        BY DEF TypeOK
      <4> QED
        BY <3>1, <4>1, <4>2 DEF Content
    <3> QED
      BY <3>1, <3>2 DEF SameLabels
  <2> QED
    BY <1>2, <2>1, <2>2, <2>3, <2>4 DEF KeyInv, Saved
<1>5. broken => KeyInv'
  BY DEF KeyInv
<1> QED
  BY <1>1, <1>3, <1>4, <1>5

\* getOrPutPool adds a pool and its cell together.
LEMMA AddPoolStep ==
    ASSUME IInv, NEW l \in Label, AddPool(l)
    PROVE  IInv'
<1> USE DEF IInv, AddPool, Working, Loaded, FileUnchanged
<1>1. /\ pools \in Content /\ Len(pools) \in Nat /\ Len(pools) <= MaxPools
      /\ DOMAIN pools = 1 .. Len(pools)
  BY DEF TypeOK, Content
<1>2. /\ pools' \in Content /\ Len(pools') = Len(pools) + 1
      /\ \A p \in DOMAIN pools : pools'[p] = pools[p]
      /\ Blank(pools')
  BY <1>1, AddedFacts
<1>3. keys' \in Keys /\ Len(pools') <= MaxPools
  <2>1. Len(pools) + 1 \in Index
    BY <1>1, MaxPoolsType DEF Index
  <2>2. Len(pools) + 1 <= MaxPools
    BY <1>1, MaxPoolsType
  <2> QED
    BY <1>2, <2>1, <2>2 DEF TypeOK, Keys
<1>4. TypeOK'
  BY <1>2, <1>3 DEF TypeOK
<1>5. pools' # <<>>
  BY <1>1, <1>2
<1>6. AtRest' /\ FileInv'
  BY DEF AtRest, FileInv, Saved
<1>7. ASSUME ~broken PROVE KeyInv'
  <2>1. keys' = KeysOf(pools')
    <3>1. keys = KeysOf(pools)
      BY <1>7 DEF KeyInv, Stands, Unloaded
    <3> QED
      BY <1>1, <3>1, AddedKeys
  <2>2. Stands' = pools'
    BY <1>5 DEF Stands, Unloaded
  <2>3. ASSUME file # Torn
        PROVE  /\ file.keys = KeysOf(Saved) /\ Saved # <<>>
               /\ Len(file.pools) <= Len(pools')
               /\ \A p \in DOMAIN file.pools : file.pools[p].label = pools'[p].label
    <3>1. /\ file.keys = KeysOf(Saved) /\ Saved # <<>>
          /\ Len(file.pools) <= Len(pools)
          /\ \A p \in DOMAIN file.pools : file.pools[p].label = pools[p].label
      BY <1>7, <2>3 DEF KeyInv
    <3>2. file.pools \in Seq(SavedPool)
      BY <2>3, ReadFile DEF TypeOK
    <3>3. Len(file.pools) \in Nat /\ DOMAIN file.pools \subseteq DOMAIN pools
      BY <1>1, <3>1, <3>2
    <3> QED
      BY <1>1, <1>2, <3>1, <3>3
  <2> QED
    BY <1>5, <2>1, <2>2, <2>3 DEF KeyInv, Saved
<1>8. broken => KeyInv'
  BY DEF KeyInv
<1> QED
  BY <1>2, <1>4, <1>6, <1>7, <1>8

\* A ticket is for a column of a pool that is there.
LEMMA GetTicketStep ==
    ASSUME IInv, NEW l \in Label, GetTicket(l)
    PROVE  IInv'
<1> DEFINE i(p) == CreatedCol(pools[p].pool)
           t(p) == [pool |-> p, idx |-> i(p), gen |-> pools[p].pool.gen[i(p)],
                    life |-> life[<<p, i(p)>>]]
<1>1. PICK p \in Found(l) \cap DOMAIN pools :
        CanCreate(pools[p].pool) /\ pools' = Taken(pools, p) /\ held' = held \cup {t(p)}
  BY DEF GetTicket
<1>2. pools \in Content /\ Len(pools) \in Nat /\ Len(pools) <= MaxPools
  BY DEF IInv, TypeOK, Content
<1>3. p \in Index /\ pools[p] \in NamedPool
  BY <1>1, <1>2, MaxPoolsType DEF Content, Index
<1>4. i(p) \in Column
  BY <1>1, <1>3, CreateTyped DEF NamedPool
<1>5. t(p) \in Ptr
  BY <1>3, <1>4 DEF IInv, TypeOK, Life, Ptr, NamedPool, Pool
<1>6. held' \in SUBSET Ptr
  BY <1>1, <1>5 DEF IInv, TypeOK
<1>7. life' \in Life /\ keys' = keys /\ Working /\ FileUnchanged
  BY DEF GetTicket, IInv, TypeOK
<1> QED
  BY <1>1, <1>2, <1>6, <1>7, TakenFacts, WorkStep DEF IInv

\* A Ptr whose generation matches stores within its pool.
LEMMA StoreStep ==
    ASSUME IInv, NEW t \in held, NEW d \in Datum, Store(t, d)
    PROVE  IInv'
<1>1. pools \in Content /\ t \in Ptr
  BY DEF IInv, TypeOK
<1>2. /\ t.pool \in DOMAIN pools /\ t.idx \in Column
      /\ t.idx < pools[t.pool].pool.made
  BY <1>1 DEF Store, GenMatches, InBounds, Ptr
<1>3. /\ Working /\ FileUnchanged /\ keys' = keys
      /\ held' \in SUBSET Ptr /\ life' \in Life
      /\ pools' = Stored(pools, t.pool, t.idx, d)
  BY DEF Store, IInv, TypeOK
<1> QED
  BY <1>1, <1>2, <1>3, StoredFacts, WorkStep DEF IInv

\* Recycling touches one column of one pool.
LEMMA RecycleStep ==
    ASSUME IInv, NEW t \in held, Recycle(t)
    PROVE  IInv'
<1>1. pools \in Content /\ t \in Ptr /\ life \in Life
  BY DEF IInv, TypeOK
<1>2. /\ t.pool \in DOMAIN pools /\ t.idx \in Column
      /\ t.idx < pools[t.pool].pool.made
  BY <1>1 DEF Recycle, GenMatches, InBounds, Ptr
<1>3. life' \in Life
  <2>1. life' = [life EXCEPT ![<<t.pool, t.idx>>] = life[<<t.pool, t.idx>>] + 1]
    BY DEF Recycle
  <2>2. life \in [Index \X Column -> Nat] /\ <<t.pool, t.idx>> \in Index \X Column
    BY <1>1, <1>2 DEF Life, Ptr
  <2> QED
    BY <2>1, <2>2 DEF Life
<1>4. /\ Working /\ FileUnchanged /\ keys' = keys
      /\ held' \in SUBSET Ptr
      /\ pools' = Recycled(pools, t.pool, t.idx)
  BY DEF Recycle, IInv, TypeOK
<1> QED
  BY <1>1, <1>2, <1>3, <1>4, RecycledFacts, WorkStep DEF IInv

\* Dropping a Ptr touches nothing else.
LEMMA DropStep ==
    ASSUME IInv, NEW t \in held, Drop(t)
    PROVE  IInv'
<1>1. pools' = pools /\ pools \in Content /\ SameLabels(pools, pools')
  BY DEF IInv, TypeOK, Drop, SameLabels
<1>2. /\ Working /\ FileUnchanged /\ keys' = keys
      /\ held' \in SUBSET Ptr /\ life' \in Life
  BY DEF Drop, IInv, TypeOK
<1> QED
  BY <1>1, <1>2, WorkStep DEF IInv

\* A save truncates the file and leaves the subunit as it is.
LEMMA OpenFileStep ==
    ASSUME IInv, OpenFile
    PROVE  IInv'
<1> USE DEF IInv, OpenFile
<1>1. TypeOK' /\ Blank(pools') /\ AtRest' /\ FileInv'
  BY DEF TypeOK, PCs, AtRest, FileInv
<1>2. ASSUME ~broken' PROVE KeyInv'
  <2>1. ~broken /\ Loaded
    BY <1>2 DEF TypeOK
  <2>2. keys = KeysOf(pools)
    BY <2>1 DEF KeyInv, Stands, Unloaded
  <2>3. Stands' = pools'
    BY DEF Stands, Unloaded
  <2> QED
    BY <2>1, <2>2, <2>3 DEF KeyInv, Loaded
<1>3. broken' => KeyInv'
  BY DEF KeyInv
<1> QED
  BY <1>1, <1>2, <1>3

\* The file written holds what is in memory.
LEMMA WriteFileStep ==
    ASSUME IInv, WriteFile
    PROVE  IInv'
<1> USE DEF IInv, WriteFile
<1>1. /\ pools \in Content /\ Len(pools) <= MaxPools /\ Blank(pools) /\ keys \in Keys
      /\ Len(pools) \in Nat /\ DOMAIN pools = 1 .. Len(pools)
  BY DEF TypeOK, Content
<1>2. /\ file' \in Snapshot /\ file' # Torn
      /\ Saved' = pools
      /\ Len(file'.pools) = Len(pools)
      /\ DOMAIN file'.pools = DOMAIN pools
      /\ \A p \in DOMAIN pools : file'.pools[p].label = pools[p].label
  <2>1. file'.pools = WritePools(pools)
    OBVIOUS
  <2> QED
    BY <1>1, <2>1, WrittenFile DEF Saved
<1>3. file'.keys = keys
  OBVIOUS
<1>4. TypeOK' /\ Blank(pools')
  BY <1>2 DEF TypeOK, PCs
<1>5. AtRest' /\ FileInv'
  BY <1>2, <1>3 DEF AtRest, FileInv
<1>6. ASSUME ~broken PROVE KeyInv'
  <2>1. Loaded /\ keys = KeysOf(pools)
    BY <1>6 DEF KeyInv, Stands, Unloaded
  <2>2. Stands' = pools'
    BY <2>1 DEF Stands, Unloaded, Loaded
  <2> QED
    BY <1>1, <1>2, <1>3, <2>1, <2>2 DEF KeyInv, Loaded
<1>7. broken => KeyInv'
  BY DEF KeyInv
<1> QED
  BY <1>4, <1>5, <1>6, <1>7

\* What bounce destroys is in the file.
LEMMA ClearStep ==
    ASSUME IInv, Clear
    PROVE  IInv'
<1> USE DEF IInv, Clear
<1>1. <<>> \in Content /\ Len(<<>>) <= MaxPools /\ Blank(<<>>)
  BY MaxPoolsType DEF Content, Blank
<1>2. TypeOK' /\ Blank(pools')
  BY <1>1 DEF TypeOK, PCs
<1>3. AtRest' /\ FileInv'
  BY DEF AtRest, FileInv
<1>4. ASSUME ~broken PROVE KeyInv'
  <2>1. /\ file # Torn /\ file.keys = keys
        /\ file.keys = KeysOf(Saved) /\ Saved # <<>>
    BY <1>4 DEF FileInv, KeyInv
  <2>2. Stands' = Saved
    BY <2>1 DEF Stands, Unloaded, Loaded, OnFile, Saved
  <2> QED
    BY <2>1, <2>2 DEF KeyInv, Loaded, Saved
<1>5. broken => KeyInv'
  BY DEF KeyInv
<1> QED
  BY <1>2, <1>3, <1>4, <1>5

\* Whatever is loaded is typed, and agrees with the file.
LEMMA LoadTyped ==
    ASSUME IInv, file # Torn, Load(file), UNCHANGED file
    PROVE  /\ pools' = Saved
           /\ pools' \in Content /\ Len(pools') <= MaxPools /\ Blank(pools')
           /\ keys' \in Keys
           /\ Len(file'.pools) <= Len(pools')
           /\ \A p \in DOMAIN file'.pools : file'.pools[p].label = pools'[p].label
<1>1. file \in Snapshot
  BY DEF IInv, TypeOK
<1>2. pools' = Saved /\ keys' = keys \cup file.keys
  BY DEF Load, LoadedPools, LoadedKeys, Saved
<1>3. Len(Saved) = Len(file.pools) /\ Len(file.pools) \in Nat
  BY <1>1, ReadFile DEF Saved
<1> QED
  BY <1>1, <1>2, <1>3, ReadFile DEF IInv, TypeOK, Keys, Saved

\* A load of an unloaded subunit restores the cells' pools.
LEMMA LoadSubunitStep ==
    ASSUME IInv, LoadSubunit
    PROVE  IInv'
<1> USE DEF IInv, LoadSubunit, FileUnchanged
<1>1. file # Torn
  BY DEF FileInv
<1>2. /\ pools' = Saved
      /\ pools' \in Content /\ Len(pools') <= MaxPools /\ Blank(pools')
      /\ keys' \in Keys
      /\ Len(file'.pools) <= Len(pools')
      /\ \A p \in DOMAIN file'.pools : file'.pools[p].label = pools'[p].label
  BY <1>1, LoadTyped
<1>3. TypeOK' /\ AtRest' /\ FileInv'
  BY <1>2 DEF TypeOK, AtRest, FileInv
<1>4. ASSUME ~broken PROVE KeyInv'
  <2>1. /\ file.keys = KeysOf(Saved) /\ Saved # <<>>
        /\ keys = KeysOf(Saved)
    BY <1>1, <1>4 DEF KeyInv, Stands, Unloaded, OnFile, Saved
  <2>2. keys' = KeysOf(Saved)
    BY <2>1 DEF Load, LoadedKeys
  <2>3. Stands' = Saved
    BY <1>2, <2>1 DEF Stands, Unloaded, Loaded
  <2> QED
    BY <1>2, <2>1, <2>2, <2>3 DEF KeyInv, Saved
<1>5. broken => KeyInv'
  BY DEF KeyInv
<1> QED
  BY <1>2, <1>3, <1>4, <1>5

\* A reload may discard pools whose cells stay: that breaks the subunit.
LEMMA ReloadStep ==
    ASSUME IInv, Reload
    PROVE  IInv'
<1> USE DEF IInv, Reload
<1>1. file # Torn
  BY DEF FileInv
<1>2. /\ pools' = Saved
      /\ pools' \in Content /\ Len(pools') <= MaxPools /\ Blank(pools')
      /\ keys' \in Keys
      /\ Len(file'.pools) <= Len(pools')
      /\ \A p \in DOMAIN file'.pools : file'.pools[p].label = pools'[p].label
  BY <1>1, LoadTyped
<1>3. TypeOK' /\ AtRest' /\ FileInv'
  <2>1. held' \in SUBSET Ptr /\ life' \in Life
    BY DEF TypeOK, Life, NoLife
  <2> QED
    BY <1>2, <2>1 DEF TypeOK, AtRest, FileInv
<1>4. ASSUME ~broken' PROVE KeyInv'
  <2>1. ~broken /\ Len(pools) <= Len(file.pools)
    <3>1. pools \in Content /\ file.pools \in Seq(SavedPool)
      BY <1>1, ReadFile DEF TypeOK
    <3>2. Len(pools) \in Nat /\ Len(file.pools) \in Nat
      BY <3>1 DEF Content
    <3>3. ~broken /\ ~(Len(pools) > Len(file.pools))
      <4>1. broken' = (broken \/ Len(pools) > Len(file.pools))
        BY DEF Reload
      <4> QED
        BY <1>4, <4>1, Zenon
    <3> QED
      BY <3>2, <3>3
  <2>2. /\ file.keys = KeysOf(Saved) /\ Saved # <<>>
        /\ keys = KeysOf(pools)
        /\ Len(file.pools) <= Len(pools)
        /\ \A p \in DOMAIN file.pools : file.pools[p].label = pools[p].label
    BY <1>1, <2>1 DEF KeyInv, Stands, Unloaded, Loaded
  <2>3. SameLabels(pools, Saved)
    <3>1. /\ file.pools \in Seq(SavedPool) /\ pools \in Content
          /\ DOMAIN Saved = DOMAIN file.pools
          /\ \A p \in DOMAIN file.pools : Saved[p].label = file.pools[p].label
      BY <1>1, ReadFile DEF TypeOK, Saved
    <3>2. DOMAIN file.pools = DOMAIN pools
      BY <2>1, <2>2, <3>1 DEF Content
    <3> QED
      BY <2>2, <3>1, <3>2 DEF SameLabels
  <2>4. keys' = KeysOf(Saved)
    BY <2>2, <2>3, SameLabelsSameKeys DEF Load, LoadedKeys
  <2>5. Stands' = Saved
    BY <1>2, <2>2 DEF Stands, Unloaded, Loaded
  <2> QED
    BY <1>2, <2>2, <2>4, <2>5 DEF KeyInv, Saved
<1>5. broken' => KeyInv'
  BY DEF KeyInv
<1> QED
  BY <1>2, <1>3, <1>4, <1>5

\* Every way for the process to end.
LEMMA EndStep ==
    ASSUME IInv, pc' = "down", pools' = <<>>, keys' = {}, held' = {}, life' = NoLife,
           UNCHANGED <<file, broken>>
    PROVE  IInv'
<1> USE DEF IInv
<1>1. <<>> \in Content /\ Len(<<>>) <= MaxPools /\ Blank(<<>>)
  BY MaxPoolsType DEF Content, Blank
<1>2. NoLife \in Life /\ {} \in Keys
  BY DEF NoLife, Life, Keys
<1>3. TypeOK' /\ Blank(pools')
  BY <1>1, <1>2 DEF TypeOK, PCs
<1>4. AtRest' /\ FileInv'
  BY DEF AtRest, FileInv
<1>5. KeyInv'
  BY DEF KeyInv, Loaded, Saved
<1> QED
  BY <1>3, <1>4, <1>5

\* A new process finds what the last save left.
LEMMA RestartStep ==
    ASSUME IInv, Restart
    PROVE  IInv'
<1> USE DEF IInv, Restart
<1>1. CASE file = Torn
  <2>1. TypeOK' /\ Blank(pools') /\ AtRest' /\ FileInv'
    BY <1>1 DEF TypeOK, PCs, AtRest, FileInv
  <2>2. KeyInv'
    BY <1>1 DEF KeyInv, Loaded, Saved
  <2> QED
    BY <2>1, <2>2
<1>2. CASE file # Torn
  <2>1. /\ pools' = Saved
        /\ pools' \in Content /\ Len(pools') <= MaxPools /\ Blank(pools')
        /\ keys' \in Keys
        /\ Len(file'.pools) <= Len(pools')
        /\ \A p \in DOMAIN file'.pools : file'.pools[p].label = pools'[p].label
    BY <1>2, LoadTyped
  <2>2. TypeOK' /\ AtRest' /\ FileInv'
    BY <1>2, <2>1 DEF TypeOK, PCs, AtRest, FileInv
  <2>3. ASSUME ~broken PROVE KeyInv'
    <3>1. file.keys = KeysOf(Saved) /\ Saved # <<>> /\ keys = {}
      BY <1>2, <2>3 DEF KeyInv, AtRest
    <3>2. keys' = KeysOf(Saved)
      BY <1>2, <3>1 DEF Load, LoadedKeys
    <3>3. Stands' = Saved
      BY <1>2, <2>1, <3>1 DEF Stands, Unloaded, Loaded
    <3> QED
      BY <1>2, <2>1, <3>1, <3>2, <3>3 DEF KeyInv, Saved
  <2>4. broken => KeyInv'
    BY DEF KeyInv
  <2> QED
    BY <2>1, <2>2, <2>3, <2>4
<1> QED
  BY <1>1, <1>2

\* No process, and a file whose cells are those of its pools.
LEMMA InitIInv ==
    Init => IInv
<1> SUFFICES ASSUME Init PROVE IInv
  OBVIOUS
<1> USE DEF Init
<1>1. /\ Base \in Content /\ Base # <<>> /\ Len(Base) <= MaxPools /\ Blank(Base)
      /\ KeysOf(Base) \in Keys
  BY BaseAssumption, KeysOfType
<1>2. /\ file \in Snapshot /\ file # Torn
      /\ Saved = Base /\ file.keys = KeysOf(Base)
  BY <1>1, WrittenFile DEF Saved
<1>3. <<>> \in Content /\ Len(<<>>) <= MaxPools /\ Blank(<<>>)
  BY MaxPoolsType DEF Content, Blank
<1>4. NoLife \in Life /\ {} \in Keys /\ {} \in SUBSET Ptr
  BY DEF NoLife, Life, Keys
<1>5. TypeOK /\ Blank(pools)
  BY <1>2, <1>3, <1>4 DEF TypeOK, PCs
<1>6. AtRest /\ FileInv /\ KeyInv
  BY <1>1, <1>2 DEF AtRest, FileInv, KeyInv, Loaded
<1> QED
  BY <1>5, <1>6 DEF IInv

\* Every step keeps the invariant.
LEMMA NextIInv ==
    IInv /\ [Next]_vars => IInv'
<1> SUFFICES ASSUME IInv, [Next]_vars PROVE IInv'
  OBVIOUS
<1>1. ASSUME NEW l \in Label, AddPool(l) PROVE IInv'
  BY <1>1, AddPoolStep
<1>2. ASSUME NEW l \in Label, GetTicket(l) PROVE IInv'
  BY <1>2, GetTicketStep
<1>3. ASSUME NEW l \in Label, MissPool(l) PROVE IInv'
  BY <1>3, EndStep DEF MissPool
<1>4. ASSUME NEW t \in held, NEW d \in Datum, Store(t, d) PROVE IInv'
  BY <1>4, StoreStep
<1>5. ASSUME NEW t \in held, Recycle(t) PROVE IInv'
  BY <1>5, RecycleStep
<1>6. ASSUME NEW t \in held, Drop(t) PROVE IInv'
  BY <1>6, DropStep
<1>7. CASE OpenFile
  BY <1>7, OpenFileStep
<1>8. CASE WriteFile
  BY <1>8, WriteFileStep
<1>9. CASE Clear
  BY <1>9, ClearStep
<1>10. CASE LoadSubunit
  BY <1>10, LoadSubunitStep
<1>11. CASE Reload
  BY <1>11, ReloadStep
<1>12. CASE Crash
  BY <1>12, EndStep DEF Crash
<1>13. CASE Restart
  BY <1>13, RestartStep
<1>14. CASE UNCHANGED vars
  <2> USE DEF vars
  <2>1. TypeOK' /\ Blank(pools') /\ AtRest' /\ FileInv'
    BY <1>14 DEF IInv, TypeOK, AtRest, FileInv, Saved
  <2>2. KeyInv'
    <3>1. Stands' = Stands /\ Saved' = Saved /\ Loaded' = Loaded
      BY <1>14 DEF Stands, Unloaded, Loaded, OnFile, Saved
    <3> QED
      BY <1>14, <3>1 DEF IInv, KeyInv
  <2> QED
    BY <2>1, <2>2 DEF IInv
<1> QED
  BY <1>1, <1>2, <1>3, <1>4, <1>5, <1>6, <1>7, <1>8, <1>9, <1>10, <1>11, <1>12,
     <1>13, <1>14 DEF Next

\* What is in memory and in the file keeps its types: no index, generation or
\* cell outgrows its field however often the subunit is saved and loaded.
THEOREM TypeCorrect == Spec => []TypeOK
<1>1. IInv => TypeOK
  BY DEF IInv
<1> QED
  BY <1>1, InitIInv, NextIInv, PTL DEF Spec

-----------------------------------------------------------------------------
(* Ptrs to recycled columns. *)

\* The columns the Ptrs of the process are about: those in memory or, while the
\* subunit is unloaded, those of the file.  Without either there are none.
Standing ==
    IF Loaded THEN pools ELSE IF file = Torn THEN <<>> ELSE Saved

\* The generation of a column is that of the Ptr and one more for each time it
\* was recycled since, modulo GenMod, and that was less than GenMod times.
Tracked(c, t) ==
    LET n == life[<<t.pool, t.idx>>]
        g == c[t.pool].pool.gen[t.idx]
    IN  /\ t.pool \in DOMAIN c
        /\ t.life <= n /\ n < t.life + GenMod
        /\ g + t.life = t.gen + n \/ g + t.life + GenMod = t.gen + n

\* The Ptrs that are held have been tracked since they were handed out.
PtrInv ==
    /\ pc \in {"down", "hung"} => held = {}
    /\ Standing # <<>> => \A t \in held : Tracked(Standing, t)

\* A step under which the columns keep their generations, and each Ptr that is
\* held was held or is tracked from now on.
LEMMA KeepsTracked ==
    ASSUME IInv, PtrInv, SameGens(Standing, Standing'), life' = life,
           pc' \notin {"down", "hung"},
           Standing' # <<>> => Standing # <<>>,
           \A t \in held' \ held : Tracked(Standing, t)',
           held' \in SUBSET Ptr
    PROVE  PtrInv'
<1>1. SUFFICES ASSUME Standing' # <<>>, NEW t \in held' PROVE Tracked(Standing, t)'
  BY DEF PtrInv
<1>2. CASE t \in held
  <2>1. Tracked(Standing, t) /\ t.idx \in Column
    BY <1>1, <1>2 DEF PtrInv, IInv, TypeOK, Ptr
  <2> QED
    BY <2>1 DEF Tracked, SameGens
<1>3. CASE t \notin held
  BY <1>3
<1> QED
  BY <1>2, <1>3

\* getOrPutPool adds a pool; the others are where they were.
LEMMA AddPoolTracks ==
    ASSUME IInv, PtrInv, NEW l \in Label, AddPool(l)
    PROVE  PtrInv'
<1>1. /\ pools \in Content /\ pools' = AddedPool(pools, l) /\ pools # <<>>
      /\ held \in SUBSET Ptr /\ held' = held /\ life' = life /\ pc' = "up"
  BY DEF AddPool, Working, Loaded, FileUnchanged, IInv, TypeOK
<1>2. /\ Len(pools') = Len(pools) + 1 /\ pools' \in Content
      /\ \A p \in DOMAIN pools : pools'[p] = pools[p]
  BY <1>1, AddedFacts
<1>3. Standing = pools /\ Standing' = pools'
  <2>1. pools' # <<>>
    BY <1>1, <1>2 DEF Content
  <2> QED
    BY <1>1, <2>1 DEF Standing, Loaded
<1>4. DOMAIN pools \subseteq DOMAIN pools'
  BY <1>1, <1>2 DEF Content
<1> QED
  BY <1>1, <1>2, <1>3, <1>4, KeepsTracked DEF SameGens

\* A new Ptr has the generation of its column.
LEMMA GetTicketTracks ==
    ASSUME IInv, PtrInv, NEW l \in Label, GetTicket(l)
    PROVE  PtrInv'
<1>1. PICK p \in Found(l) \cap DOMAIN pools :
         /\ CanCreate(pools[p].pool)
         /\ pools' = Taken(pools, p)
         /\ held' = held \cup {[pool |-> p, idx |-> CreatedCol(pools[p].pool),
                                gen |-> pools[p].pool.gen[CreatedCol(pools[p].pool)],
                                life |-> life[<<p, CreatedCol(pools[p].pool)>>]]}
  BY DEF GetTicket
<1>2. /\ pools \in Content /\ pools # <<>> /\ life' = life /\ pc' = "up"
      /\ held' \in SUBSET Ptr /\ life \in Life
      /\ pools[p].pool \in Pool /\ pools' # <<>>
  <2>1. IInv'
    BY GetTicketStep
  <2>2. pools \in Content /\ pools # <<>>
    BY DEF GetTicket, Working, Loaded, IInv, TypeOK
  <2>3. Len(pools') = Len(pools)
    BY <1>1, <2>2, TakenFacts
  <2>4. pools[p].pool \in Pool
    <3>1. p \in DOMAIN pools
      BY <1>1
    <3>2. pools[p] \in NamedPool
      BY <2>2, <3>1 DEF Content
    <3> QED
      BY <3>2 DEF NamedPool
  <2>5. life' = life /\ pc' = "up" /\ life \in Life
    BY DEF GetTicket, Working, FileUnchanged, IInv, TypeOK
  <2>6. held' \in SUBSET Ptr /\ pools' \in Content
    BY <2>1 DEF IInv, TypeOK
  <2>7. pools' # <<>>
    BY <2>2, <2>3, <2>6 DEF Content
  <2> QED
    BY <2>2, <2>4, <2>5, <2>6, <2>7
<1>3. SameGens(pools, pools')
  BY <1>1, <1>2, TakenFacts
<1>4. Standing = pools /\ Standing' = pools'
  BY <1>2 DEF Standing, Loaded
<1>5. ASSUME NEW t \in held' \ held PROVE Tracked(Standing, t)'
  <2> DEFINE i == CreatedCol(pools[p].pool)
  <2>1. i \in Column
    BY <1>1, <1>2, CreateTyped
  <2>2. /\ t.pool = p /\ t.idx = i
        /\ t.gen = pools[p].pool.gen[i] /\ t.life = life[<<p, i>>]
    BY <1>1, <1>5
  <2>3. life[<<p, i>>] \in Nat /\ p \in DOMAIN pools'
    <3>1. t \in Ptr
      BY <1>2, <1>5
    <3> QED
      BY <2>2, <3>1, <1>3, <1>1 DEF Ptr, SameGens
  <2>4. pools'[p].pool.gen[i] = pools[p].pool.gen[i] /\ pools[p].pool.gen[i] \in Nat
    BY <1>1, <1>2, <1>3, <2>1 DEF SameGens, Pool, Gen
  <2> HIDE DEF i
  <2> QED
    BY <1>2, <1>4, <2>2, <2>3, <2>4, GenModAssumption DEF Tracked
<1> QED
  BY <1>2, <1>3, <1>4, <1>5, KeepsTracked

\* Storing bumps nothing.
LEMMA StoreTracks ==
    ASSUME IInv, PtrInv, NEW t \in held, NEW d \in Datum, Store(t, d)
    PROVE  PtrInv'
<1>1. /\ pools \in Content /\ pools # <<>> /\ pc' = "up"
      /\ held' = held /\ life' = life /\ held' \in SUBSET Ptr
  BY DEF Store, Working, Loaded, FileUnchanged, IInv, TypeOK
<1>2. /\ t.pool \in DOMAIN pools /\ t.idx \in Column
      /\ t.idx < pools[t.pool].pool.made
      /\ pools' = Stored(pools, t.pool, t.idx, d)
  BY DEF Store, GenMatches, InBounds, IInv, TypeOK, Ptr
<1>3. SameGens(pools, pools') /\ pools' \in Content /\ Len(pools') = Len(pools)
  BY <1>1, <1>2, StoredFacts
<1>4. Standing = pools /\ Standing' = pools'
  <2>1. pools' # <<>>
    BY <1>1, <1>3 DEF Content
  <2> QED
    BY <1>1, <2>1 DEF Standing, Loaded
<1> QED
  BY <1>1, <1>3, <1>4, KeepsTracked

\* Recycling is the one step that bumps, and it counts what it bumps: the Ptrs
\* to the column go stale together, and none of them as often as GenMod.
LEMMA RecycleTracks ==
    ASSUME IInv, PtrInv, NEW s \in held, Recycle(s)
    PROVE  PtrInv'
<1>1. /\ pools \in Content /\ pools # <<>> /\ pc' = "up"
      /\ held' = held /\ held \in SUBSET Ptr /\ life \in Life
      /\ FreshEnough(s)
  BY DEF Recycle, Working, Loaded, FileUnchanged, IInv, TypeOK
<1>2. /\ s.pool \in DOMAIN pools /\ s.idx \in Column /\ s.pool \in Index
      /\ s.idx < pools[s.pool].pool.made
      /\ s.idx \notin FreeCols(pools[s.pool].pool)
      /\ pools' = Recycled(pools, s.pool, s.idx)
      /\ life' = [life EXCEPT ![<<s.pool, s.idx>>] = life[<<s.pool, s.idx>>] + 1]
  BY DEF Recycle, GenMatches, InBounds, IInv, TypeOK, Ptr
<1>3. /\ \A p \in DOMAIN pools, i \in Column : <<p, i>> # <<s.pool, s.idx>> =>
             pools'[p].pool.gen[i] = pools[p].pool.gen[i]
      /\ pools'[s.pool].pool.gen[s.idx] = NextGen(pools[s.pool].pool.gen[s.idx])
      /\ DOMAIN pools' = DOMAIN pools
  BY <1>1, <1>2, RecycledFacts DEF SameLabels
<1>4. Standing = pools /\ Standing' = pools'
  <2>1. pools' # <<>>
    BY <1>1, <1>3
  <2> QED
    BY <1>1, <2>1 DEF Standing, Loaded
<1>5. SUFFICES ASSUME NEW t \in held PROVE Tracked(Standing, t)'
  BY <1>1 DEF PtrInv
<1>6. /\ t.pool \in Index /\ t.idx \in Column /\ t.gen \in Gen /\ t.life \in Nat
      /\ Tracked(pools, t)
  BY <1>1, <1>4, <1>5 DEF Ptr, PtrInv
<1> DEFINE n == life[<<t.pool, t.idx>>]
           g == pools[t.pool].pool.gen[t.idx]
<1>7. n \in Nat /\ g \in Gen
  <2>1. pools[t.pool] \in NamedPool
    BY <1>1, <1>6 DEF Content, Tracked
  <2> QED
    BY <1>1, <1>6, <2>1 DEF NamedPool, Pool, Life
<1>8. /\ t.pool \in DOMAIN pools /\ t.life <= n /\ n < t.life + GenMod
      /\ g + t.life = t.gen + n \/ g + t.life + GenMod = t.gen + n
  BY <1>6 DEF Tracked
<1>9. CASE <<t.pool, t.idx>> = <<s.pool, s.idx>>
  <2>1. /\ life'[<<t.pool, t.idx>>] = n + 1
        /\ pools'[t.pool].pool.gen[t.idx] = NextGen(g)
        /\ t.pool \in DOMAIN pools'
    BY <1>1, <1>2, <1>3, <1>6, <1>8, <1>9 DEF Life
  <2>2. n + 1 < t.life + GenMod
    BY <1>1, <1>5, <1>9 DEF FreshEnough
  <2> HIDE DEF n, g
  <2>3. \/ NextGen(g) + t.life = t.gen + (n + 1)
        \/ NextGen(g) + t.life + GenMod = t.gen + (n + 1)
    BY <1>6, <1>7, <1>8, <2>2, GenModAssumption DEF NextGen, Gen
  <2> QED
    BY <1>4, <1>6, <1>7, <1>8, <2>1, <2>2, <2>3, GenModAssumption DEF Tracked
<1>10. CASE <<t.pool, t.idx>> # <<s.pool, s.idx>>
  <2>1. /\ life'[<<t.pool, t.idx>>] = n
        /\ pools'[t.pool].pool.gen[t.idx] = g
        /\ t.pool \in DOMAIN pools'
    BY <1>1, <1>2, <1>3, <1>6, <1>8, <1>10 DEF Life
  <2> HIDE DEF n, g
  <2> QED
    BY <1>4, <1>8, <2>1 DEF Tracked
<1> QED
  BY <1>9, <1>10

\* Saving keeps what stands; saving a subunit that is not loaded leaves nothing.
LEMMA SaveTracks ==
    ASSUME IInv, PtrInv, OpenFile \/ WriteFile
    PROVE  PtrInv'
<1>1. /\ UNCHANGED <<pools, held, life>> /\ held \in SUBSET Ptr
      /\ pc' \notin {"down", "hung"}
  BY DEF OpenFile, WriteFile, IInv, TypeOK
<1>2. CASE Loaded
  <2>1. Standing = pools /\ Standing' = pools
    BY <1>1, <1>2 DEF Standing, Loaded
  <2> QED
    BY <1>1, <2>1, KeepsTracked DEF SameGens
<1>3. CASE ~Loaded
  <2>1. CASE OpenFile
    BY <1>1, <1>3, <2>1 DEF OpenFile, Standing, Loaded, PtrInv
  <2>2. CASE WriteFile
    <3>1. ReadPools(file'.pools) = pools
      BY <2>2, WrittenFile DEF WriteFile, IInv, TypeOK
    <3> QED
      BY <1>1, <1>3, <3>1 DEF Standing, Loaded, PtrInv, Saved
  <2> QED
    BY <2>1, <2>2
<1> QED
  BY <1>2, <1>3

\* The end of bounce, and the load after it, bring back the columns written.
LEMMA LoadTracks ==
    ASSUME IInv, PtrInv, Clear \/ LoadSubunit
    PROVE  PtrInv'
<1>1. /\ UNCHANGED <<file, held, life>> /\ held \in SUBSET Ptr
      /\ pc' \notin {"down", "hung"} /\ file # Torn
  BY DEF Clear, LoadSubunit, FileUnchanged, IInv, TypeOK, FileInv
<1>2. Standing' = Standing
  <2>1. CASE Clear
    BY <1>1, <2>1 DEF Clear, Standing, Loaded, Saved, IInv, FileInv
  <2>2. CASE LoadSubunit
    BY <1>1, <2>2 DEF LoadSubunit, Load, LoadedPools, Standing, Loaded, Saved
  <2> QED
    BY <2>1, <2>2
<1> QED
  BY <1>1, <1>2, KeepsTracked DEF SameGens

\* A reload either changes nothing or takes the Ptrs with it.
LEMMA ReloadTracks ==
    ASSUME IInv, PtrInv, Reload
    PROVE  PtrInv'
<1>1. /\ pc' = "up" /\ held \in SUBSET Ptr /\ Loaded
      /\ pools' = ReadPools(file.pools)
  BY DEF Reload, Load, LoadedPools, IInv, TypeOK
<1>2. CASE pools = ReadPools(file.pools)
  <2>1. UNCHANGED <<pools, held, life>>
    BY <1>1, <1>2 DEF Reload
  <2>2. Standing' = Standing
    BY <1>1, <2>1 DEF Standing, Loaded
  <2> QED
    BY <1>1, <2>1, <2>2, KeepsTracked DEF SameGens
<1>3. CASE pools # ReadPools(file.pools)
  BY <1>1, <1>3 DEF Reload, PtrInv
<1> QED
  BY <1>2, <1>3

\* Every step keeps track of the Ptrs that are held.
LEMMA NextPtrInv ==
    IInv /\ PtrInv /\ [Next]_vars => PtrInv'
<1> SUFFICES ASSUME IInv, PtrInv, [Next]_vars PROVE PtrInv'
  OBVIOUS
<1>1. ASSUME NEW l \in Label, AddPool(l) \/ GetTicket(l) PROVE PtrInv'
  BY <1>1, AddPoolTracks, GetTicketTracks
<1>2. ASSUME NEW l \in Label, MissPool(l) PROVE PtrInv'
  BY <1>2 DEF MissPool, PtrInv
<1>3. ASSUME NEW t \in held, NEW d \in Datum, Store(t, d) PROVE PtrInv'
  BY <1>3, StoreTracks
<1>4. ASSUME NEW t \in held, Recycle(t) PROVE PtrInv'
  BY <1>4, RecycleTracks
<1>5. ASSUME NEW t \in held, Drop(t) PROVE PtrInv'
  <2>1. /\ pools' = pools /\ pools # <<>> /\ life' = life /\ pc' = "up"
        /\ held' \subseteq held /\ held' \in SUBSET Ptr
    BY <1>5 DEF Drop, Working, Loaded, FileUnchanged, IInv, TypeOK
  <2>2. Standing' = Standing
    BY <2>1 DEF Standing, Loaded
  <2> QED
    BY <2>1, <2>2, KeepsTracked DEF SameGens
<1>6. CASE OpenFile \/ WriteFile
  BY <1>6, SaveTracks
<1>7. CASE Clear \/ LoadSubunit
  BY <1>7, LoadTracks
<1>8. CASE Reload
  BY <1>8, ReloadTracks
<1>9. CASE Crash
  BY <1>9 DEF Crash, PtrInv
<1>10. CASE Restart
  BY <1>10 DEF Restart, PtrInv
<1>11. CASE UNCHANGED vars
  <2>1. Standing' = Standing /\ held' = held /\ life' = life /\ pc' = pc
    BY <1>11 DEF vars, Standing, Loaded, Saved
  <2> QED
    BY <2>1 DEF PtrInv, Tracked
<1> QED
  BY <1>1, <1>2, <1>3, <1>4, <1>5, <1>6, <1>7, <1>8, <1>9, <1>10, <1>11 DEF Next

\* A Ptr whose generation matches is one whose column was never recycled.
LEMMA TrackedCurrent ==
    IInv /\ PtrInv => StaleStaysStale
<1> SUFFICES ASSUME IInv, PtrInv, Working, NEW t \in held, GenMatches(t)
             PROVE  Current(t)
  BY DEF StaleStaysStale
<1>1. Tracked(pools, t)
  BY DEF PtrInv, Working, Loaded, Standing
<1>2. t.gen \in Gen /\ t.life \in Nat /\ life[<<t.pool, t.idx>>] \in Nat
  BY DEF IInv, TypeOK, Ptr, Life
<1> QED
  BY <1>1, <1>2, GenModAssumption DEF Tracked, GenMatches, Current, Gen

\* However often a subunit is bounced and loaded again, the generation a Ptr
\* carries matches only the column it was handed out for: snapshots keep the
\* generations, and no Ptr outlives GenMod recyclings of its column.
THEOREM StaysStale == Spec => []StaleStaysStale
<1>1. Init => PtrInv
  BY DEF Init, PtrInv
<1>2. IInv /\ PtrInv => StaleStaysStale
  BY TrackedCurrent
<1> QED
  BY <1>1, <1>2, InitIInv, NextIInv, NextPtrInv, PTL DEF Spec

-----------------------------------------------------------------------------
(* The refinement of SubunitStore. *)

USE DEF Subunit!Next, Subunit!Work, Subunit!AddPool, Subunit!Take, Subunit!BeginSave,
        Subunit!EndSave, Subunit!Reload, Subunit!Crash, Subunit!Restart,
        Subunit!Break, Subunit!Broken, Subunit!vars

\* The instance reads the operations on a content as they are.
LEMMA SameOperations ==
    /\ Subunit!Content = Content /\ Subunit!Column = Column
    /\ \A c, l : /\ Subunit!HasLabel(c, l) = HasLabel(c, l)
                 /\ Subunit!AddedPool(c, l) = AddedPool(c, l)
    /\ \A q : Subunit!CanCreate(q) = CanCreate(q)
    /\ \A c, p : Subunit!Taken(c, p) = Taken(c, p)
    /\ \A c, p, i : Subunit!Recycled(c, p, i) = Recycled(c, p, i)
    /\ \A c, p, i, d : Subunit!Stored(c, p, i, d) = Stored(c, p, i, d)
<1>1. /\ Subunit!Content = Content /\ Subunit!Column = Column
  BY DEF Subunit!Content, Content, Subunit!NamedPool, NamedPool, Subunit!Pool, Pool,
         Subunit!Column, Column, Subunit!Gen, Gen
<1>2. \A c, l : /\ Subunit!HasLabel(c, l) = HasLabel(c, l)
                /\ Subunit!AddedPool(c, l) = AddedPool(c, l)
  BY <1>1 DEF Subunit!HasLabel, HasLabel, Subunit!AddedPool, AddedPool,
              Subunit!EmptyPool, EmptyPool
<1>3. \A q : Subunit!CanCreate(q) = CanCreate(q)
  BY DEF Subunit!CanCreate, CanCreate
<1>4. \A c, p : Subunit!Taken(c, p) = Taken(c, p)
  <2>1. \A q : Subunit!CreatedCol(q) = CreatedCol(q) /\ Subunit!Create(q) = Create(q)
    BY DEF Subunit!CreatedCol, CreatedCol, Subunit!Create, Create,
           Subunit!Last, Last, Subunit!Front, Front
  <2> TAKE c, p
  <2>2. /\ Subunit!CreatedCol(c[p].pool) = CreatedCol(c[p].pool)
        /\ Subunit!Create(c[p].pool) = Create(c[p].pool)
    BY <2>1
  <2> QED
    BY <2>2 DEF Subunit!Taken, Taken
<1>5. \A c, p, i : Subunit!Recycled(c, p, i) = Recycled(c, p, i)
  <2>1. \A q, i : Subunit!RecycleCol(q, i) = RecycleCol(q, i)
    <3>1. \A g : Subunit!NextGen(g) = NextGen(g)
      BY DEF Subunit!NextGen, NextGen
    <3>2. \A q : Subunit!FreeCols(q) = FreeCols(q)
      BY DEF Subunit!FreeCols, FreeCols, Subunit!Range, Range
    <3> TAKE q, i
    <3>3. Subunit!NextGen(q.gen[i]) = NextGen(q.gen[i]) /\ Subunit!FreeCols(q) = FreeCols(q)
      BY <3>1, <3>2
    <3> QED
      BY <3>3 DEF Subunit!RecycleCol, RecycleCol
  <2> TAKE c, p, i
  <2>2. Subunit!RecycleCol(c[p].pool, i) = RecycleCol(c[p].pool, i)
    BY <2>1
  <2> QED
    BY <2>2 DEF Subunit!Recycled, Recycled
<1>6. \A c, p, i, d : Subunit!Stored(c, p, i, d) = Stored(c, p, i, d)
  BY DEF Subunit!Stored, Stored
<1> QED
  BY <1>1, <1>2, <1>3, <1>4, <1>5, <1>6

\* What the mapping makes of a step of work: only the content changes.
LEMMA WorkMaps ==
    ASSUME Working, FileUnchanged, pools' # <<>>
    PROVE  /\ Stands = pools /\ Stands' = pools'
           /\ pc \notin {"down", "hung"}
           /\ UNCHANGED <<OnFile, pc, broken>>
BY DEF Working, FileUnchanged, Stands, Unloaded, Loaded, OnFile

\* While nothing is broken a label is added once.
LEMMA AddPoolMaps ==
    ASSUME IInv, NEW l \in Label, AddPool(l)
    PROVE  Subunit!Next
<1>1. pools \in Content /\ Working /\ FileUnchanged
  BY DEF IInv, TypeOK, AddPool
<1>2. pools' = AddedPool(pools, l) /\ pools' # <<>>
  BY <1>1 DEF AddPool, AddedPool, Content
<1>3. CASE ~broken
  <2>1. keys = KeysOf(pools)
    BY <1>1, <1>3, <1>2, WorkMaps DEF IInv, KeyInv, Working
  <2>2. ~HasLabel(pools, l)
    <3>1. \A p \in DOMAIN pools : <<pools[p].label, p>> \in keys
      BY <2>1 DEF KeysOf
    <3>2. \A k \in keys : k[1] # l
      BY DEF AddPool, Found
    <3> QED
      BY <3>1, <3>2 DEF HasLabel
  <2> QED
    BY <1>1, <1>2, <2>2, WorkMaps, SameOperations
<1>4. CASE broken
  BY <1>1, <1>4 DEF FileUnchanged
<1> QED
  BY <1>3, <1>4

\* While nothing is broken a ticket comes from the pool of its label.
LEMMA GetTicketMaps ==
    ASSUME IInv, NEW l \in Label, GetTicket(l)
    PROVE  Subunit!Next
<1>1. pools \in Content /\ Working /\ FileUnchanged
  BY DEF IInv, TypeOK, GetTicket
<1>2. PICK p \in Found(l) \cap DOMAIN pools :
        CanCreate(pools[p].pool) /\ pools' = Taken(pools, p)
  BY DEF GetTicket
<1>3. pools' # <<>>
  BY <1>1, <1>2, TakenFacts DEF Content, SameLabels
<1>4. CASE ~broken
  <2>1. keys = KeysOf(pools)
    BY <1>1, <1>3, <1>4, WorkMaps DEF IInv, KeyInv, Working
  <2>2. pools[p].label = l
    BY <1>2, <2>1 DEF Found, KeysOf
  <2> QED
    BY <1>1, <1>2, <1>3, <2>2, WorkMaps, SameOperations
<1>5. CASE broken
  BY <1>1, <1>5 DEF FileUnchanged
<1> QED
  BY <1>4, <1>5

\* A store is one of the store's.
LEMMA StoreMaps ==
    ASSUME IInv, NEW t \in held, NEW d \in Datum, Store(t, d)
    PROVE  Subunit!Next
<1>1. /\ pools \in Content /\ Working /\ FileUnchanged
      /\ t.pool \in DOMAIN pools /\ t.idx \in Column
      /\ t.idx < pools[t.pool].pool.made
      /\ pools' = Stored(pools, t.pool, t.idx, d)
  BY DEF IInv, TypeOK, Store, GenMatches, InBounds, Ptr
<1>2. pools' # <<>>
  BY <1>1, StoredFacts DEF Content, SameLabels
<1> QED
  BY <1>1, <1>2, WorkMaps, SameOperations

\* A recycling is one of the store's.
LEMMA RecycleMaps ==
    ASSUME IInv, NEW t \in held, Recycle(t)
    PROVE  Subunit!Next
<1>1. /\ pools \in Content /\ Working /\ FileUnchanged
      /\ t.pool \in DOMAIN pools /\ t.idx \in Column
      /\ t.idx < pools[t.pool].pool.made
      /\ pools' = Recycled(pools, t.pool, t.idx)
  BY DEF IInv, TypeOK, Recycle, GenMatches, InBounds, Ptr
<1>2. pools' # <<>>
  BY <1>1, RecycledFacts DEF Content, SameLabels
<1> QED
  BY <1>1, <1>2, WorkMaps, SameOperations

\* Truncation begins a save, and breaks a subunit that is not loaded.
LEMMA OpenFileMaps ==
    ASSUME IInv, OpenFile
    PROVE  Subunit!Next
<1>1. OnFile' = Torn /\ pc \notin {"down", "hung"} /\ pc' \notin {"down", "hung"}
  BY DEF OpenFile, OnFile
<1>2. CASE Loaded
  <2>1. Stands = pools /\ Stands' = pools
    BY <1>2 DEF OpenFile, Stands, Unloaded, Loaded
  <2>2. broken' = broken
    <3>1. broken' = (broken \/ ~Loaded) /\ broken \in BOOLEAN
      BY DEF OpenFile, IInv, TypeOK
    <3> QED
      BY <1>2, <3>1
  <2> QED
    BY <1>1, <2>1, <2>2
<1>3. CASE ~Loaded
  BY <1>1, <1>3 DEF OpenFile
<1> QED
  BY <1>2, <1>3

\* The last byte ends a save.
LEMMA WriteFileMaps ==
    ASSUME IInv, WriteFile
    PROVE  Subunit!Next
<1>1. file = Torn /\ OnFile = Torn
  BY DEF IInv, FileInv, WriteFile, OnFile
<1>2. OnFile' = pools
  <2>1. file' # Torn /\ ReadPools(file'.pools) = pools
    BY WrittenFile DEF IInv, TypeOK, WriteFile
  <2> QED
    BY <2>1 DEF OnFile
<1>3. Stands = pools /\ Stands' = pools
  BY <1>2 DEF WriteFile, Stands, Unloaded
<1> QED
  BY <1>1, <1>2, <1>3 DEF WriteFile

\* The end of bounce and the load of an unloaded subunit do not show.
LEMMA UnloadMaps ==
    ASSUME IInv, Clear \/ LoadSubunit
    PROVE  UNCHANGED Subunit!vars
<1>1. CASE Clear
  BY <1>1 DEF IInv, FileInv, Clear, Stands, Unloaded, Loaded, OnFile, Saved
<1>2. CASE LoadSubunit
  BY <1>2 DEF IInv, FileInv, LoadSubunit, FileUnchanged, Load, LoadedPools, Stands,
              Unloaded, Loaded, OnFile
<1> QED
  BY <1>1, <1>2

\* A reload goes back to what was saved, and may break the subunit.
LEMMA ReloadMaps ==
    ASSUME IInv, Reload
    PROVE  Subunit!Next
<1>1. /\ file # Torn /\ file' = file /\ pc' = pc
      /\ pc \notin {"down", "hung"} /\ OnFile' = OnFile /\ OnFile = Saved /\ OnFile # Torn
  <2>1. file # Torn /\ file \in Snapshot
    BY DEF IInv, TypeOK, FileInv, Reload
  <2>2. Saved # Torn
    BY <2>1, ReadFile, TornAssumption DEF Saved
  <2> QED
    BY <2>1, <2>2 DEF Reload, OnFile, Saved
<1>2. Stands' = OnFile
  BY <1>1 DEF Reload, Load, LoadedPools, Saved, Stands, Unloaded, Loaded, OnFile
<1>3. broken \in BOOLEAN /\ broken' \in BOOLEAN /\ (broken => broken')
  <2>1. broken \in BOOLEAN /\ broken' = (broken \/ Len(pools) > Len(file.pools))
    BY DEF IInv, TypeOK, Reload
  <2> QED
    BY <2>1, Zenon
<1>4. CASE broken' = broken
  BY <1>1, <1>2, <1>4
<1>5. CASE broken' # broken
  BY <1>1, <1>3, <1>5
<1> QED
  BY <1>4, <1>5

\* The end of the process, which shows unless there was none to speak of.
LEMMA EndMaps ==
    ASSUME IInv, pc' = "down", UNCHANGED <<file, broken>>
    PROVE  Subunit!Next \/ UNCHANGED Subunit!vars
<1>1. Stands' = OnFile /\ OnFile' = OnFile
  BY DEF Stands, OnFile
<1>2. CASE pc \in {"down", "hung"}
  BY <1>1, <1>2 DEF Stands
<1>3. CASE pc \notin {"down", "hung"}
  BY <1>1, <1>3
<1> QED
  BY <1>2, <1>3

\* A restart starts from what was saved, or hangs on a torn file.
LEMMA RestartMaps ==
    ASSUME IInv, Restart
    PROVE  Subunit!Next \/ UNCHANGED Subunit!vars
<1>1. Stands = OnFile /\ OnFile' = OnFile
  BY DEF Restart, Stands, OnFile
<1>2. CASE file = Torn
  BY <1>1, <1>2 DEF Restart, Stands
<1>3. CASE file # Torn
  <2>1. Stands' = OnFile
    BY <1>1, <1>3 DEF Restart, Load, LoadedPools, Stands, Unloaded, Loaded, OnFile
  <2>2. OnFile # Torn
    BY <1>3, ReadFile, TornAssumption DEF IInv, TypeOK, OnFile
  <2> QED
    BY <1>1, <1>3, <2>1, <2>2 DEF Restart
<1> QED
  BY <1>2, <1>3

\* At first there is no process and the file holds the base.
LEMMA InitMaps ==
    Init => Subunit!Init
<1> SUFFICES ASSUME Init PROVE Subunit!Init
  OBVIOUS
<1>1. OnFile = Base
  BY BaseAssumption, KeysOfType, WrittenFile DEF Init, OnFile
<1> QED
  BY <1>1, BaseAssumption, SameOperations DEF Init, Subunit!Init, Stands

\* Every step maps to a step of the store or to none.
LEMMA NextMaps ==
    IInv /\ [Next]_vars => [Subunit!Next]_(Subunit!vars)
<1> SUFFICES ASSUME IInv, [Next]_vars
             PROVE  Subunit!Next \/ UNCHANGED Subunit!vars
  OBVIOUS
<1>1. ASSUME NEW l \in Label, AddPool(l) \/ GetTicket(l) PROVE Subunit!Next
  BY <1>1, AddPoolMaps, GetTicketMaps
<1>2. ASSUME NEW l \in Label, MissPool(l)
      PROVE  Subunit!Next \/ UNCHANGED Subunit!vars
  BY <1>2, EndMaps DEF MissPool
<1>3. ASSUME NEW t \in held, NEW d \in Datum, Store(t, d) PROVE Subunit!Next
  BY <1>3, StoreMaps
<1>4. ASSUME NEW t \in held, Recycle(t) PROVE Subunit!Next
  BY <1>4, RecycleMaps
<1>5. ASSUME NEW t \in held, Drop(t) PROVE UNCHANGED Subunit!vars
  BY <1>5 DEF Drop, FileUnchanged, Stands, Unloaded, Loaded, OnFile
<1>6. CASE OpenFile
  BY <1>6, OpenFileMaps
<1>7. CASE WriteFile
  BY <1>7, WriteFileMaps
<1>8. CASE Clear \/ LoadSubunit
  BY <1>8, UnloadMaps
<1>9. CASE Reload
  BY <1>9, ReloadMaps
<1>10. CASE Crash
  BY <1>10, EndMaps DEF Crash
<1>11. CASE Restart
  BY <1>11, RestartMaps
<1>12. CASE UNCHANGED vars
  BY <1>12 DEF vars, Stands, Unloaded, Loaded, OnFile
<1> QED
  BY <1>1, <1>2, <1>3, <1>4, <1>5, <1>6, <1>7, <1>8, <1>9, <1>10, <1>11, <1>12 DEF Next

HIDE DEF Subunit!Next, Subunit!vars

\* Subunits keep what SubunitStore promises: bounce and load are invisible,
\* a save outlives the process, and only the writing of the file risks it.
THEOREM Implements == Spec => ImplementsStore
<1>1. Init => Subunit!Init
  BY InitMaps
<1>2. IInv /\ [Next]_vars => [Subunit!Next]_(Subunit!vars)
  BY NextMaps
<1> QED
  BY <1>1, <1>2, InitIInv, NextIInv, PTL DEF Spec, ImplementsStore, Subunit!Spec
=============================================================================
