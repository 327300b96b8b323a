---------------------------- MODULE ScopingProofs ----------------------------
(***************************************************************************)
(* Proofs about Scoping, for every program, balanced or not, and every     *)
(* assignment of binding powers: the compiler keeps each node in one list  *)
(* of children or of scopes, and in_scope is the innermost scope the node  *)
(* is under.                                                               *)
(*                                                                         *)
(* The argument has four layers.  First, the lists as a forest: what moves *)
(* nodes leaves a forest if no node goes below itself, and every handler   *)
(* is made of a few such moves.  Second, the walks that find where a       *)
(* handler moves its nodes, down right edges, through scopes and along     *)
(* chains of ifs: they end below where they began, which keeps a node from *)
(* going below itself.  They are recursive functions over a forest, and    *)
(* well defined because it has no cycles.  Third, the stack of passes: a   *)
(* handler changes lists below the node its pass is over only, so that the *)
(* passes that wait are still where they were.  Last, the invariant of all *)
(* that, one lemma for each handler, and the properties that follow.       *)
(***************************************************************************)
EXTENDS Scoping, TLAPS, WellFoundedInduction, FiniteSetTheorems, SequenceTheorems

-----------------------------------------------------------------------------
(* Forests: graphs of children without cycles in which no node has two
   parents. *)

\* The graphs: the children of each node.
Edges0 == [Nat -> SUBSET Nat]

\* Every set of nodes has one whose children are not in it.
Acyclic(e) == \A X \in SUBSET Nat : X # {} => \E x \in X : e[x] \cap X = {}

\* No node is a child of two.
OneParent(e) == \A p, q \in Nat : e[p] \cap e[q] # {} => p = q

\* The two, with 0 for the list of roots, which is nobody's child.
Forest(e) == e \in Edges0 /\ Acyclic(e) /\ OneParent(e) /\ \A p \in Nat : 0 \notin e[p]

\* A set with the children of all it has.
DownClosed(e, S) == \A x \in S : e[x] \subseteq S

\* The nodes below n, n among them, as the least such set that has n.
Below(e, n) == {m \in Nat : \A S \in SUBSET Nat : n \in S /\ DownClosed(e, S) => m \in S}

\* What is below a node contains the node, only nodes, and the children of all it
\* contains.
LEMMA BelowFacts ==
    ASSUME NEW e \in Edges0, NEW n \in Nat
    PROVE  n \in Below(e, n) /\ Below(e, n) \subseteq Nat /\ DownClosed(e, Below(e, n))
  BY Zenon DEF Below, DownClosed, Edges0

\* Every set that contains a node and the children of all it contains has what is below
\* the node.
LEMMA BelowLeast ==
    ASSUME NEW e \in Edges0, NEW n \in Nat, NEW S \in SUBSET Nat, n \in S, DownClosed(e, S)
    PROVE  Below(e, n) \subseteq S
  BY DEF Below

\* A child is below its parent, and so is all that is below the child.
LEMMA BelowChild ==
    ASSUME NEW e \in Edges0, NEW n \in Nat, NEW c \in e[n]
    PROVE  c \in Below(e, n) /\ c \in Nat /\ Below(e, c) \subseteq Below(e, n)
  <1>1. c \in Below(e, n) /\ c \in Nat
    BY BelowFacts DEF DownClosed, Edges0
  <1> QED
    BY <1>1, BelowFacts, BelowLeast

\* Below n is n and what is below its children.
LEMMA BelowSplit ==
    ASSUME NEW e \in Edges0, NEW n \in Nat, NEW m \in Below(e, n), m # n
    PROVE  \E c \in e[n] : m \in Below(e, c)
  <1> DEFINE S == {n} \cup UNION {Below(e, c) : c \in e[n]}
  <1>1. S \subseteq Nat
    BY BelowFacts DEF Edges0
  <1>2. DownClosed(e, S)
    <2> SUFFICES ASSUME NEW x \in S, NEW y \in e[x]
                 PROVE  y \in S
      BY DEF DownClosed
    <2>1. CASE x = n
      BY <2>1, BelowFacts, <1>1 DEF Edges0
    <2>2. CASE x # n
      <3>1. PICK c \in e[n] : x \in Below(e, c)
        BY <2>2
      <3>2. c \in Nat
        BY DEF Edges0
      <3>3. y \in Below(e, c)
        BY <3>1, <3>2, BelowFacts DEF DownClosed
      <3> QED
        BY <3>3
    <2> QED
      BY <2>1, <2>2
  <1>3. m \in S
    BY <1>1, <1>2, BelowLeast
  <1> QED
    BY <1>3

\* Nothing is below its own child.
LEMMA NotBelowChild ==
    ASSUME NEW e \in Edges0, Acyclic(e), NEW p \in Nat, NEW n \in e[p]
    PROVE  p \notin Below(e, n)
  <1> SUFFICES ASSUME p \in Below(e, n)
               PROVE  FALSE
    OBVIOUS
  <1>n. n \in Nat
    BY DEF Edges0
  <1> DEFINE X == {x \in Below(e, n) : p \in Below(e, x)}
  <1>1. X \in SUBSET Nat /\ n \in X
    BY <1>n, BelowFacts
  <1>2. PICK x \in X : e[x] \cap X = {}
    BY <1>1 DEF Acyclic
  <1>3. x \in Nat
    BY <1>1
  <1>4. CASE x = p
    BY <1>4, <1>2, <1>1
  <1>5. CASE x # p
    <2>1. PICK c \in e[x] : p \in Below(e, c)
      BY <1>3, <1>5, BelowSplit
    <2>2. c \in Below(e, n)
      BY <1>n, BelowFacts DEF DownClosed
    <2> QED
      BY <2>1, <2>2, <1>2
  <1> QED
    BY <1>4, <1>5

\* The parent of what is below n, but not n, is below n.
LEMMA BelowParent ==
    ASSUME NEW e \in Edges0, OneParent(e), NEW n \in Nat, NEW m \in Below(e, n), m # n,
           NEW q \in Nat, m \in e[q]
    PROVE  q \in Below(e, n)
  <1> DEFINE S == {x \in Below(e, n) : x = n \/ \A r \in Nat : x \in e[r] => r \in Below(e, n)}
  <1>1. S \in SUBSET Nat /\ n \in S
    BY BelowFacts
  <1>2. DownClosed(e, S)
    <2> SUFFICES ASSUME NEW x \in S, NEW y \in e[x]
                 PROVE  y \in S
      BY DEF DownClosed
    <2>1. y \in Below(e, n) /\ x \in Nat
      BY BelowFacts DEF DownClosed
    <2>2. ASSUME NEW r \in Nat, y \in e[r] PROVE r \in Below(e, n)
      <3>1. e[r] \cap e[x] # {}
        BY <2>2
      <3> QED
        BY <2>1, <3>1 DEF OneParent
    <2> QED
      BY <2>1, <2>2
  <1> HIDE DEF S
  <1>3. m \in S
    BY <1>1, <1>2, BelowLeast
  <1> QED
    BY <1>3 DEF S

\* Siblings have nothing below both.
LEMMA SiblingsApart ==
    ASSUME NEW e, Forest(e), NEW p \in Nat, NEW a \in e[p], NEW b \in e[p], a # b
    PROVE  Below(e, a) \cap Below(e, b) = {}
  <1>1. e \in Edges0 /\ Acyclic(e) /\ OneParent(e) /\ a \in Nat /\ b \in Nat
    BY DEF Forest, Edges0
  <1>2. p \notin Below(e, a) /\ p \notin Below(e, b)
    BY <1>1, NotBelowChild
  <1> DEFINE S == Below(e, a) \ Below(e, b)
  <1>3. S \in SUBSET Nat /\ a \in S
    BY <1>1, <1>2, BelowFacts, BelowParent
  <1>4. DownClosed(e, S)
    <2> SUFFICES ASSUME NEW x \in S, NEW y \in e[x], y \in Below(e, b)
                 PROVE  FALSE
      BY <1>1, BelowFacts DEF DownClosed
    <2>1. x \in Nat
      BY <1>3
    <2>2. CASE y = b
      <3>1. e[x] \cap e[p] # {}
        BY <2>2
      <3> QED
        BY <2>1, <3>1, <1>1, <1>2 DEF OneParent
    <2>3. CASE y # b
      BY <2>1, <2>3, <1>1, BelowParent
    <2> QED
      BY <2>2, <2>3
  <1> HIDE DEF S
  <1>5. Below(e, a) \subseteq S
    BY <1>1, <1>3, <1>4, BelowLeast
  <1> QED
    BY <1>5 DEF S

\* A part that is closed below may be hung in wherever it is not: no cycle comes of it.
LEMMA Graft ==
    ASSUME NEW e \in Edges0, Acyclic(e), NEW f \in Edges0, NEW G \in SUBSET Nat, DownClosed(e, G),
           \A x \in G : f[x] \subseteq e[x],
           \A x \in Nat \ G : f[x] \subseteq e[x] \cup G
    PROVE  Acyclic(f)
  <1> SUFFICES ASSUME NEW X \in SUBSET Nat, X # {}
               PROVE  \E x \in X : f[x] \cap X = {}
    BY DEF Acyclic
  <1>1. CASE X \cap G # {}
    <2>1. PICK x \in X \cap G : e[x] \cap (X \cap G) = {}
      BY <1>1 DEF Acyclic
    <2>2. e[x] \subseteq G /\ f[x] \subseteq e[x]
      BY DEF DownClosed
    <2> QED
      BY <2>1, <2>2
  <1>2. CASE X \cap G = {}
    <2>1. PICK x \in X : e[x] \cap X = {}
      BY DEF Acyclic
    <2>2. f[x] \subseteq e[x] \cup G
      BY <1>2
    <2> QED
      BY <1>2, <2>1, <2>2
  <1> QED
    BY <1>1, <1>2

\* Nodes leave.
LEMMA Fewer ==
    ASSUME NEW e, Forest(e), NEW f \in Edges0, \A x \in Nat : f[x] \subseteq e[x]
    PROVE  Forest(f)
  <1>1. Acyclic(f)
    <2> SUFFICES ASSUME NEW X \in SUBSET Nat, X # {}
                 PROVE  \E x \in X : f[x] \cap X = {}
      BY DEF Acyclic
    <2>1. PICK x \in X : e[x] \cap X = {}
      BY DEF Forest, Acyclic
    <2> QED
      BY <2>1
  <1>2. OneParent(f)
    <2> SUFFICES ASSUME NEW p \in Nat, NEW q \in Nat, f[p] \cap f[q] # {} PROVE p = q
      BY DEF OneParent
    <2>1. e[p] \cap e[q] # {}
      OBVIOUS
    <2> QED
      BY <2>1 DEF Forest, OneParent
  <1> QED
    BY <1>1, <1>2 DEF Forest

\* Children M of p become children of q.
Moved(e, p, q, M) ==
    [x \in Nat |-> IF x = q THEN e[x] \cup M ELSE IF x = p THEN e[x] \ M ELSE e[x]]

\* Children of one node that become children of another, one not below them, leave a
\* forest: the step every handler that moves nodes is made of.
LEMMA Move ==
    ASSUME NEW e, Forest(e), NEW p \in Nat, NEW q \in Nat, NEW M \in SUBSET e[p],
           NEW G \in SUBSET Nat, DownClosed(e, G), M \subseteq G, q \notin G
    PROVE  Forest(Moved(e, p, q, M))
  <1> DEFINE f == Moved(e, p, q, M)
  <1>1. e \in Edges0 /\ Acyclic(e) /\ OneParent(e)
    BY DEF Forest
  <1>2. f \in Edges0
    BY <1>1 DEF Edges0, Moved
  <1>3. Acyclic(f)
    <2>1. \A x \in G : f[x] \subseteq e[x]
      BY DEF Moved
    <2>2. \A x \in Nat \ G : f[x] \subseteq e[x] \cup G
      BY DEF Moved
    <2> HIDE DEF f
    <2> QED
      BY <1>1, <1>2, <2>1, <2>2, Graft
  <1>4. OneParent(f)
    <2> SUFFICES ASSUME NEW x \in Nat, NEW y \in Nat, NEW c, c \in f[x], c \in f[y] PROVE x = y
      BY DEF OneParent
    <2>1. CASE c \in M
      <3>1. \A z \in Nat : c \in e[z] => z = p
        <4> SUFFICES ASSUME NEW z \in Nat, c \in e[z] PROVE z = p
          OBVIOUS
        <4>1. e[z] \cap e[p] # {}
          BY <2>1
        <4> QED
          BY <4>1, <1>1 DEF OneParent
      <3>2. \A z \in Nat : c \in f[z] => z = q
        BY <2>1, <3>1 DEF Moved
      <3> QED
        BY <3>2
    <2>2. CASE c \notin M
      <3>1. c \in e[x] /\ c \in e[y]
        BY <2>2 DEF Moved
      <3>2. e[x] \cap e[y] # {}
        BY <3>1
      <3> QED
        BY <3>2, <1>1 DEF OneParent
    <2> QED
      BY <2>1, <2>2
  <1>5. \A x \in Nat : 0 \notin f[x]
    BY DEF Moved, Forest
  <1> QED
    BY <1>2, <1>3, <1>4, <1>5 DEF Forest

\* All that is below some of the children of a node.
LEMMA UnionClosed ==
    ASSUME NEW e \in Edges0, NEW M \in SUBSET Nat
    PROVE  /\ UNION {Below(e, k) : k \in M} \in SUBSET Nat
           /\ DownClosed(e, UNION {Below(e, k) : k \in M})
           /\ M \subseteq UNION {Below(e, k) : k \in M}
  <1> DEFINE G == UNION {Below(e, k) : k \in M}
  <1>1. \A k \in M : k \in Below(e, k) /\ Below(e, k) \subseteq Nat /\ DownClosed(e, Below(e, k))
    BY BelowFacts
  <1> HIDE DEF G
  <1>2. G \in SUBSET Nat /\ M \subseteq G
    BY <1>1 DEF G
  <1>3. ASSUME NEW x \in G, NEW y \in e[x] PROVE y \in G
    <2>1. PICK k \in M : x \in Below(e, k)
      BY <1>3 DEF G
    <2>2. y \in Below(e, k)
      BY <1>1, <1>3, <2>1 DEF DownClosed
    <2> QED
      BY <2>2 DEF G
  <1>4. DownClosed(e, G)
    BY <1>3 DEF DownClosed
  <1> QED
    BY <1>2, <1>4 DEF G

\* Children move to a node below one of their siblings.
LEMMA MoveUnder ==
    ASSUME NEW e, Forest(e), NEW p \in Nat, NEW M \in SUBSET e[p], NEW r \in e[p], r \notin M,
           NEW q \in Below(e, r)
    PROVE  Forest(Moved(e, p, q, M))
  <1> DEFINE G == UNION {Below(e, k) : k \in M}
  <1>1. e \in Edges0 /\ M \in SUBSET Nat /\ r \in Nat
    BY DEF Forest, Edges0
  <1>2. q \in Nat
    BY <1>1, BelowFacts
  <1>3. G \in SUBSET Nat /\ DownClosed(e, G) /\ M \subseteq G
    BY <1>1, UnionClosed
  <1>4. q \notin G
    <2> SUFFICES ASSUME NEW k \in M, q \in Below(e, k) PROVE FALSE
      OBVIOUS
    <2>1. k \in e[p] /\ k # r
      OBVIOUS
    <2> QED
      BY <2>1, SiblingsApart
  <1> HIDE DEF G
  <1> QED
    BY <1>2, <1>3, <1>4, Move

\* Grandchildren become children.
LEMMA MoveUp ==
    ASSUME NEW e, Forest(e), NEW q \in Nat, NEW p \in e[q], NEW M \in SUBSET e[p]
    PROVE  Forest(Moved(e, p, q, M))
  <1>1. e \in Edges0 /\ Acyclic(e) /\ p \in Nat
    BY DEF Forest, Edges0
  <1>2. Below(e, p) \in SUBSET Nat /\ DownClosed(e, Below(e, p)) /\ p \in Below(e, p)
    BY <1>1, BelowFacts
  <1>3. M \subseteq Below(e, p)
    BY <1>2 DEF DownClosed
  <1>4. q \notin Below(e, p)
    BY <1>1, NotBelowChild
  <1> QED
    BY <1>1, <1>2, <1>3, <1>4, Move

\* Children of f, a sibling of r, move below r.
LEMMA MoveAcross ==
    ASSUME NEW e, Forest(e), NEW p \in Nat, NEW f \in e[p], NEW M \in SUBSET e[f],
           NEW r \in e[p], r # f, NEW q \in Below(e, r)
    PROVE  Forest(Moved(e, f, q, M))
  <1>1. e \in Edges0 /\ Acyclic(e) /\ f \in Nat /\ r \in Nat
    BY DEF Forest, Edges0
  <1>2. Below(e, f) \in SUBSET Nat /\ DownClosed(e, Below(e, f)) /\ f \in Below(e, f)
    BY <1>1, BelowFacts
  <1>3. M \subseteq Below(e, f)
    BY <1>2 DEF DownClosed
  <1>4. q \in Nat /\ q \notin Below(e, f)
    BY <1>1, BelowFacts, SiblingsApart
  <1> QED
    BY <1>1, <1>2, <1>3, <1>4, Move

\* A new node without children.
LEMMA NewLeaf ==
    ASSUME NEW e, Forest(e), NEW q \in Nat, NEW n \in Nat, n # 0, n # q, e[n] = {},
           \A x \in Nat : n \notin e[x]
    PROVE  Forest([e EXCEPT ![q] = @ \cup {n}])
  <1> DEFINE f == [e EXCEPT ![q] = @ \cup {n}]
  <1>1. e \in Edges0 /\ Acyclic(e) /\ OneParent(e)
    BY DEF Forest
  <1>2. f \in Edges0
    BY <1>1 DEF Edges0
  <1>3. Acyclic(f)
    <2>1. DownClosed(e, {n})
      BY DEF DownClosed
    <2>2. \A x \in {n} : f[x] \subseteq e[x]
      BY <1>1 DEF Edges0
    <2>3. \A x \in Nat \ {n} : f[x] \subseteq e[x] \cup {n}
      BY <1>1 DEF Edges0
    <2> HIDE DEF f
    <2> QED
      BY <1>1, <1>2, <2>1, <2>2, <2>3, Graft
  <1>4. \A x \in Nat : f[x] = IF x = q THEN e[x] \cup {n} ELSE e[x]
    BY <1>1 DEF Edges0
  <1> HIDE DEF f
  <1>5. OneParent(f)
    <2> SUFFICES ASSUME NEW x \in Nat, NEW y \in Nat, NEW c, c \in f[x], c \in f[y] PROVE x = y
      BY DEF OneParent
    <2>1. CASE c = n
      BY <2>1, <1>4
    <2>2. CASE c # n
      <3>2. e[x] \cap e[y] # {}
        BY <1>4, <2>2
      <3> QED
        BY <3>2, <1>1 DEF OneParent
    <2> QED
      BY <2>1, <2>2
  <1>6. \A x \in Nat : 0 \notin f[x]
    BY <1>4 DEF Forest
  <1> QED
    BY <1>2, <1>3, <1>5, <1>6 DEF Forest, f

-----------------------------------------------------------------------------
(* Lists. *)

\* No element is in the list twice.
Distinct(s) == \A i, j \in 1 .. Len(s) : s[i] = s[j] => i = j

\* What a list has is what is at its places.
LEMMA RangeOf ==
    ASSUME NEW S, NEW s \in Seq(S)
    PROVE  /\ Range(s) = {s[i] : i \in 1 .. Len(s)} /\ Range(s) \subseteq S
           /\ \A i \in 1 .. Len(s) : s[i] \in Range(s)
           /\ Len(s) \in Nat /\ DOMAIN s = 1 .. Len(s)
           /\ \A x \in Range(s) : \E i \in 1 .. Len(s) : s[i] = x
           /\ s # <<>> <=> Len(s) >= 1
  BY DEF Range

\* A list with one element more at its end, as push() makes it.
LEMMA AppendOf ==
    ASSUME NEW S, NEW s \in Seq(S), NEW x \in S
    PROVE  /\ Append(s, x) \in Seq(S) /\ Len(Append(s, x)) = Len(s) + 1
           /\ Append(s, x)[Len(s) + 1] = x
           /\ \A i \in 1 .. Len(s) : Append(s, x)[i] = s[i]
           /\ Range(Append(s, x)) = Range(s) \cup {x}
           /\ Distinct(s) /\ x \notin Range(s) => Distinct(Append(s, x))
  <1>1. /\ Append(s, x) \in Seq(S) /\ Len(Append(s, x)) = Len(s) + 1
        /\ Append(s, x)[Len(s) + 1] = x
        /\ \A i \in 1 .. Len(s) : Append(s, x)[i] = s[i]
    OBVIOUS
  <1> DEFINE t == Append(s, x)
  <1> HIDE DEF t
  <1>2. Range(t) = Range(s) \cup {x}
    <2>1. ASSUME NEW y \in Range(t) PROVE y \in Range(s) \cup {x}
      <3>1. PICK i \in 1 .. Len(t) : t[i] = y
        BY Zenon, <1>1, <2>1, RangeOf DEF t
      <3> QED
        BY <1>1, <3>1, RangeOf DEF t
    <2>2. x \in Range(t)
      <3>1. t \in Seq(S) /\ Len(s) + 1 \in 1 .. Len(t) /\ t[Len(s) + 1] = x
        BY <1>1 DEF t
      <3> QED
        BY <3>1, RangeOf
    <2>3. ASSUME NEW y \in Range(s) PROVE y \in Range(t)
      <3>1. PICK i \in 1 .. Len(s) : s[i] = y
        BY <2>3, RangeOf
      <3>2. i \in 1 .. Len(t) /\ t[i] = y
        BY <1>1, <3>1, RangeOf DEF t
      <3> QED
        BY <1>1, <3>2, RangeOf DEF t
    <2> QED
      BY <2>1, <2>2, <2>3
  <1>3. ASSUME Distinct(s), x \notin Range(s) PROVE Distinct(t)
    <2> SUFFICES ASSUME NEW i \in 1 .. Len(t), NEW j \in 1 .. Len(t), t[i] = t[j] PROVE i = j
      BY DEF Distinct
    <2> QED
      BY SMTT(60), <1>1, <1>3, RangeOf DEF Distinct, t
  <1> QED
    BY <1>1, <1>2, <1>3 DEF t

\* Two lists one after the other.
LEMMA ConcatOf ==
    ASSUME NEW S, NEW s \in Seq(S), NEW t \in Seq(S)
    PROVE  /\ s \o t \in Seq(S) /\ Len(s \o t) = Len(s) + Len(t)
           /\ \A i \in 1 .. Len(s) : (s \o t)[i] = s[i]
           /\ \A i \in 1 .. Len(t) : (s \o t)[Len(s) + i] = t[i]
           /\ Range(s \o t) = Range(s) \cup Range(t)
           /\ Distinct(s) /\ Distinct(t) /\ Range(s) \cap Range(t) = {} => Distinct(s \o t)
  <1> DEFINE u == s \o t
  <1>1. /\ u \in Seq(S) /\ Len(u) = Len(s) + Len(t)
        /\ \A i \in 1 .. Len(u) : u[i] = IF i <= Len(s) THEN s[i] ELSE t[i - Len(s)]
    <2>1. u \in Seq(S)
      BY ConcatProperties
    <2>2. Len(u) = Len(s) + Len(t)
      BY ConcatProperties
    <2>3. \A i \in 1 .. Len(u) : u[i] = IF i <= Len(s) THEN s[i] ELSE t[i - Len(s)]
      BY ConcatProperties
    <2> QED
      BY <2>1, <2>2, <2>3
  <1> HIDE DEF u
  <1>n. Len(s) \in Nat /\ Len(t) \in Nat
    OBVIOUS
  <1>2. /\ \A i \in 1 .. Len(s) : u[i] = s[i] /\ i \in 1 .. Len(u)
        /\ \A i \in 1 .. Len(t) : u[Len(s) + i] = t[i] /\ Len(s) + i \in 1 .. Len(u)
        /\ \A i \in 1 .. Len(u) : (i \in 1 .. Len(s) /\ u[i] = s[i])
                                  \/ (i - Len(s) \in 1 .. Len(t) /\ u[i] = t[i - Len(s)] /\ i > Len(s))
    <2>1. \A i \in 1 .. Len(s) : u[i] = s[i] /\ i \in 1 .. Len(u)
      BY <1>1, <1>n
    <2>2. ASSUME NEW i \in 1 .. Len(t) PROVE u[Len(s) + i] = t[i] /\ Len(s) + i \in 1 .. Len(u)
      <3> DEFINE j == Len(s) + i
      <3>1. j \in 1 .. Len(u) /\ ~(j <= Len(s)) /\ j - Len(s) = i
        BY <1>1, <1>n
      <3> HIDE DEF j
      <3>2. u[j] = t[i]
        BY <3>1, <1>1
      <3> QED
        BY <3>1, <3>2 DEF j
    <2>3. ASSUME NEW i \in 1 .. Len(u)
          PROVE  (i \in 1 .. Len(s) /\ u[i] = s[i])
                 \/ (i - Len(s) \in 1 .. Len(t) /\ u[i] = t[i - Len(s)] /\ i > Len(s))
      BY <1>1, <1>n
    <2> QED
      BY <2>1, <2>2, <2>3
  <1>3. Range(u) = Range(s) \cup Range(t)
    <2>1. ASSUME NEW y \in Range(u) PROVE y \in Range(s) \cup Range(t)
      <3>1. PICK i \in 1 .. Len(u) : u[i] = y
        BY SMTT(60), <1>1, <2>1, RangeOf
      <3> QED
        BY ZenonT(60), <1>2, <3>1, RangeOf
    <2>2. ASSUME NEW y \in Range(s) PROVE y \in Range(u)
      <3>1. PICK i \in 1 .. Len(s) : s[i] = y
        BY <2>2, RangeOf
      <3> QED
        BY <1>1, <1>2, <3>1, RangeOf
    <2>3. ASSUME NEW y \in Range(t) PROVE y \in Range(u)
      <3>1. PICK i \in 1 .. Len(t) : t[i] = y
        BY <2>3, RangeOf
      <3> QED
        BY <1>1, <1>2, <3>1, RangeOf
    <2> QED
      BY <2>1, <2>2, <2>3
  <1>4. ASSUME Distinct(s), Distinct(t), Range(s) \cap Range(t) = {} PROVE Distinct(u)
    <2> SUFFICES ASSUME NEW i \in 1 .. Len(u), NEW j \in 1 .. Len(u), u[i] = u[j] PROVE i = j
      BY DEF Distinct
    <2>1. CASE i \in 1 .. Len(s) /\ j \in 1 .. Len(s)
      BY <2>1, <1>2, <1>4 DEF Distinct
    <2>2. CASE i - Len(s) \in 1 .. Len(t) /\ j - Len(s) \in 1 .. Len(t)
      <3>1. u[i] = t[i - Len(s)] /\ u[j] = t[j - Len(s)]
        BY <2>2, <1>2, <1>n
      <3>2. i - Len(s) = j - Len(s)
        BY <2>2, <3>1, <1>4 DEF Distinct
      <3> QED
        BY <3>2, <1>1, <1>n
    <2>3. CASE \/ i \in 1 .. Len(s) /\ j - Len(s) \in 1 .. Len(t) /\ u[i] = s[i] /\ u[j] = t[j - Len(s)]
               \/ j \in 1 .. Len(s) /\ i - Len(s) \in 1 .. Len(t) /\ u[j] = s[j] /\ u[i] = t[i - Len(s)]
      <3>1. \A k \in 1 .. Len(s), l \in 1 .. Len(t) : s[k] # t[l]
        BY <1>4, RangeOf
      <3> QED
        BY <2>3, <3>1
    <2> QED
      BY <2>1, <2>2, <2>3, <1>2
  <1> QED
    BY <1>1, <1>2, <1>3, <1>4 DEF u

\* A part of a list, as take() and the handlers of closings cut it out.
LEMMA SubSeqOf ==
    ASSUME NEW S, NEW s \in Seq(S), NEW a \in Nat, NEW b \in Nat, a >= 1, b <= Len(s)
    PROVE  /\ SubSeq(s, a, b) \in Seq(S)
           /\ Len(SubSeq(s, a, b)) = IF a <= b THEN b - a + 1 ELSE 0
           /\ \A i \in 1 .. Len(SubSeq(s, a, b)) : SubSeq(s, a, b)[i] = s[a + i - 1]
           /\ Range(SubSeq(s, a, b)) = {s[i] : i \in a .. b}
           /\ Range(SubSeq(s, a, b)) \subseteq Range(s)
           /\ Distinct(s) => Distinct(SubSeq(s, a, b))
  <1> DEFINE u == SubSeq(s, a, b)
  <1>n. Len(s) \in Nat
    OBVIOUS
  <1>1. /\ u \in Seq(S) /\ Len(u) = IF a <= b THEN b - a + 1 ELSE 0
        /\ \A i \in 1 .. Len(u) : u[i] = s[a + i - 1] /\ a + i - 1 \in 1 .. Len(s) /\ a + i - 1 \in a .. b
    <2>1. (a \in 1 .. Len(s) + 1 /\ b \in a - 1 .. Len(s)) \/ b < a
      BY <1>n
    <2>2. u = [i \in 1 .. b - a + 1 |-> s[i + a - 1]]
      BY <1>n DEF u
    <2>3. \A i \in 1 .. b - a + 1 : i + a - 1 \in 1 .. Len(s) /\ s[i + a - 1] \in S
      BY <1>n
    <2>4. CASE a <= b
      <3>1. b - a + 1 \in Nat
        BY <2>4
      <3>2. u \in [1 .. b - a + 1 -> S]
        BY <2>2, <2>3
      <3>3. u \in Seq(S) /\ Len(u) = b - a + 1
        BY <3>1, <3>2
      <3> QED
        BY SMTT(60), <2>2, <2>3, <2>4, <3>3
    <2>5. CASE ~(a <= b)
      <3>1. u = <<>>
        BY <2>2, <2>5
      <3> QED
        BY <3>1, <2>5
    <2> QED
      BY <2>4, <2>5
  <1> HIDE DEF u
  <1>2. Range(u) = {s[i] : i \in a .. b}
    <2>1. ASSUME NEW y \in Range(u) PROVE y \in {s[i] : i \in a .. b}
      <3>1. PICK i \in 1 .. Len(u) : u[i] = y
        BY <1>1, <2>1, RangeOf
      <3> QED
        BY <1>1, <3>1
    <2>2. ASSUME NEW i \in a .. b PROVE s[i] \in Range(u)
      <3> DEFINE j == i - a + 1
      <3>1. j \in 1 .. Len(u) /\ a + j - 1 = i
        BY <1>1
      <3> HIDE DEF j
      <3>2. u[j] = s[i]
        BY <3>1, <1>1
      <3> QED
        BY <1>1, <3>1, <3>2, RangeOf
    <2> QED
      BY <2>1, <2>2
  <1>3. \A i \in a .. b : s[i] \in Range(s)
    BY RangeOf, <1>n
  <1>4. ASSUME Distinct(s) PROVE Distinct(u)
    <2> SUFFICES ASSUME NEW i \in 1 .. Len(u), NEW j \in 1 .. Len(u), u[i] = u[j] PROVE i = j
      BY DEF Distinct
    <2>1. s[a + i - 1] = s[a + j - 1] /\ a + i - 1 \in 1 .. Len(s) /\ a + j - 1 \in 1 .. Len(s)
      BY <1>1
    <2>2. a + i - 1 = a + j - 1
      BY <2>1, <1>4 DEF Distinct
    <2>3. Len(u) \in Nat
      BY <1>1
    <2> QED
      BY <2>2, <2>3
  <1> QED
    BY <1>1, <1>2, <1>3, <1>4 DEF u

\* A list without the element at a place, as removeAt() leaves it.
LEMMA RemoveOf ==
    ASSUME NEW S, NEW s \in Seq(S), NEW i \in 1 .. Len(s)
    PROVE  /\ RemoveAt(s, i) \in Seq(S) /\ Len(RemoveAt(s, i)) = Len(s) - 1
           /\ \A j \in 1 .. Len(s) - 1 : RemoveAt(s, i)[j] = IF j < i THEN s[j] ELSE s[j + 1]
           /\ Range(RemoveAt(s, i)) \subseteq Range(s)
           /\ Range(s) \subseteq Range(RemoveAt(s, i)) \cup {s[i]}
           /\ Distinct(s) => Distinct(RemoveAt(s, i)) /\ s[i] \notin Range(RemoveAt(s, i))
  <1> DEFINE a == SubSeq(s, 1, i - 1)
             b == SubSeq(s, i + 1, Len(s))
             u == RemoveAt(s, i)
  <1>n. Len(s) \in Nat /\ i \in Nat /\ i - 1 \in Nat /\ i + 1 \in Nat /\ i >= 1 /\ i <= Len(s)
    OBVIOUS
  <1>a. a \in Seq(S) /\ Len(a) = i - 1 /\ \A j \in 1 .. i - 1 : a[j] = s[j]
    BY <1>n, SubSeqOf
  <1>b. b \in Seq(S) /\ Len(b) = Len(s) - i /\ \A j \in 1 .. Len(s) - i : b[j] = s[i + j]
    <2>1. b \in Seq(S) /\ Len(b) = Len(s) - i /\ \A j \in 1 .. Len(b) : b[j] = s[(i + 1) + j - 1]
      BY <1>n, SubSeqOf
    <2> QED
      BY SMTT(60), <2>1
  <1>c. u = a \o b
    BY DEF RemoveAt
  <1> HIDE DEF a, b, u
  <1>1. u \in Seq(S) /\ Len(u) = Len(s) - 1
    <2>1. u \in Seq(S) /\ Len(u) = Len(a) + Len(b)
      BY ZenonT(60), <1>a, <1>b, <1>c, ConcatOf
    <2> QED
      BY <2>1, <1>a, <1>b, <1>n
  <1>2. /\ \A j \in 1 .. Len(a) : u[j] = a[j]
        /\ \A j \in 1 .. Len(b) : u[Len(a) + j] = b[j]
    <2>1. /\ \A j \in 1 .. Len(a) : (a \o b)[j] = a[j]
          /\ \A j \in 1 .. Len(b) : (a \o b)[Len(a) + j] = b[j]
      BY SMTT(60), <1>a, <1>b, ConcatOf
    <2> QED
      BY <2>1, <1>c
  <1>3. ASSUME NEW j \in 1 .. Len(s) - 1 PROVE u[j] = IF j < i THEN s[j] ELSE s[j + 1]
    <2>1. CASE j < i
      BY <2>1, <1>2, <1>a, <1>n
    <2>2. CASE ~(j < i)
      <3> DEFINE k == j - (i - 1)
      <3>1. k \in 1 .. Len(s) - i /\ Len(a) + k = j /\ i + k = j + 1
        BY <2>2, <1>a, <1>n
      <3> HIDE DEF k
      <3> QED
        BY <3>1, <1>2, <1>b, <2>2
    <2> QED
      BY <2>1, <2>2
  <1>4. Range(u) \subseteq Range(s)
    <2> SUFFICES ASSUME NEW y \in Range(u) PROVE y \in Range(s)
      OBVIOUS
    <2>1. PICK j \in 1 .. Len(u) : u[j] = y
      BY <1>1, RangeOf
    <2>2. j \in 1 .. Len(s) - 1 /\ j \in 1 .. Len(s) /\ j + 1 \in 1 .. Len(s)
      BY <1>1, <1>n
    <2>3. y = s[j] \/ y = s[j + 1]
      BY <2>1, <2>2, <1>3
    <2> QED
      BY <2>2, <2>3, RangeOf
  <1>5. Range(s) \subseteq Range(u) \cup {s[i]}
    <2> SUFFICES ASSUME NEW y \in Range(s), y # s[i] PROVE y \in Range(u)
      OBVIOUS
    <2>1. PICK j \in 1 .. Len(s) : s[j] = y
      BY RangeOf
    <2>2. CASE j < i
      <3>1. j \in 1 .. Len(u) /\ u[j] = y
        BY <2>1, <2>2, <1>1, <1>3, <1>n
      <3> QED
        BY <3>1, <1>1, RangeOf
    <2>3. CASE j > i
      <3>1. j - 1 \in 1 .. Len(u) /\ u[j - 1] = y
        BY <2>1, <2>3, <1>1, <1>3, <1>n
      <3> QED
        BY <3>1, <1>1, RangeOf
    <2> QED
      BY <2>1, <2>2, <2>3, <1>n
  <1>6. ASSUME Distinct(s) PROVE Distinct(u) /\ s[i] \notin Range(u)
    <2>1. ASSUME NEW j \in 1 .. Len(u), NEW k \in 1 .. Len(u), u[j] = u[k] PROVE j = k
      <3>1. (IF j < i THEN j ELSE j + 1) = (IF k < i THEN k ELSE k + 1)
        BY <1>1, <1>3, <1>6, <2>1, <1>n DEF Distinct
      <3> QED
        BY <3>1, <1>1, <1>n
    <2>2. ASSUME NEW j \in 1 .. Len(u), u[j] = s[i] PROVE FALSE
      BY <1>1, <1>3, <1>6, <2>2, <1>n DEF Distinct
    <2> QED
      BY SMTT(60), <2>1, <2>2, <1>1, RangeOf DEF Distinct
  <1> QED
    BY <1>1, <1>3, <1>4, <1>5, <1>6 DEF u

\* A list without its last element, as pop() leaves it.
LEMMA FrontOf ==
    ASSUME NEW S, NEW s \in Seq(S), s # <<>>
    PROVE  /\ Front(s) \in Seq(S) /\ Len(Front(s)) = Len(s) - 1 /\ Len(s) >= 1
           /\ \A i \in 1 .. Len(s) - 1 : Front(s)[i] = s[i]
           /\ Last(s) = s[Len(s)] /\ Last(s) \in Range(s) /\ Last(s) \in S
           /\ Range(Front(s)) \subseteq Range(s)
           /\ Range(s) = Range(Front(s)) \cup {Last(s)}
           /\ Distinct(s) => Distinct(Front(s)) /\ Last(s) \notin Range(Front(s))
  <1>1. Len(s) \in Nat /\ Len(s) >= 1 /\ Len(s) - 1 \in Nat
    OBVIOUS
  <1> DEFINE u == Front(s)
             n == Len(s)
  <1>2. /\ u \in Seq(S) /\ Len(u) = n - 1
        /\ \A i \in 1 .. n - 1 : u[i] = s[i]
        /\ Range(u) = {s[i] : i \in 1 .. n - 1}
        /\ Distinct(s) => Distinct(u)
    <2> DEFINE b == n - 1
    <2>0. b \in Nat /\ b <= Len(s) /\ u = SubSeq(s, 1, b) /\ 1 \in Nat /\ 1 >= 1
      BY <1>1 DEF Front
    <2> HIDE DEF b, u
    <2>1. /\ u \in Seq(S) /\ Len(u) = IF 1 <= b THEN b - 1 + 1 ELSE 0
          /\ \A i \in 1 .. Len(u) : u[i] = s[1 + i - 1]
          /\ Range(u) = {s[i] : i \in 1 .. b}
          /\ Distinct(s) => Distinct(u)
      BY <2>0, SubSeqOf
    <2>2. Len(u) = b
      BY <2>0, <2>1
    <2>3. \A i \in 1 .. b : u[i] = s[i]
      BY <2>0, <2>1, <2>2
    <2> QED
      BY <2>1, <2>2, <2>3 DEF b
  <1>3. Last(s) = s[n] /\ n \in 1 .. n
    BY <1>1 DEF Last
  <1> HIDE DEF u
  <1>4. s[n] \in Range(s) /\ s[n] \in S
    BY <1>1, RangeOf
  <1>5. Range(s) = {s[i] : i \in 1 .. n}
    BY RangeOf
  <1>6. 1 .. n = (1 .. n - 1) \cup {n}
    BY <1>1
  <1>7. Range(s) = Range(u) \cup {s[n]}
    BY <1>2, <1>5, <1>6
  <1>8. Distinct(s) => s[n] \notin Range(u)
    BY <1>1, <1>2 DEF Distinct
  <1> QED
    BY <1>1, <1>2, <1>3, <1>4, <1>7, <1>8 DEF u

-----------------------------------------------------------------------------
(* Functions that walk down a forest. *)

\* Every set of nodes of N has one whose successors are not in it.
WellFounded(N, e) == \A X \in SUBSET N : X # {} => \E x \in X : e[x] \cap X = {}

\* Step computes the value for a node from the values f of its successors.
StepOf(N, e, V, v0, Step) ==
    /\ e \in [N -> SUBSET N] /\ WellFounded(N, e) /\ v0 \in V
    /\ Step \in [[N -> V] \X N -> V]
    /\ \A f, g \in [N -> V], n \in N :
        (\A m \in e[n] : f[m] = g[m]) => Step[<<f, n>>] = Step[<<g, n>>]

\* A walk down a forest is well defined: the functions that follow right edges, chains of
\* ifs and scopes have the value their recursion says.
LEMMA Recursion ==
    ASSUME NEW N, NEW e, NEW V, NEW v0, NEW Step, StepOf(N, e, V, v0, Step)
    PROVE  \E f \in [N -> V] : \A n \in N : f[n] = Step[<<f, n>>]
  <1> USE DEF StepOf
  <1> DEFINE Attempt(f, G) == \A x \in G : e[x] \subseteq G /\ f[x] = Step[<<f, x>>]
             Fs == [N -> V]
             All == {x \in N : \E f \in Fs, G \in SUBSET N : Attempt(f, G) /\ x \in G}
             Val(x, v) == \E f \in Fs, G \in SUBSET N : Attempt(f, G) /\ x \in G /\ v = f[x]
             F == [x \in N |-> IF x \in All THEN CHOOSE v \in V : Val(x, v) ELSE v0]
  <1>1. ASSUME NEW f \in Fs, NEW G \in SUBSET N, Attempt(f, G),
               NEW g \in Fs, NEW H \in SUBSET N, Attempt(g, H),
               NEW x \in N, x \in G, x \in H
        PROVE  f[x] = g[x]
    <2> DEFINE X == {y \in G \cap H : f[y] # g[y]}
    <2>1. SUFFICES ASSUME X # {} PROVE FALSE
      BY <1>1
    <2>2. PICK y \in X : e[y] \cap X = {}
      BY <2>1 DEF WellFounded
    <2>3. y \in N /\ e[y] \subseteq G \cap H /\ f[y] = Step[<<f, y>>] /\ g[y] = Step[<<g, y>>]
      BY <1>1
    <2>4. \A m \in e[y] : f[m] = g[m]
      BY <2>2, <2>3
    <2>5. Step[<<f, y>>] = Step[<<g, y>>]
      BY <2>3, <2>4
    <2> QED
      BY <2>3, <2>5
  <1>2. F \in Fs /\ \A f \in Fs, G \in SUBSET N : Attempt(f, G) => \A x \in G : F[x] = f[x]
    <2>1. ASSUME NEW x \in All PROVE (CHOOSE v \in V : Val(x, v)) \in V /\ Val(x, CHOOSE v \in V : Val(x, v))
      <3>1. \E v \in V : Val(x, v)
        OBVIOUS
      <3> HIDE DEF Val
      <3> QED
        BY <3>1
    <2>2. F \in Fs
      <3> HIDE DEF All, Val
      <3> QED
        BY <2>1
    <2>3. ASSUME NEW f \in Fs, NEW G \in SUBSET N, Attempt(f, G), NEW x \in G PROVE F[x] = f[x]
      <3>1. x \in All /\ x \in N
        BY <2>3
      <3>2. Val(x, F[x])
        <4> HIDE DEF All, Val
        <4> QED
          BY <2>1, <3>1
      <3>3. PICK g \in Fs, H \in SUBSET N : Attempt(g, H) /\ x \in H /\ F[x] = g[x]
        BY <3>2
      <3> HIDE DEF F, All, Attempt
      <3> QED
        BY <3>1, <3>3, <2>3, <1>1
    <2> QED
      BY <2>2, <2>3
  <1> HIDE DEF F
  <1>3. \A x \in All : e[x] \subseteq All /\ F[x] = Step[<<F, x>>]
    <2> SUFFICES ASSUME NEW x \in All PROVE e[x] \subseteq All /\ F[x] = Step[<<F, x>>]
      OBVIOUS
    <2>1. PICK f \in Fs, G \in SUBSET N : Attempt(f, G) /\ x \in G
      OBVIOUS
    <2>2. e[x] \subseteq G /\ f[x] = Step[<<f, x>>] /\ x \in N
      BY <2>1
    <2>3. \A y \in G : F[y] = f[y]
      BY Zenon, <1>2, <2>1
    <2>4. e[x] \subseteq All
      BY ZenonT(60), <2>1, <2>2
    <2>5. \A m \in e[x] : F[m] = f[m]
      BY <2>2, <2>3
    <2>6. Step[<<F, x>>] = Step[<<f, x>>]
      BY <1>2, <2>2, <2>5
    <2> QED
      BY <2>1, <2>2, <2>3, <2>4, <2>6
  <1>4. All = N
    <2> DEFINE X == N \ All
    <2>1. SUFFICES ASSUME X # {} PROVE FALSE
      BY <2>1
    <2>2. PICK x \in X : e[x] \cap X = {}
      BY <2>1 DEF WellFounded
    <2>3. e[x] \subseteq All /\ x \in N /\ x \notin All /\ All \subseteq N
      BY <2>2
    <2> DEFINE g == [F EXCEPT ![x] = Step[<<F, x>>]]
               H == All \cup {x}
    <2>4. Step[<<F, x>>] \in V
      BY <1>2, <2>3
    <2>5. g \in Fs /\ g[x] = Step[<<F, x>>] /\ \A y \in All : g[y] = F[y]
      BY ZenonT(60), <1>2, <2>3, <2>4
    <2> HIDE DEF g, All
    <2>6. ASSUME NEW y \in H PROVE e[y] \subseteq H /\ g[y] = Step[<<g, y>>]
      <3>1. e[y] \subseteq All /\ y \in N
        BY <1>3, <2>3
      <3>2. \A m \in e[y] : g[m] = F[m]
        BY <3>1, <2>5
      <3>3. Step[<<g, y>>] = Step[<<F, y>>]
        BY ZenonT(60), <3>1, <3>2, <1>2, <2>5
      <3> QED
        BY <3>1, <3>3, <1>3, <2>5
    <2>7. H \in SUBSET N /\ Attempt(g, H) /\ x \in H
      BY <2>3, <2>6
    <2> HIDE DEF H, Attempt
    <2>8. \E f \in Fs, G \in SUBSET N : Attempt(f, G) /\ x \in G
      BY <2>5, <2>7
    <2>9. x \in All
      BY <2>3, <2>8 DEF All
    <2> QED
      BY <2>3, <2>9
  <1> HIDE DEF All
  <1>5. \A n \in N : F[n] = Step[<<F, n>>]
    BY <1>3, <1>4
  <1>6. F \in [N -> V]
    BY <1>2
  <1> QED
    BY <1>5, <1>6

-----------------------------------------------------------------------------
(* What the handlers do to the lists: every one is made of these
   operations. *)

\* The children and the scopes of a node: everything that hangs below it.
Joint(li, sc) == [n \in Nat |-> Range(li[n]) \cup Range(sc[n])]

\* Lists of children li and of scopes sc of the nodes N are a forest, each node in one
\* list, once.  The roots are the list of 0.
Trees(N, li, sc) ==
    /\ N \in SUBSET (Nat \ {0})
    /\ li \in [Nat -> Seq(N)] /\ sc \in [Nat -> Seq(N)]
    /\ \A n \in Nat \ ({0} \cup N) : li[n] = <<>> /\ sc[n] = <<>>
    /\ \A n \in Nat : Distinct(li[n]) /\ Distinct(sc[n]) /\ Range(li[n]) \cap Range(sc[n]) = {}
    /\ Forest(Joint(li, sc))

\* What is known of a node when the lists of children and of scopes are a forest.
LEMMA TreesFacts ==
    ASSUME NEW N, NEW li, NEW sc, Trees(N, li, sc), NEW n \in Nat
    PROVE  /\ li[n] \in Seq(N) /\ sc[n] \in Seq(N) /\ Distinct(li[n]) /\ Distinct(sc[n])
           /\ Range(li[n]) \cap Range(sc[n]) = {}
           /\ Joint(li, sc)[n] = Range(li[n]) \cup Range(sc[n])
           /\ Joint(li, sc)[n] \subseteq N /\ N \subseteq Nat /\ 0 \notin N
           /\ Forest(Joint(li, sc)) /\ Joint(li, sc) \in Edges0
           /\ Acyclic(Joint(li, sc)) /\ OneParent(Joint(li, sc))
           /\ n \notin N /\ n # 0 => li[n] = <<>> /\ sc[n] = <<>>
  <1>1. li[n] \in Seq(N) /\ sc[n] \in Seq(N)
    BY DEF Trees
  <1>2. Range(li[n]) \subseteq N /\ Range(sc[n]) \subseteq N
    BY <1>1, RangeOf
  <1> QED
    BY <1>1, <1>2 DEF Trees, Joint, Forest

\* Lists whose elements are among the edges of a forest are a forest.
LEMMA Rebuilt ==
    ASSUME NEW N, NEW li, NEW sc, Trees(N, li, sc),
           NEW li2 \in [Nat -> Seq(N)], NEW sc2 \in [Nat -> Seq(N)], NEW e,
           \A n \in Nat \ ({0} \cup N) : li2[n] = <<>> /\ sc2[n] = <<>>,
           \A n \in Nat : Distinct(li2[n]) /\ Distinct(sc2[n]) /\ Range(li2[n]) \cap Range(sc2[n]) = {},
           Forest(e), \A n \in Nat : Range(li2[n]) \cup Range(sc2[n]) \subseteq e[n]
    PROVE  Trees(N, li2, sc2)
  <1>1. N \subseteq Nat
    BY DEF Trees
  <1>2. \A n \in Nat : Range(li2[n]) \subseteq N /\ Range(sc2[n]) \subseteq N
    BY RangeOf
  <1>3. Joint(li2, sc2) \in Edges0
    BY <1>1, <1>2 DEF Joint, Edges0
  <1>4. Forest(Joint(li2, sc2))
    <2>1. \A n \in Nat : Joint(li2, sc2)[n] \subseteq e[n]
      BY DEF Joint
    <2> QED
      BY <1>3, <2>1, Fewer
  <1> QED
    BY <1>4 DEF Trees

\* Some nodes leave their lists.
LEMMA DropFrom ==
    ASSUME NEW N, NEW li, NEW sc, Trees(N, li, sc), NEW p \in Nat, NEW s \in Seq(N),
           Distinct(s), Range(s) \subseteq Range(li[p]), p \notin N /\ p # 0 => s = <<>>
    PROVE  Trees(N, [li EXCEPT ![p] = s], sc)
  <1> DEFINE li2 == [li EXCEPT ![p] = s]
  <1>1. li \in [Nat -> Seq(N)] /\ sc \in [Nat -> Seq(N)]
    BY DEF Trees
  <1>2. li2 \in [Nat -> Seq(N)] /\ \A n \in Nat : li2[n] = IF n = p THEN s ELSE li[n]
    BY <1>1
  <1> HIDE DEF li2
  <1>3. \A n \in Nat \ ({0} \cup N) : li2[n] = <<>> /\ sc[n] = <<>>
    BY <1>2 DEF Trees
  <1>4. \A n \in Nat : Range(li2[n]) \subseteq Range(li[n]) /\ Distinct(li2[n])
    BY <1>2 DEF Trees
  <1>5. \A n \in Nat : Distinct(li2[n]) /\ Distinct(sc[n]) /\ Range(li2[n]) \cap Range(sc[n]) = {}
    BY <1>4 DEF Trees
  <1>6. \A n \in Nat : Range(li2[n]) \cup Range(sc[n]) \subseteq Joint(li, sc)[n]
    BY <1>4 DEF Joint
  <1>7. Forest(Joint(li, sc))
    BY DEF Trees
  <1>8. Trees(N, li2, sc)
    BY <1>1, <1>2, <1>3, <1>5, <1>6, <1>7, Rebuilt
  <1> QED
    BY <1>8 DEF li2

\* The empty list has no two elements that are the same.
LEMMA EmptyOf ==
    ASSUME NEW S
    PROVE  <<>> \in Seq(S) /\ Distinct(<<>>) /\ Range(<<>>) = {} /\ Len(<<>>) = 0
  <1>1. <<>> \in Seq(S) /\ Len(<<>>) = 0
    OBVIOUS
  <1>2. 1 .. 0 = {}
    OBVIOUS
  <1>3. Range(<<>>) = {}
    BY DEF Range
  <1> QED
    BY <1>1, <1>2, <1>3 DEF Distinct

\* The list of q has nodes M of the list of p, and that has them no more.
ShiftOf(N, li, li2, p, q, M) ==
    /\ p \in {0} \cup N /\ q \in {0} \cup N /\ p # q
    /\ M \in SUBSET Range(li[p])
    /\ li2 \in [Nat -> Seq(N)] /\ \A n \in Nat \ {p, q} : li2[n] = li[n]
    /\ Distinct(li2[p]) /\ Range(li2[p]) \subseteq Range(li[p]) \ M
    /\ Distinct(li2[q]) /\ Range(li2[q]) \subseteq Range(li[q]) \cup M

\* Nodes M of the list of p are in the list of q now.
LEMMA Shifted ==
    ASSUME NEW N, NEW li, NEW sc, Trees(N, li, sc), NEW p, NEW q, NEW M, NEW li2,
           ShiftOf(N, li, li2, p, q, M), Forest(Moved(Joint(li, sc), p, q, M))
    PROVE  Trees(N, li2, sc)
  <1> USE DEF ShiftOf
  <1> DEFINE e == Joint(li, sc)
             f == Moved(e, p, q, M)
  <1>n. p \in Nat /\ q \in Nat /\ N \subseteq Nat
    <2>1. N \subseteq Nat
      BY DEF Trees
    <2> QED
      BY <2>1
  <1>1. sc \in [Nat -> Seq(N)]
    BY DEF Trees
  <1>2. \A n \in Nat \ ({0} \cup N) : li2[n] = <<>> /\ sc[n] = <<>>
    BY DEF Trees
  <1>3. \A n \in Nat : e[n] = Range(li[n]) \cup Range(sc[n])
    BY DEF Joint
  <1>4. OneParent(e)
    BY DEF Trees, Forest
  <1>5. M \cap Range(sc[q]) = {} /\ M \cap Range(sc[p]) = {}
    <2>1. e[p] \cap e[q] = {}
      BY <1>n, <1>4 DEF OneParent
    <2>2. Range(li[p]) \cap Range(sc[p]) = {}
      BY <1>n DEF Trees
    <2> QED
      BY <2>1, <2>2, <1>3, <1>n
  <1>6. ASSUME NEW n \in Nat
        PROVE  /\ Distinct(li2[n]) /\ Distinct(sc[n]) /\ Range(li2[n]) \cap Range(sc[n]) = {}
               /\ Range(li2[n]) \cup Range(sc[n]) \subseteq f[n]
    <2>1. Distinct(li[n]) /\ Distinct(sc[n]) /\ Range(li[n]) \cap Range(sc[n]) = {}
      BY DEF Trees
    <2>2. f[n] = IF n = q THEN e[n] \cup M ELSE IF n = p THEN e[n] \ M ELSE e[n]
      BY DEF Moved
    <2> HIDE DEF e, f
    <2>3. CASE n = p
      BY ZenonT(60), <2>1, <2>2, <2>3, <1>3, <1>5
    <2>4. CASE n = q
      BY SMTT(60), <2>1, <2>2, <2>4, <1>3, <1>5
    <2>5. CASE n # p /\ n # q
      BY <2>1, <2>2, <2>5, <1>3, <1>5
    <2> QED
      BY <2>3, <2>4, <2>5
  <1> HIDE DEF f
  <1>7. Forest(f)
    BY DEF f
  <1> QED
    BY <1>1, <1>2, <1>6, <1>7, Rebuilt

\* The last child of f goes to the end of the list of q, which is below a sibling of f.
HandOf(N, li, sc, li2, p, q, f, r) ==
    /\ p \in Nat /\ f \in Range(li[p]) /\ r \in Range(li[p]) /\ f # r /\ li[f] # <<>>
    /\ q \in Below(Joint(li, sc), r)
    /\ li2 = [li EXCEPT ![f] = Front(li[f]), ![q] = Append(li[q], Last(li[f]))]

\* A last child handed to a node below a sibling of its parent leaves a forest:
\* InsertIntoLeft does this with the operand it takes from the operator to its left.
LEMMA HandLast ==
    ASSUME NEW N, NEW li, NEW sc, Trees(N, li, sc), NEW li2, NEW p, NEW q, NEW f, NEW r,
           HandOf(N, li, sc, li2, p, q, f, r)
    PROVE  /\ Trees(N, li2, sc) /\ q \in N /\ f \in N /\ q # f /\ q # p /\ f # p
           /\ li2[f] = Front(li[f]) /\ li2[q] = Append(li[q], Last(li[f]))
           /\ \A n \in Nat : n # f /\ n # q => li2[n] = li[n]
  <1> USE DEF HandOf
  <1> DEFINE e == Joint(li, sc)
             x == Last(li[f])
  <1>1. Forest(e) /\ e \in Edges0 /\ Acyclic(e) /\ OneParent(e)
    BY TreesFacts
  <1>2. li[p] \in Seq(N) /\ N \subseteq Nat /\ e[p] = Range(li[p]) \cup Range(sc[p])
    BY TreesFacts
  <1>3. f \in N /\ r \in N /\ f \in Nat /\ r \in Nat /\ f \in e[p] /\ r \in e[p]
    BY <1>2, RangeOf
  <1>4. q \in Nat /\ q \in N /\ q # p
    <2>1. q \in Nat
      BY <1>1, <1>3, BelowFacts
    <2>2. p \notin Below(e, r)
      BY <1>1, <1>3, NotBelowChild
    <2>3. DownClosed(e, N)
      <3>1. \A n \in Nat : e[n] \subseteq N
        BY TreesFacts
      <3> QED
        BY <3>1, <1>2 DEF DownClosed
    <2>4. Below(e, r) \subseteq N
      BY <1>1, <1>2, <1>3, <2>3, BelowLeast
    <2> QED
      BY <2>1, <2>2, <2>4
  <1>5. q # f
    <2>1. Below(e, f) \cap Below(e, r) = {}
      BY <1>1, <1>3, SiblingsApart
    <2>2. f \in Below(e, f)
      BY <1>1, <1>3, BelowFacts
    <2> QED
      BY <2>1, <2>2
  <1>6. f # p
    <2>1. p \notin Below(e, f)
      BY <1>1, <1>3, NotBelowChild
    <2>2. f \in Below(e, f)
      BY <1>1, <1>3, BelowFacts
    <2> QED
      BY <2>1, <2>2
  <1>7. li[f] \in Seq(N) /\ Distinct(li[f]) /\ e[f] = Range(li[f]) \cup Range(sc[f])
    BY <1>3, TreesFacts
  <1>8. li[q] \in Seq(N) /\ Distinct(li[q]) /\ e[q] = Range(li[q]) \cup Range(sc[q])
    BY <1>4, TreesFacts
  <1> DEFINE u == Front(li[f])
             v == Append(li[q], x)
  <1>9. /\ u \in Seq(N) /\ x \in N /\ x \in Range(li[f]) /\ Distinct(u) /\ x \notin Range(u)
        /\ Range(u) \subseteq Range(li[f])
    BY <1>7, FrontOf
  <1>10. x \notin Range(li[q])
    <2>1. e[f] \cap e[q] = {}
      BY <1>1, <1>3, <1>4, <1>5 DEF OneParent
    <2> QED
      BY <2>1, <1>7, <1>8, <1>9
  <1>11. v \in Seq(N) /\ Distinct(v) /\ Range(v) = Range(li[q]) \cup {x}
    BY <1>8, <1>9, <1>10, AppendOf
  <1>12. li2 \in [Nat -> Seq(N)] /\ \A n \in Nat : li2[n] = IF n = q THEN v ELSE IF n = f THEN u ELSE li[n]
    <2>1. li \in [Nat -> Seq(N)]
      BY DEF Trees
    <2>2. li2 = [li EXCEPT ![f] = u, ![q] = v]
      OBVIOUS
    <2> HIDE DEF u, v
    <2> QED
      BY ZenonT(60), <2>1, <2>2, <1>3, <1>4, <1>9, <1>11
  <1>13. Forest(Moved(e, f, q, {x}))
    <2>1. {x} \in SUBSET e[f]
      BY <1>7, <1>9
    <2> HIDE DEF x, e
    <2>2. q \in Below(e, r)
      BY DEF e
    <2> QED
      BY <1>1, <1>3, <2>1, <2>2, MoveAcross
  <1>14. li2[f] = u /\ li2[q] = v /\ \A n \in Nat : n # f /\ n # q => li2[n] = li[n]
    BY <1>12, <1>3, <1>4, <1>5
  <1> HIDE DEF u, v, x
  <1>15. Trees(N, li2, sc)
    <2> DEFINE M == {x}
    <2>1. /\ M \in SUBSET Range(li[f]) /\ Range(li2[f]) \subseteq Range(li[f]) \ M
          /\ Range(li2[q]) \subseteq Range(li[q]) \cup M /\ Distinct(li2[f]) /\ Distinct(li2[q])
      BY <1>9, <1>11, <1>14
    <2>2. Forest(Moved(Joint(li, sc), f, q, M))
      BY <1>13
    <2> HIDE DEF M
    <2>3. \A n \in Nat \ {f, q} : li2[n] = li[n]
      BY <1>14
    <2>4. f \in {0} \cup N /\ q \in {0} \cup N /\ f # q /\ li2 \in [Nat -> Seq(N)]
      BY <1>3, <1>4, <1>5, <1>12
    <2>7. ShiftOf(N, li, li2, f, q, M)
      BY Zenon, <2>1, <2>2, <2>3, <2>4 DEF ShiftOf
    <2> QED
      BY <2>2, <2>7, Shifted
  <1> QED
    BY <1>15, <1>3, <1>4, <1>5, <1>6, <1>14 DEF u, v, x

\* The first child of n is replaced by its children, and has none any more.
UnwrapOf(li, li2, n, f) ==
    /\ n \in Nat /\ li[n] # <<>> /\ f = Head(li[n])
    /\ li2 = [li EXCEPT ![n] = li[f] \o Tail(li[n]), ![f] = <<>>]

\* A first child that gives its place to its own children leaves a forest: CloseParen
\* does this when the paren becomes its first child.
LEMMA Unwrap ==
    ASSUME NEW N, NEW li, NEW sc, Trees(N, li, sc), NEW li2, NEW n, NEW f, UnwrapOf(li, li2, n, f)
    PROVE  /\ Trees(N, li2, sc) /\ f \in N /\ f # n
           /\ li2[n] = li[f] \o Tail(li[n]) /\ li2[f] = <<>>
           /\ \A m \in Nat : m # n /\ m # f => li2[m] = li[m]
  <1> USE DEF UnwrapOf
  <1> DEFINE e == Joint(li, sc)
             t == Tail(li[n])
             M == Range(li[f])
             x == li[f] \o t
  <1>1. Forest(e) /\ e \in Edges0 /\ Acyclic(e) /\ OneParent(e)
    BY TreesFacts
  <1>2. li[n] \in Seq(N) /\ Distinct(li[n]) /\ N \subseteq Nat /\ e[n] = Range(li[n]) \cup Range(sc[n])
    BY TreesFacts
  <1>3. Len(li[n]) \in Nat /\ Len(li[n]) >= 1 /\ f = li[n][1]
    BY <1>2
  <1>4. f \in Range(li[n]) /\ f \in N /\ f \in Nat /\ f \in e[n]
    BY <1>2, <1>3, RangeOf
  <1>5. t \in Seq(N) /\ Distinct(t) /\ Range(t) \subseteq Range(li[n]) /\ f \notin Range(t)
    <2> DEFINE s == li[n]
    <2>1. t \in Seq(N) /\ Len(t) = Len(s) - 1 /\ \A i \in 1 .. Len(s) - 1 : t[i] = s[i + 1]
      BY <1>2, <1>3
    <2> HIDE DEF t
    <2>2. Distinct(t)
      <3> SUFFICES ASSUME NEW i \in 1 .. Len(t), NEW j \in 1 .. Len(t), t[i] = t[j] PROVE i = j
        BY DEF Distinct
      <3>1. i + 1 \in 1 .. Len(s) /\ j + 1 \in 1 .. Len(s) /\ s[i + 1] = s[j + 1]
        BY SMTT(60), <2>1, <1>3
      <3>2. i + 1 = j + 1
        BY <3>1, <1>2 DEF Distinct
      <3> QED
        BY <3>2, <2>1, <1>3
    <2>3. ASSUME NEW y \in Range(t) PROVE y \in Range(s) /\ y # f
      <3>1. PICK i \in 1 .. Len(t) : t[i] = y
        BY <2>1, <2>3, RangeOf
      <3>2. i + 1 \in 1 .. Len(s) /\ y = s[i + 1] /\ i + 1 # 1 /\ 1 \in 1 .. Len(s)
        BY <3>1, <2>1, <1>3
      <3>3. y # f
        BY <3>2, <1>2, <1>3 DEF Distinct
      <3>4. y \in Range(s)
        BY <3>2, <1>2, RangeOf
      <3> QED
        BY <3>3, <3>4
    <2> QED
      BY <2>1, <2>2, <2>3
  <1>6. li[f] \in Seq(N) /\ Distinct(li[f]) /\ e[f] = Range(li[f]) \cup Range(sc[f])
    BY <1>4, TreesFacts
  <1>7. f # n
    <2>1. n \notin Below(e, f)
      BY <1>1, <1>4, NotBelowChild
    <2>2. f \in Below(e, f)
      BY <1>1, <1>4, BelowFacts
    <2> QED
      BY <2>1, <2>2
  <1>8. e[f] \cap e[n] = {}
    BY <1>1, <1>4, <1>7 DEF OneParent
  <1> HIDE DEF t
  <1>9. x \in Seq(N) /\ Distinct(x) /\ Range(x) = M \cup Range(t)
    <2>1. Range(li[f]) \cap Range(t) = {}
      BY <1>2, <1>5, <1>6, <1>8
    <2> DEFINE l == li[f]
    <2>2. l \in Seq(N) /\ Distinct(l) /\ Range(l) \cap Range(t) = {}
      BY <2>1, <1>6
    <2>3. t \in Seq(N) /\ Distinct(t)
      BY <1>5
    <2> HIDE DEF l
    <2>4. l \o t \in Seq(N) /\ Range(l \o t) = Range(l) \cup Range(t) /\ Distinct(l \o t)
      BY <2>2, <2>3, ConcatOf
    <2> QED
      BY <2>4 DEF l
  <1>10. li2 \in [Nat -> Seq(N)] /\ \A m \in Nat : li2[m] = IF m = f THEN <<>> ELSE IF m = n THEN x ELSE li[m]
    <2>1. li \in [Nat -> Seq(N)]
      BY DEF Trees
    <2>2. li2 = [li EXCEPT ![n] = x, ![f] = <<>>] /\ <<>> \in Seq(N)
      BY DEF t
    <2> HIDE DEF x
    <2> QED
      BY ZenonT(60), <2>1, <2>2, <1>4, <1>9
  <1>11. Forest(Moved(e, f, n, M))
    <2>1. M \in SUBSET e[f]
      BY <1>6
    <2> HIDE DEF M, e
    <2> QED
      BY <1>1, <1>4, <2>1, MoveUp
  <1>12. li2[n] = x /\ li2[f] = <<>> /\ \A m \in Nat : m # n /\ m # f => li2[m] = li[m]
    BY Zenon, <1>10, <1>4, <1>7
  <1>13. n \in {0} \cup N
    BY DEF Trees
  <1> HIDE DEF x
  <1>14. Trees(N, li2, sc)
    <2>1. Distinct(li2[f]) /\ Range(li2[f]) = {}
      BY <1>12, EmptyOf
    <2>2. Distinct(li2[n]) /\ Range(li2[n]) \subseteq Range(li[n]) \cup M
      BY ZenonT(60), <1>5, <1>9, <1>12
    <2>3. M \in SUBSET Range(li[f]) /\ Forest(Moved(Joint(li, sc), f, n, M))
      BY <1>11
    <2> HIDE DEF M
    <2>4. \A m \in Nat \ {f, n} : li2[m] = li[m]
      BY <1>12
    <2>5. f \in {0} \cup N /\ n \in {0} \cup N /\ f # n /\ li2 \in [Nat -> Seq(N)]
      BY <1>4, <1>7, <1>10, <1>13
    <2>6. Range(li2[f]) \subseteq Range(li[f]) \ M
      BY Zenon, <2>1
    <2>7. ShiftOf(N, li, li2, f, n, M)
      BY Zenon, <2>1, <2>2, <2>3, <2>4, <2>5, <2>6 DEF ShiftOf
    <2> QED
      BY <2>3, <2>7, Shifted
  <1> QED
    BY Zenon, <1>14, <1>4, <1>7, <1>12 DEF x, t

\* A list in which one element stands for another, as a handler swaps a node for its
\* child.
LEMMA ReplaceOf ==
    ASSUME NEW S, NEW s \in Seq(S), NEW a \in S, NEW b \in S, NEW r, r = ReplaceAll(s, a, b)
    PROVE  /\ r \in Seq(S) /\ Len(r) = Len(s)
           /\ \A i \in 1 .. Len(s) : r[i] = IF s[i] = a THEN b ELSE s[i]
           /\ a \notin Range(s) => r = s
           /\ Range(r) \subseteq (Range(s) \ {a}) \cup {b}
           /\ Distinct(s) /\ b \notin Range(s) => Distinct(r)
  <1>n. Len(s) \in Nat /\ \A i \in 1 .. Len(s) : s[i] \in S
    OBVIOUS
  <1>1. r = [i \in 1 .. Len(s) |-> IF s[i] = a THEN b ELSE s[i]]
    BY DEF ReplaceAll
  <1>2. r \in [1 .. Len(s) -> S]
    BY <1>1, <1>n
  <1>3. r \in Seq(S) /\ Len(r) = Len(s)
    BY <1>2, <1>n
  <1>4. \A i \in 1 .. Len(s) : r[i] = IF s[i] = a THEN b ELSE s[i]
    BY <1>1
  <1>r. \A i \in 1 .. Len(s) : s[i] \in Range(s)
    BY RangeOf
  <1>5. ASSUME a \notin Range(s) PROVE r = s
    <2>1. \A i \in 1 .. Len(s) : r[i] = s[i]
      BY <1>4, <1>5, <1>r
    <2>2. s \in [1 .. Len(s) -> S]
      BY <1>n
    <2> QED
      BY <2>1, <2>2, <1>2
  <1>6. Range(r) \subseteq (Range(s) \ {a}) \cup {b}
    <2> SUFFICES ASSUME NEW y \in Range(r) PROVE y \in (Range(s) \ {a}) \cup {b}
      OBVIOUS
    <2>1. PICK i \in 1 .. Len(s) : r[i] = y
      BY <1>3, RangeOf
    <2> QED
      BY <2>1, <1>4, <1>r
  <1>7. ASSUME Distinct(s), b \notin Range(s) PROVE Distinct(r)
    <2> SUFFICES ASSUME NEW i \in 1 .. Len(s), NEW j \in 1 .. Len(s), r[i] = r[j] PROVE i = j
      BY <1>3 DEF Distinct
    <2>1. s[i] = s[j]
      BY <1>4, <1>7, <1>r
    <2> QED
      BY <2>1, <1>7 DEF Distinct
  <1> QED
    BY <1>3, <1>4, <1>5, <1>6, <1>7

\* The first child of a node takes its place, and the node goes to the end of the
\* children of that.
SwapOf(li, li2, p, on, h) ==
    /\ p \in Nat /\ on \in Range(li[p]) /\ li[on] # <<>> /\ h = Head(li[on])
    /\ li2 = [n \in Nat |-> IF n = on THEN Tail(li[on])
                             ELSE IF n = h THEN Append(li[h], on) ELSE ReplaceAll(li[n], on, h)]

\* A node that changes places with its first child leaves a forest: the list of captures
\* takes the place of the paren after it.
LEMMA SwapHead ==
    ASSUME NEW N, NEW li, NEW sc, Trees(N, li, sc), NEW li2, NEW p, NEW on, NEW h,
           SwapOf(li, li2, p, on, h)
    PROVE  Trees(N, li2, sc) /\ h \in N /\ on \in N /\ h # on
  <1> USE DEF SwapOf
  <1> DEFINE e == Joint(li, sc)
             t == Tail(li[on])
  <1>1. Forest(e) /\ e \in Edges0 /\ Acyclic(e) /\ OneParent(e)
    BY TreesFacts
  <1>2. li[p] \in Seq(N) /\ N \subseteq Nat /\ e[p] = Range(li[p]) \cup Range(sc[p])
    BY TreesFacts
  <1>3. on \in N /\ on \in Nat /\ on \in e[p]
    BY <1>2, RangeOf
  <1>4. li[on] \in Seq(N) /\ Distinct(li[on]) /\ e[on] = Range(li[on]) \cup Range(sc[on])
        /\ Range(li[on]) \cap Range(sc[on]) = {}
    <2>1. li[on] \in Seq(N) /\ Distinct(li[on]) /\ Range(li[on]) \cap Range(sc[on]) = {}
      BY ZenonT(60), <1>3, TreesFacts
    <2>2. e[on] = Range(li[on]) \cup Range(sc[on])
      BY <1>3, TreesFacts
    <2> QED
      BY <2>1, <2>2
  <1>5. h \in Range(li[on]) /\ h \in N /\ h \in Nat /\ h \in e[on]
    <2> DEFINE s == li[on]
    <2>s. s \in Seq(N) /\ s # <<>>
      BY <1>4
    <2>h. h = Head(s)
      OBVIOUS
    <2>e. Range(s) \subseteq e[on]
      BY <1>4
    <2> HIDE DEF s
    <2>1. Len(s) >= 1 /\ h = s[1] /\ Len(s) \in Nat /\ 1 \in 1 .. Len(s)
      BY <2>s, <2>h
    <2>2. h \in Range(s) /\ Range(s) \subseteq N
      BY <2>s, <2>1, RangeOf
    <2> QED
      BY <2>2, <2>e, <1>2 DEF s
  <1>6. on # p /\ h # on /\ h # p
    <2>1. p \notin Below(e, on)
      BY <1>1, <1>3, NotBelowChild
    <2>2. on \notin Below(e, h)
      BY <1>1, <1>3, <1>5, NotBelowChild
    <2>3. on \in Below(e, on) /\ h \in Below(e, h)
      BY <1>1, <1>3, <1>5, BelowFacts
    <2>4. h \in Below(e, on)
      BY <1>1, <1>3, <1>5, BelowChild
    <2> QED
      BY <2>1, <2>2, <2>3, <2>4
  <1> HIDE DEF e
  <1>7. \A n \in Nat : (on \in e[n] => n = p) /\ (h \in e[n] => n = on)
    <2>1. ASSUME NEW n \in Nat, on \in e[n] PROVE n = p
      <3>1. e[n] \cap e[p] # {}
        BY <2>1, <1>3
      <3> QED
        BY <3>1, <1>1 DEF OneParent
    <2>2. ASSUME NEW n \in Nat, h \in e[n] PROVE n = on
      <3>1. e[n] \cap e[on] # {}
        BY <2>2, <1>5
      <3> QED
        BY <3>1, <1>1, <1>3 DEF OneParent
    <2> QED
      BY <2>1, <2>2
  <1> DEFINE A == {h}
             f == Moved(e, on, p, A)
             B == {on}
             g == Moved(f, p, h, B)
  <1>8. Forest(f)
    <2>1. A \in SUBSET e[on]
      BY <1>5
    <2> HIDE DEF A
    <2> QED
      BY <1>1, <1>3, <2>1, MoveUp
  <1>9. \A n \in Nat : f[n] = IF n = p THEN e[n] \cup {h} ELSE IF n = on THEN e[n] \ {h} ELSE e[n]
    BY DEF Moved
  <1>10. Forest(g)
    <2>0. f[p] = e[p] \cup {h}
      BY <1>9
    <2>1. B \in SUBSET f[p] /\ h \in f[p] /\ h \notin B
      BY <2>0, <1>3, <1>6
    <2>2. f \in Edges0
      BY <1>8 DEF Forest
    <2> HIDE DEF B, f
    <2>3. h \in Below(f, h)
      BY <2>2, <1>5, BelowFacts
    <2> QED
      BY <1>8, <2>1, <2>3, MoveUnder
  <1>11. \A n \in Nat : g[n] = IF n = h THEN f[n] \cup {on} ELSE IF n = p THEN f[n] \ {on} ELSE f[n]
    BY DEF Moved
  <1> HIDE DEF f, g
  <1>12. /\ g[h] = e[h] \cup {on} /\ g[p] = (e[p] \cup {h}) \ {on} /\ g[on] = e[on] \ {h}
         /\ \A n \in Nat : n # h /\ n # p /\ n # on => g[n] = e[n]
    BY <1>3, <1>5, <1>6, <1>9, <1>11
  <1>13. t \in Seq(N) /\ Distinct(t) /\ Range(t) \subseteq Range(li[on]) /\ h \notin Range(t)
    <2> DEFINE s == li[on]
    <2>n. Len(s) \in Nat /\ Len(s) >= 1 /\ h = s[1]
      BY <1>4
    <2>1. t \in Seq(N) /\ Len(t) = Len(s) - 1 /\ \A i \in 1 .. Len(s) - 1 : t[i] = s[i + 1]
      BY <1>4, <2>n
    <2> HIDE DEF t
    <2>2. Distinct(t)
      <3> SUFFICES ASSUME NEW i \in 1 .. Len(t), NEW j \in 1 .. Len(t), t[i] = t[j] PROVE i = j
        BY DEF Distinct
      <3>1. i + 1 \in 1 .. Len(s) /\ j + 1 \in 1 .. Len(s) /\ s[i + 1] = s[j + 1]
        BY <2>1, <2>n
      <3>2. i + 1 = j + 1
        BY <3>1, <1>4 DEF Distinct
      <3> QED
        BY <3>2, <2>1, <2>n
    <2>3. ASSUME NEW y \in Range(t) PROVE y \in Range(s) /\ y # h
      <3>1. PICK i \in 1 .. Len(t) : t[i] = y
        BY <2>1, <2>3, RangeOf
      <3>2. i + 1 \in 1 .. Len(s) /\ y = s[i + 1] /\ i + 1 # 1 /\ 1 \in 1 .. Len(s)
        BY <3>1, <2>1, <2>n
      <3>3. y # h
        BY <3>2, <1>4, <2>n DEF Distinct
      <3>4. y \in Range(s)
        BY <3>2, <1>4, RangeOf
      <3> QED
        BY <3>3, <3>4
    <2> QED
      BY <2>1, <2>2, <2>3
  <1>14. ASSUME NEW n \in Nat
         PROVE  /\ li2[n] \in Seq(N) /\ Distinct(li2[n]) /\ Distinct(sc[n])
                /\ Range(li2[n]) \cap Range(sc[n]) = {}
                /\ Range(li2[n]) \cup Range(sc[n]) \subseteq g[n]
                /\ n \notin {0} \cup N => li2[n] = <<>> /\ sc[n] = <<>>
    <2>1. /\ li[n] \in Seq(N) /\ sc[n] \in Seq(N) /\ Distinct(li[n]) /\ Distinct(sc[n])
          /\ Range(li[n]) \cap Range(sc[n]) = {}
      BY DEF Trees
    <2>2. e[n] = Range(li[n]) \cup Range(sc[n])
      BY DEF e, Joint
    <2>3. n \notin {0} \cup N => li[n] = <<>> /\ sc[n] = <<>>
      BY DEF Trees
    <2>4. CASE n = on
      <3>1. li2[n] = t
        BY <2>4
      <3> HIDE DEF t
      <3>2. g[n] = e[n] \ {h} /\ h \notin Range(sc[n])
        BY <2>4, <1>12, <1>4, <1>5
      <3>3. Range(t) \subseteq Range(li[n]) /\ h \notin Range(t)
        BY <2>4, <1>13
      <3>4. Range(t) \cup Range(sc[n]) \subseteq g[n] /\ Range(t) \cap Range(sc[n]) = {}
        BY <3>2, <3>3, <2>1, <2>2
      <3>5. n \in N
        BY <2>4, <1>3
      <3> QED
        BY <3>1, <3>4, <3>5, <2>1, <1>13
    <2>5. CASE n = h
      <3>1. li2[n] = Append(li[n], on)
        BY <2>5, <1>6
      <3>2. on \notin Range(li[n]) /\ on \notin Range(sc[n])
        BY <1>6, <1>7, <2>2, <2>5
      <3> DEFINE l == li[n]
                 v == Append(l, on)
      <3>3. v \in Seq(N) /\ Range(v) = Range(l) \cup {on} /\ Distinct(v)
        <4>1. l \in Seq(N) /\ Distinct(l) /\ on \notin Range(l)
          BY <2>1, <3>2
        <4> HIDE DEF l
        <4> QED
          BY <4>1, <1>3, AppendOf
      <3>4. li2[n] = v
        BY <3>1
      <3> HIDE DEF v
      <3>5. g[n] = e[n] \cup {on}
        BY <2>5, <1>12
      <3>6. Range(v) \cup Range(sc[n]) \subseteq g[n] /\ Range(v) \cap Range(sc[n]) = {}
        BY <3>2, <3>3, <3>5, <2>1, <2>2
      <3>7. n \in N
        BY <2>5, <1>5
      <3> QED
        BY <3>3, <3>4, <3>6, <3>7, <2>1
    <2>6. CASE n # on /\ n # h
      <3> DEFINE l == li[n]
                 v == ReplaceAll(l, on, h)
      <3>1. li2[n] = v
        BY <2>6
      <3>2. h \notin Range(l) /\ h \notin Range(sc[n])
        BY <1>7, <2>2, <2>6
      <3>3. /\ v \in Seq(N) /\ (on \notin Range(l) => v = l)
            /\ Range(v) \subseteq (Range(l) \ {on}) \cup {h} /\ Distinct(v)
        <4>1. l \in Seq(N) /\ Distinct(l) /\ h \notin Range(l)
          BY <2>1, <3>2
        <4> HIDE DEF l
        <4> QED
          BY <4>1, <1>3, <1>5, ReplaceOf
      <3> HIDE DEF v
      <3>4. CASE n = p
        <4>1. on \notin Range(sc[n])
          BY <3>4, <2>1
        <4> QED
          BY <4>1, <3>1, <3>2, <3>3, <3>4, <2>1, <2>2, <2>3, <1>2, <1>12
      <3>5. CASE n # p
        <4>1. on \notin Range(l)
          BY <3>5, <1>7, <2>2
        <4> QED
          BY <4>1, <3>1, <3>3, <3>5, <2>1, <2>2, <2>3, <2>6, <1>12
      <3> QED
        BY <3>4, <3>5
    <2> QED
      BY <2>4, <2>5, <2>6
  <1>15. li2 \in [Nat -> Seq(N)] /\ sc \in [Nat -> Seq(N)]
    <2>1. sc \in [Nat -> Seq(N)]
      BY DEF Trees
    <2>2. DOMAIN li2 = Nat /\ li2 = [n \in Nat |-> li2[n]]
      OBVIOUS
    <2>3. \A n \in Nat : li2[n] \in Seq(N)
      BY <1>14
    <2> QED
      BY <2>1, <2>2, <2>3
  <1>16. Trees(N, li2, sc)
    <2>1. \A n \in Nat \ ({0} \cup N) : li2[n] = <<>> /\ sc[n] = <<>>
      BY <1>14
    <2>2. \A n \in Nat : Distinct(li2[n]) /\ Distinct(sc[n]) /\ Range(li2[n]) \cap Range(sc[n]) = {}
      BY <1>14
    <2>3. \A n \in Nat : Range(li2[n]) \cup Range(sc[n]) \subseteq g[n]
      BY <1>14
    <2> QED
      BY Zenon, <1>10, <1>15, <2>1, <2>2, <2>3, Rebuilt
  <1> QED
    BY <1>3, <1>5, <1>6, <1>16

\* From the list of p the nodes g go, and those in v stay.
Cut(N, li, p, g, v) ==
    /\ g \in Seq(N) /\ Distinct(g) /\ v \in Seq(N) /\ Distinct(v)
    /\ Range(g) \subseteq Range(li[p]) /\ Range(v) \subseteq Range(li[p]) \ Range(g)

\* They go to a node that is below another one of the list.
TakeOf(N, li, sc, li2, p, q, r, g, v) ==
    /\ p \in {0} \cup N /\ r \in Range(li[p]) \ Range(g) /\ q \in Below(Joint(li, sc), r)
    /\ Cut(N, li, p, g, v)
    /\ li2 = [li EXCEPT ![p] = v, ![q] = li[q] \o g]

\* What that gives.
TakeGives(N, li, sc, li2, p, q, g, v) ==
    /\ Trees(N, li2, sc) /\ q \in N /\ q # p
    /\ li2[p] = v /\ li2[q] = li[q] \o g /\ li2[q] \in Seq(N)
    /\ (\A n \in Nat : n # p /\ n # q => li2[n] = li[n])
    /\ Range(li2[q]) = Range(li[q]) \cup Range(g)

\* Nodes taken from a list to the end of that of a node below one that stays leave a
\* forest: a closing gathers what is between it and its opening.
LEMMA TakeSome ==
    ASSUME NEW N, NEW li, NEW sc, Trees(N, li, sc), NEW p, NEW r, NEW q, NEW g, NEW v, NEW li2,
           TakeOf(N, li, sc, li2, p, q, r, g, v)
    PROVE  /\ Trees(N, li2, sc) /\ q \in N /\ q # p
           /\ li2[p] = v /\ li2[q] = li[q] \o g /\ li2[q] \in Seq(N)
           /\ \A n \in Nat : n # p /\ n # q => li2[n] = li[n]
           /\ Range(li2[q]) = Range(li[q]) \cup Range(g)
  <1> USE DEF TakeOf
  <1> DEFINE e == Joint(li, sc)
             M == Range(g)
             y == li[q] \o g
  <1>n. p \in Nat /\ N \subseteq Nat
    <2>1. N \subseteq Nat
      BY DEF Trees
    <2> QED
      BY <2>1
  <1>1. Forest(e) /\ e \in Edges0 /\ Acyclic(e) /\ OneParent(e)
    BY TreesFacts
  <1>2. e[p] = Range(li[p]) \cup Range(sc[p]) /\ e[p] \subseteq N
    BY <1>n, TreesFacts
  <1>3. r \in e[p] /\ r \in Nat
    BY <1>2, <1>n
  <1>4. q \in N /\ q \in Nat /\ q # p
    <2>1. q \in Nat
      BY <1>1, <1>3, BelowFacts
    <2>2. p \notin Below(e, r)
      BY <1>1, <1>3, <1>n, NotBelowChild
    <2>3. DownClosed(e, N)
      BY <1>n, TreesFacts DEF DownClosed
    <2>4. Below(e, r) \subseteq N
      <3>1. N \in SUBSET Nat /\ r \in N
        BY <1>2, <1>3, <1>n
      <3> QED
        BY <3>1, <1>1, <1>3, <2>3, BelowLeast
    <2> QED
      BY <2>1, <2>2, <2>4
  <1>5. li[q] \in Seq(N) /\ Distinct(li[q]) /\ Range(li[q]) \subseteq e[q]
    <2>1. li[q] \in Seq(N) /\ Distinct(li[q])
      BY <1>4, TreesFacts
    <2>2. e[q] = Range(li[q]) \cup Range(sc[q])
      BY <1>4, TreesFacts
    <2> QED
      BY <2>1, <2>2
  <1>6. Range(li[q]) \cap M = {}
    <2>1. e[p] \cap e[q] = {}
      BY <1>1, <1>n, <1>4 DEF OneParent
    <2>2. M \subseteq e[p]
      BY <1>2 DEF Cut
    <2> QED
      BY <2>1, <2>2, <1>5
  <1>7. y \in Seq(N) /\ Range(y) = Range(li[q]) \cup M /\ Distinct(y)
    <2> DEFINE l == li[q]
    <2>1. l \in Seq(N) /\ Distinct(l) /\ Range(l) \cap Range(g) = {}
      BY <1>5, <1>6
    <2>2. g \in Seq(N) /\ Distinct(g)
      BY DEF Cut
    <2> HIDE DEF l
    <2>3. l \o g \in Seq(N) /\ Range(l \o g) = Range(l) \cup Range(g) /\ Distinct(l \o g)
      BY <2>1, <2>2, ConcatOf
    <2> QED
      BY <2>3 DEF l
  <1>8. li \in [Nat -> Seq(N)]
    BY DEF Trees
  <1>9. li2 = [li EXCEPT ![p] = v, ![q] = y]
    OBVIOUS
  <1> HIDE DEF y, e, M
  <1>10. /\ li2 \in [Nat -> Seq(N)] /\ li2[p] = v /\ li2[q] = y
         /\ \A n \in Nat : n # p /\ n # q => li2[n] = li[n]
    <2>1. v \in Seq(N)
      BY DEF Cut
    <2> QED
      BY ZenonT(60), <2>1, <1>8, <1>9, <1>n, <1>4, <1>7
  <1>11. Forest(Moved(e, p, q, M))
    <2>1. M \in SUBSET e[p] /\ r \notin M
      BY <1>2 DEF Cut, M
    <2>2. q \in Below(e, r)
      BY DEF e
    <2> QED
      BY <1>1, <1>n, <1>3, <2>1, <2>2, MoveUnder
  <1>12. ShiftOf(N, li, li2, p, q, M)
    <2>1. M \in SUBSET Range(li[p]) /\ Distinct(v) /\ Range(v) \subseteq Range(li[p]) \ M
      BY DEF Cut, M
    <2> QED
      BY <2>1, <1>4, <1>7, <1>10 DEF ShiftOf
  <1>13. Trees(N, li2, sc)
    <2>1. Forest(Moved(Joint(li, sc), p, q, M))
      BY <1>11 DEF e
    <2> QED
      BY <1>12, <2>1, Shifted
  <1> QED
    BY <1>4, <1>7, <1>10, <1>13 DEF y, M

\* Of a list s the nodes between the places i and c, and the rest, with or without the one
\* at c.
Split(s, i, c, g, v) ==
    /\ i \in Nat /\ c \in Nat /\ 1 <= i /\ i < c /\ c <= Len(s) + 1
    /\ g = SubSeq(s, i + 1, c - 1)
    /\ \E d \in {c, c + 1} : v = SubSeq(s, 1, i) \o SubSeq(s, d, Len(s))

\* The nodes before, between and after two places of a list are apart, and those before
\* stay where they are.
LEMMA SplitOf ==
    ASSUME NEW N, NEW s \in Seq(N), Distinct(s), NEW i, NEW c, NEW g, NEW v, Split(s, i, c, g, v)
    PROVE  /\ g \in Seq(N) /\ Distinct(g) /\ v \in Seq(N) /\ Distinct(v)
           /\ Range(g) \subseteq Range(s) /\ Range(v) \subseteq Range(s) \ Range(g)
           /\ s[i] \in Range(s) /\ s[i] \notin Range(g)
           /\ Len(v) \in Nat /\ i <= Len(v) /\ \A k \in 1 .. i : v[k] = s[k]
  <1>p. PICK d \in {c, c + 1} : v = SubSeq(s, 1, i) \o SubSeq(s, d, Len(s))
    BY DEF Split
  <1> DEFINE a == SubSeq(s, 1, i)
             b == SubSeq(s, d, Len(s))
             m == i + 1
             k0 == c - 1
             L == Len(s)
  <1>n. /\ L \in Nat /\ m \in Nat /\ k0 \in Nat /\ d \in Nat /\ k0 <= L /\ m >= 1 /\ d >= 1
        /\ i < m /\ k0 < d /\ i < d /\ i >= 1 /\ i \in 1 .. L /\ i <= L /\ L <= L
        /\ 1 \in Nat /\ 1 >= 1 /\ i \in Nat /\ c \in Nat
    BY <1>p DEF Split
  <1>d. g = SubSeq(s, m, k0) /\ a = SubSeq(s, 1, i) /\ b = SubSeq(s, d, L) /\ v = a \o b
    BY <1>p DEF Split
  <1>r. s[i] \in Range(s)
    BY <1>n, RangeOf
  <1>l. L = Len(s)
    OBVIOUS
  <1>6. \A j, k \in 1 .. L : s[j] = s[k] => j = k
    BY DEF Distinct
  <1> HIDE DEF m, k0, a, b, L
  <1>1. g \in Seq(N) /\ Distinct(g) /\ Range(g) = {s[k] : k \in m .. k0} /\ Range(g) \subseteq Range(s)
    <2>1. SubSeq(s, m, k0) \in Seq(N) /\ Distinct(SubSeq(s, m, k0))
          /\ Range(SubSeq(s, m, k0)) = {s[k] : k \in m .. k0} /\ Range(SubSeq(s, m, k0)) \subseteq Range(s)
      BY <1>n, <1>l, SubSeqOf
    <2> QED
      BY <2>1, <1>d
  <1>2. a \in Seq(N) /\ Distinct(a) /\ Range(a) = {s[k] : k \in 1 .. i} /\ Range(a) \subseteq Range(s)
        /\ Len(a) = i /\ \A k \in 1 .. i : a[k] = s[k]
    <2>1. /\ SubSeq(s, 1, i) \in Seq(N) /\ Distinct(SubSeq(s, 1, i))
          /\ Range(SubSeq(s, 1, i)) = {s[k] : k \in 1 .. i} /\ Range(SubSeq(s, 1, i)) \subseteq Range(s)
      BY <1>n, <1>l, SubSeqOf
    <2>2. Len(SubSeq(s, 1, i)) = i /\ \A k \in 1 .. i : SubSeq(s, 1, i)[k] = s[k]
      BY <1>n, <1>l
    <2> QED
      BY <2>1, <2>2, <1>d
  <1>4. b \in Seq(N) /\ Distinct(b) /\ Range(b) = {s[k] : k \in d .. L} /\ Range(b) \subseteq Range(s)
        /\ Len(b) \in Nat
    <2>1. /\ SubSeq(s, d, L) \in Seq(N) /\ Distinct(SubSeq(s, d, L))
          /\ Range(SubSeq(s, d, L)) = {s[k] : k \in d .. L} /\ Range(SubSeq(s, d, L)) \subseteq Range(s)
      BY <1>n, <1>l, SubSeqOf
    <2> QED
      BY <2>1, <1>d
  <1>7. Range(a) \cap Range(b) = {} /\ Range(a) \cap Range(g) = {} /\ Range(b) \cap Range(g) = {}
    <2>1. \A j \in 1 .. i, k \in d .. L : s[j] # s[k]
      BY <1>6, <1>n
    <2>2. \A j \in 1 .. i, k \in m .. k0 : s[j] # s[k]
      BY <1>6, <1>n
    <2>3. \A j \in d .. L, k \in m .. k0 : s[j] # s[k]
      BY <1>6, <1>n
    <2> QED
      BY <2>1, <2>2, <2>3, <1>1, <1>2, <1>4
  <1>8. s[i] \notin Range(g)
    <2>1. \A k \in m .. k0 : s[i] # s[k]
      BY <1>6, <1>n
    <2> QED
      BY <2>1, <1>1
  <1>9. /\ a \o b \in Seq(N) /\ Range(a \o b) = Range(a) \cup Range(b) /\ Distinct(a \o b)
        /\ Len(a \o b) = Len(a) + Len(b) /\ \A k \in 1 .. Len(a) : (a \o b)[k] = a[k]
    <2>1. a \in Seq(N) /\ b \in Seq(N) /\ Distinct(a) /\ Distinct(b) /\ Range(a) \cap Range(b) = {}
      BY <1>2, <1>4, <1>7
    <2> QED
      BY <2>1, ConcatOf
  <1>10. /\ v \in Seq(N) /\ Range(v) = Range(a) \cup Range(b) /\ Distinct(v)
         /\ Len(v) = i + Len(b) /\ \A k \in 1 .. i : v[k] = s[k]
    BY <1>9, <1>d, <1>2
  <1>11. Len(v) \in Nat /\ i <= Len(v)
    BY <1>10, <1>4, <1>n
  <1>12. Range(v) \subseteq Range(s) \ Range(g)
    BY <1>10, <1>2, <1>4, <1>7
  <1> QED
    BY <1>1, <1>8, <1>10, <1>11, <1>12, <1>r

\* One node goes from the list of p to the end of that of q.
OneOf(N, li, sc, li2, p, q, i, j) ==
    /\ p \in {0} \cup N /\ i \in 1 .. Len(li[p]) /\ j \in 1 .. Len(li[p]) /\ i # j
    /\ q \in Below(Joint(li, sc), li[p][j])
    /\ li2 = [li EXCEPT ![p] = RemoveAt(li[p], i), ![q] = Append(li[q], li[p][i])]

\* What that gives.
TakeOneGives(N, li, sc, li2, p, q, i) ==
    /\ Trees(N, li2, sc) /\ q \in N /\ q # p
    /\ li2[p] = RemoveAt(li[p], i) /\ li2[q] = Append(li[q], li[p][i])
    /\ li2[p] \in Seq(N) /\ li2[q] \in Seq(N)
    /\ Len(li2[p]) = Len(li[p]) - 1
    /\ (\A k \in 1 .. Len(li[p]) - 1 : li2[p][k] = IF k < i THEN li[p][k] ELSE li[p][k + 1])
    /\ (\A n \in Nat : n # p /\ n # q => li2[n] = li[n])
    /\ Range(li2[q]) = Range(li[q]) \cup {li[p][i]}

\* One node taken from a list to the end of that of a node below another one leaves a
\* forest: an operator takes an operand.
LEMMA TakeOne ==
    ASSUME NEW N, NEW li, NEW sc, Trees(N, li, sc), NEW p, NEW q, NEW i, NEW j, NEW li2,
           OneOf(N, li, sc, li2, p, q, i, j)
    PROVE  TakeOneGives(N, li, sc, li2, p, q, i)
  <1> DEFINE s == li[p]
             x == s[i]
             g == <<x>>
             v == RemoveAt(s, i)
  <1>n. p \in Nat /\ N \subseteq Nat
    <2>1. N \subseteq Nat
      BY DEF Trees
    <2> QED
      BY <2>1 DEF OneOf
  <1>1. s \in Seq(N) /\ Distinct(s)
    BY <1>n, TreesFacts
  <1>2. x \in Range(s) /\ s[j] \in Range(s) /\ x # s[j] /\ x \in N
    <2> HIDE DEF s
    <2>1. i \in 1 .. Len(s) /\ j \in 1 .. Len(s) /\ i # j
      BY DEF s, OneOf
    <2>2. s[i] \in Range(s) /\ s[j] \in Range(s) /\ Range(s) \subseteq N
      BY <1>1, <2>1, RangeOf
    <2> QED
      BY <2>2, <2>1, <1>1 DEF Distinct
  <1>3. /\ v \in Seq(N) /\ Distinct(v) /\ Range(v) \subseteq Range(s) /\ x \notin Range(v)
        /\ Len(v) = Len(s) - 1
        /\ \A k \in 1 .. Len(s) - 1 : v[k] = IF k < i THEN s[k] ELSE s[k + 1]
    <2> HIDE DEF s
    <2>1. i \in 1 .. Len(s)
      BY DEF s, OneOf
    <2> QED
      BY <2>1, <1>1, RemoveOf
  <1>4. g \in Seq(N) /\ Distinct(g) /\ Range(g) = {x}
    <2>1. g \in Seq(N) /\ Len(g) = 1 /\ g[1] = x
      BY <1>2
    <2> HIDE DEF g
    <2>2. Range(g) = {x}
      <3>1. DOMAIN g = {1}
        BY <2>1
      <3> QED
        BY <3>1, <2>1 DEF Range
    <2>3. Distinct(g)
      BY <2>1 DEF Distinct
    <2> QED
      BY <2>1, <2>2, <2>3
  <1>5. Cut(N, li, p, g, v)
    <2> HIDE DEF g, v, x
    <2> QED
      BY <1>2, <1>3, <1>4 DEF Cut
  <1>6. Append(li[q], x) = li[q] \o g /\ q \in Nat
    <2>1. Joint(li, sc) \in Edges0 /\ Joint(li, sc)[p] = Range(li[p]) \cup Range(sc[p])
      BY <1>n, TreesFacts
    <2>2. s[j] \in Nat
      <3>1. Joint(li, sc)[p] \subseteq N
        BY <1>n, TreesFacts
      <3> QED
        BY <3>1, <2>1, <1>2, <1>n
    <2>3. q \in Nat
      <3>1. q \in Below(Joint(li, sc), s[j])
        BY DEF OneOf
      <3> QED
        BY <2>1, <2>2, <3>1, BelowFacts
    <2>4. li[q] \in Seq(N)
      BY <2>3, TreesFacts
    <2> DEFINE l == li[q]
    <2>5. l \in Seq(N)
      BY <2>4
    <2> HIDE DEF l, x
    <2>6. Append(l, x) = l \o <<x>>
      BY <2>5, <1>2
    <2> QED
      BY <2>3, <2>6 DEF l
  <1>7. li2 = [li EXCEPT ![p] = v, ![q] = li[q] \o g]
    BY <1>6 DEF OneOf
  <1>8. s[j] \notin Range(g)
    BY <1>2, <1>4
  <1> DEFINE r == s[j]
  <1>9. r \in Range(li[p]) /\ q \in Below(Joint(li, sc), r) /\ r \notin Range(g)
    BY <1>2, <1>8 DEF OneOf
  <1> HIDE DEF r, g, v, x, s
  <1>t. TakeOf(N, li, sc, li2, p, q, r, g, v)
    BY <1>5, <1>7, <1>9 DEF TakeOf, OneOf
  <1>10. /\ Trees(N, li2, sc) /\ q \in N /\ q # p
         /\ li2[p] = v /\ li2[q] = li[q] \o g /\ li2[q] \in Seq(N)
         /\ \A n \in Nat : n # p /\ n # q => li2[n] = li[n]
         /\ Range(li2[q]) = Range(li[q]) \cup Range(g)
    BY <1>t, TakeSome
  <1> QED
    BY <1>10, <1>3, <1>4, <1>6 DEF v, x, s, TakeOneGives

\* Lists whose elements are edges of the forest e.
BuiltOf(N, li, sc, e) ==
    /\ N \in SUBSET (Nat \ {0})
    /\ li \in [Nat -> Seq(N)] /\ sc \in [Nat -> Seq(N)] /\ Forest(e)
    /\ \A n \in Nat : /\ Distinct(li[n]) /\ Distinct(sc[n]) /\ Range(li[n]) \cap Range(sc[n]) = {}
                      /\ Range(li[n]) \cup Range(sc[n]) \subseteq e[n]
                      /\ n \notin {0} \cup N => li[n] = <<>> /\ sc[n] = <<>>

\* Lists whose elements are among the edges of some forest are trees.
LEMMA Built ==
    ASSUME NEW N, NEW li, NEW sc, NEW e, BuiltOf(N, li, sc, e)
    PROVE  Trees(N, li, sc)
  <1> USE DEF BuiltOf
  <1>1. N \subseteq Nat
    OBVIOUS
  <1>2. \A n \in Nat : Range(li[n]) \subseteq N /\ Range(sc[n]) \subseteq N
    BY RangeOf
  <1>3. Joint(li, sc) \in Edges0
    BY <1>1, <1>2 DEF Joint, Edges0
  <1>4. Forest(Joint(li, sc))
    <2>1. \A n \in Nat : Joint(li, sc)[n] \subseteq e[n]
      BY DEF Joint
    <2> QED
      BY <1>3, <2>1, Fewer
  <1> QED
    BY <1>4 DEF Trees

\* A new node is a scope of h and has the child x, a sibling of h before.
WrapOf(N, li, sc, li2, sc2, p, h, x, new, v) ==
    /\ p \in {0} \cup N /\ h \in Range(li[p]) /\ x \in Range(li[p]) /\ h # x
    /\ new \in Nat \ ({0} \cup N)
    /\ v \in Seq(N) /\ Distinct(v) /\ Range(v) \subseteq Range(li[p]) \ {x}
    /\ li2 = [li EXCEPT ![p] = v, ![new] = <<x>>]
    /\ sc2 = [sc EXCEPT ![h] = Append(sc[h], new)]

\* What that gives.
WrapGives(N, li, sc, li2, sc2, p, h, x, new, v) ==
    /\ Trees(N \cup {new}, li2, sc2) /\ h \in N /\ x \in N /\ h # p
    /\ li2[p] = v /\ li2[new] = <<x>> /\ (\A n \in Nat : n # p /\ n # new => li2[n] = li[n])
    /\ sc2[h] = Append(sc[h], new) /\ Range(sc2[h]) = Range(sc[h]) \cup {new}
    /\ \A n \in Nat : n # h => sc2[n] = sc[n]

\* A new scope around a sibling of its holder leaves a forest: what Wrap does.
LEMMA WrapTree ==
    ASSUME NEW N, NEW li, NEW sc, Trees(N, li, sc), NEW li2, NEW sc2, NEW p, NEW h, NEW x, NEW new,
           NEW v, WrapOf(N, li, sc, li2, sc2, p, h, x, new, v)
    PROVE  WrapGives(N, li, sc, li2, sc2, p, h, x, new, v)
  <1> DEFINE e == Joint(li, sc)
             N2 == N \cup {new}
  <1>n. p \in Nat /\ N \subseteq Nat /\ 0 \notin N /\ new \in Nat /\ new \notin N /\ new # 0 /\ p # new
    <2>1. N \subseteq Nat /\ 0 \notin N
      BY DEF Trees
    <2> QED
      BY <2>1 DEF WrapOf
  <1>1. Forest(e) /\ e \in Edges0 /\ Acyclic(e) /\ OneParent(e)
    BY TreesFacts
  <1>2. e[p] = Range(li[p]) \cup Range(sc[p]) /\ e[p] \subseteq N
    BY <1>n, TreesFacts
  <1>3. h \in e[p] /\ x \in e[p] /\ h \in N /\ x \in N /\ h \in Nat /\ h # new /\ h # x
    BY <1>2, <1>n DEF WrapOf
  <1>4. h # p
    <2>1. p \notin Below(e, h)
      BY <1>1, <1>3, <1>n, NotBelowChild
    <2>2. h \in Below(e, h)
      BY <1>1, <1>3, BelowFacts
    <2> QED
      BY <2>1, <2>2
  <1>5. ASSUME NEW n \in Nat
        PROVE  /\ li[n] \in Seq(N) /\ sc[n] \in Seq(N) /\ Distinct(li[n]) /\ Distinct(sc[n])
               /\ Range(li[n]) \cap Range(sc[n]) = {} /\ e[n] = Range(li[n]) \cup Range(sc[n])
               /\ e[n] \subseteq N /\ new \notin e[n]
               /\ n \notin {0} \cup N => li[n] = <<>> /\ sc[n] = <<>>
    <2>1. /\ li[n] \in Seq(N) /\ sc[n] \in Seq(N) /\ Distinct(li[n]) /\ Distinct(sc[n])
          /\ Range(li[n]) \cap Range(sc[n]) = {}
      BY ZenonT(60), TreesFacts
    <2>2. e[n] = Range(li[n]) \cup Range(sc[n]) /\ e[n] \subseteq N
      BY TreesFacts
    <2>3. n \notin {0} \cup N => li[n] = <<>> /\ sc[n] = <<>>
      BY DEF Trees
    <2> QED
      BY <2>1, <2>2, <2>3, <1>n
  <1>t. li \in [Nat -> Seq(N)] /\ sc \in [Nat -> Seq(N)]
    BY DEF Trees
  <1>6. e[new] = {} /\ li[new] = <<>> /\ sc[new] = <<>>
    <2>1. li[new] = <<>> /\ sc[new] = <<>>
      BY <1>5, <1>n
    <2>2. Range(<<>>) = {}
      BY EmptyOf
    <2> QED
      BY <2>1, <2>2, <1>5, <1>n
  <1> HIDE DEF e
  <1> DEFINE f == [e EXCEPT ![h] = @ \cup {new}]
             M == {x}
             g == Moved(f, p, new, M)
  <1>7. Forest(f)
    BY <1>1, <1>3, <1>5, <1>6, <1>n, NewLeaf
  <1>8. \A n \in Nat : f[n] = IF n = h THEN e[n] \cup {new} ELSE e[n]
    BY <1>1, <1>3 DEF Edges0
  <1>9. Forest(g)
    <2>1. f \in Edges0
      BY <1>7 DEF Forest
    <2>2. f[p] = e[p] /\ new \in f[h]
      BY <1>8, <1>n, <1>3, <1>4
    <2> HIDE DEF f
    <2>3. new \in Below(f, h)
      BY <2>1, <2>2, <1>3, BelowChild
    <2>4. M \in SUBSET f[p] /\ h \in f[p] /\ h \notin M
      BY <2>2, <1>3
    <2> HIDE DEF M
    <2> QED
      BY <1>7, <1>n, <2>3, <2>4, MoveUnder
  <1>10. \A n \in Nat : g[n] = IF n = new THEN {x} ELSE IF n = p THEN e[n] \ {x}
                               ELSE IF n = h THEN e[n] \cup {new} ELSE e[n]
    <2>1. \A n \in Nat : g[n] = IF n = new THEN f[n] \cup {x} ELSE IF n = p THEN f[n] \ {x} ELSE f[n]
      BY DEF Moved
    <2> HIDE DEF f, g
    <2>2. f[new] = {} /\ f[p] = e[p]
      BY <1>8, <1>6, <1>n, <1>3, <1>4
    <2> QED
      BY <2>1, <2>2, <1>8
  <1> HIDE DEF f, g
  <1>11. N \subseteq N2 /\ N2 \in SUBSET (Nat \ {0}) /\ \A s \in Seq(N) : s \in Seq(N2)
    BY <1>n
  <1>12. v \in Seq(N2) /\ <<x>> \in Seq(N2) /\ Distinct(v) /\ Range(v) \subseteq Range(li[p]) \ {x}
    BY <1>3, <1>11 DEF WrapOf
  <1>13. Distinct(<<x>>) /\ Range(<<x>>) = {x}
    <2> DEFINE o == <<x>>
    <2>1. Len(o) = 1 /\ o[1] = x /\ DOMAIN o = {1}
      OBVIOUS
    <2> HIDE DEF o
    <2>2. Distinct(o) /\ Range(o) = {x}
      BY <2>1 DEF Distinct, Range
    <2> QED
      BY <2>2 DEF o
  <1>14. /\ Append(sc[h], new) \in Seq(N2) /\ Distinct(Append(sc[h], new))
         /\ Range(Append(sc[h], new)) = Range(sc[h]) \cup {new}
    <2> DEFINE l == sc[h]
    <2>1. l \in Seq(N2) /\ Distinct(l) /\ new \notin Range(l)
      BY <1>3, <1>5, <1>11
    <2> HIDE DEF l
    <2>2. new \in N2
      OBVIOUS
    <2> HIDE DEF N2
    <2>3. Append(l, new) \in Seq(N2) /\ Distinct(Append(l, new)) /\ Range(Append(l, new)) = Range(l) \cup {new}
      BY <2>1, <2>2, AppendOf
    <2> QED
      BY <2>3 DEF l
  <1> DEFINE o == <<x>>
             w == Append(sc[h], new)
  <1>15. /\ \A n \in Nat : li2[n] = IF n = new THEN o ELSE IF n = p THEN v ELSE li[n]
         /\ \A n \in Nat : sc2[n] = IF n = h THEN w ELSE sc[n]
         /\ DOMAIN li2 = Nat /\ DOMAIN sc2 = Nat
         /\ li2 = [n \in Nat |-> li2[n]] /\ sc2 = [n \in Nat |-> sc2[n]]
    <2>1. li2 = [li EXCEPT ![p] = v, ![new] = o] /\ sc2 = [sc EXCEPT ![h] = w]
      BY DEF WrapOf
    <2> HIDE DEF o, w
    <2> QED
      BY <2>1, <1>t, <1>n, <1>3
  <1> HIDE DEF N2, o, w
  <1>16. o \in Seq(N2) /\ Distinct(o) /\ Range(o) = {x} /\ w \in Seq(N2) /\ Distinct(w)
         /\ Range(w) = Range(sc[h]) \cup {new}
    BY <1>12, <1>13, <1>14 DEF o, w
  <1>17. ASSUME NEW n \in Nat
         PROVE  /\ li2[n] \in Seq(N2) /\ sc2[n] \in Seq(N2) /\ Distinct(li2[n]) /\ Distinct(sc2[n])
                /\ Range(li2[n]) \cap Range(sc2[n]) = {}
                /\ Range(li2[n]) \cup Range(sc2[n]) \subseteq g[n]
                /\ n \notin {0} \cup N2 => li2[n] = <<>> /\ sc2[n] = <<>>
    <2>1. CASE n = new
      <3>1. li2[n] = o /\ sc2[n] = <<>> /\ g[n] = {x}
        BY <2>1, <1>15, <1>6, <1>10, <1>3, <1>n
      <3>2. <<>> \in Seq(N2) /\ Distinct(<<>>) /\ Range(<<>>) = {}
        BY EmptyOf
      <3>3. n \in N2
        BY <2>1 DEF N2
      <3> QED
        BY <3>1, <3>2, <3>3, <1>16
    <2>2. CASE n = p
      <3>1. li2[n] = v /\ sc2[n] = sc[n] /\ g[n] = e[n] \ {x}
        BY <2>2, <1>15, <1>10, <1>4, <1>n
      <3>2. x \in Range(li[n])
        BY <2>2 DEF WrapOf
      <3>3. sc[n] \in Seq(N2) /\ n \in {0} \cup N2
        BY <2>2, <1>5, <1>11, <1>n DEF WrapOf
      <3>4. /\ Range(li[n]) \cap Range(sc[n]) = {} /\ e[n] = Range(li[n]) \cup Range(sc[n])
            /\ Range(v) \subseteq Range(li[n]) \ {x} /\ Distinct(sc[n])
        BY <2>2, <1>5, <1>12
      <3>5. Range(v) \cap Range(sc[n]) = {} /\ Range(v) \cup Range(sc[n]) \subseteq g[n]
        BY <3>1, <3>2, <3>4
      <3> QED
        BY <3>1, <3>3, <3>4, <3>5, <1>12
    <2>3. CASE n = h
      <3>1. li2[n] = li[n] /\ sc2[n] = w /\ g[n] = e[n] \cup {new}
        BY <2>3, <1>15, <1>10, <1>4, <1>n, <1>3
      <3>2. li[n] \in Seq(N2) /\ n \in {0} \cup N2
        BY <2>3, <1>5, <1>11, <1>3
      <3>3. Range(w) = Range(sc[n]) \cup {new}
        BY <2>3, <1>16
      <3>4. Range(li[n]) \cap Range(w) = {} /\ Range(li[n]) \cup Range(w) \subseteq g[n]
        BY ZenonT(60), <3>1, <3>3, <1>5
      <3>5. Distinct(li[n])
        BY <1>5
      <3> QED
        BY <3>1, <3>2, <3>4, <3>5, <1>16
    <2>4. CASE n # new /\ n # p /\ n # h
      <3>1. li2[n] = li[n] /\ sc2[n] = sc[n] /\ g[n] = e[n]
        BY <2>4, <1>15, <1>10
      <3>2. li[n] \in Seq(N2) /\ sc[n] \in Seq(N2)
        BY <1>5, <1>11
      <3>3. n \notin {0} \cup N2 => n \notin {0} \cup N
        BY <1>11
      <3> QED
        BY <3>1, <3>2, <3>3, <1>5
    <2> QED
      BY <2>1, <2>2, <2>3, <2>4
  <1>18. BuiltOf(N2, li2, sc2, g)
    <2>1. li2 \in [Nat -> Seq(N2)] /\ sc2 \in [Nat -> Seq(N2)]
      <3>1. \A n \in Nat : li2[n] \in Seq(N2) /\ sc2[n] \in Seq(N2)
        BY <1>17
      <3> QED
        BY <3>1, <1>15
    <2> QED
      BY <2>1, <1>9, <1>11, <1>17 DEF BuiltOf
  <1>19. Trees(N2, li2, sc2)
    BY <1>18, Built
  <1> QED
    BY <1>3, <1>4, <1>15, <1>16, <1>19, <1>n DEF N2, o, w, WrapGives

\* A node of the list of h becomes a scope of it.
PromoteOf(N, li, sc, li2, sc2, h, x, v) ==
    /\ h \in {0} \cup N /\ x \in Range(li[h])
    /\ v \in Seq(N) /\ Distinct(v) /\ Range(v) \subseteq Range(li[h]) \ {x}
    /\ li2 = [li EXCEPT ![h] = v]
    /\ sc2 = [sc EXCEPT ![h] = Append(sc[h], x)]

\* What that gives.
PromoteGives(N, li, sc, li2, sc2, h, x, v) ==
    /\ Trees(N, li2, sc2) /\ li2[h] = v /\ sc2[h] = Append(sc[h], x)
    /\ Range(sc2[h]) = Range(sc[h]) \cup {x}
    /\ (\A n \in Nat : n # h => li2[n] = li[n] /\ sc2[n] = sc[n])
    /\ \A n \in Nat : Joint(li2, sc2)[n] \subseteq Joint(li, sc)[n]

\* A child that becomes a scope of its parent leaves a forest: what CloseBrace does with
\* the opening.
LEMMA PromoteTree ==
    ASSUME NEW N, NEW li, NEW sc, Trees(N, li, sc), NEW li2, NEW sc2, NEW h, NEW x, NEW v,
           PromoteOf(N, li, sc, li2, sc2, h, x, v)
    PROVE  PromoteGives(N, li, sc, li2, sc2, h, x, v)
  <1> DEFINE e == Joint(li, sc)
             w == Append(sc[h], x)
  <1>n. h \in Nat /\ N \subseteq Nat /\ N \in SUBSET (Nat \ {0})
    <2>1. N \in SUBSET (Nat \ {0})
      BY DEF Trees
    <2> QED
      BY <2>1 DEF PromoteOf
  <1>1. Forest(e)
    BY TreesFacts
  <1>5. ASSUME NEW n \in Nat
        PROVE  /\ li[n] \in Seq(N) /\ sc[n] \in Seq(N) /\ Distinct(li[n]) /\ Distinct(sc[n])
               /\ Range(li[n]) \cap Range(sc[n]) = {} /\ e[n] = Range(li[n]) \cup Range(sc[n])
               /\ e[n] \subseteq N
               /\ n \notin {0} \cup N => li[n] = <<>> /\ sc[n] = <<>>
    <2>1. /\ li[n] \in Seq(N) /\ sc[n] \in Seq(N) /\ Distinct(li[n]) /\ Distinct(sc[n])
          /\ Range(li[n]) \cap Range(sc[n]) = {}
      BY ZenonT(60), TreesFacts
    <2>2. e[n] = Range(li[n]) \cup Range(sc[n]) /\ e[n] \subseteq N
      BY TreesFacts
    <2>3. n \notin {0} \cup N => li[n] = <<>> /\ sc[n] = <<>>
      BY DEF Trees
    <2> QED
      BY <2>1, <2>2, <2>3
  <1>t. li \in [Nat -> Seq(N)] /\ sc \in [Nat -> Seq(N)]
    BY DEF Trees
  <1>6. w \in Seq(N) /\ Distinct(w) /\ Range(w) = Range(sc[h]) \cup {x}
    <2> DEFINE l == sc[h]
    <2>0. x \in Range(li[h])
      BY DEF PromoteOf
    <2>1. l \in Seq(N) /\ Distinct(l) /\ x \notin Range(l) /\ x \in N
      BY <1>n, <1>5, <2>0
    <2> HIDE DEF l
    <2>3. Append(l, x) \in Seq(N) /\ Distinct(Append(l, x)) /\ Range(Append(l, x)) = Range(l) \cup {x}
      BY <2>1, AppendOf
    <2> QED
      BY <2>3 DEF l
  <1>7. v \in Seq(N) /\ Distinct(v) /\ Range(v) \subseteq Range(li[h]) \ {x} /\ x \in Range(li[h])
        /\ h \in {0} \cup N
    BY DEF PromoteOf
  <1>8. /\ \A n \in Nat : li2[n] = IF n = h THEN v ELSE li[n]
        /\ \A n \in Nat : sc2[n] = IF n = h THEN w ELSE sc[n]
        /\ li2 = [n \in Nat |-> li2[n]] /\ sc2 = [n \in Nat |-> sc2[n]]
    <2>1. li2 = [li EXCEPT ![h] = v] /\ sc2 = [sc EXCEPT ![h] = w]
      BY DEF PromoteOf
    <2> HIDE DEF w
    <2> QED
      BY <2>1, <1>t, <1>n
  <1> HIDE DEF w, e
  <1>9. ASSUME NEW n \in Nat
        PROVE  /\ li2[n] \in Seq(N) /\ sc2[n] \in Seq(N) /\ Distinct(li2[n]) /\ Distinct(sc2[n])
               /\ Range(li2[n]) \cap Range(sc2[n]) = {}
               /\ Range(li2[n]) \cup Range(sc2[n]) \subseteq e[n]
               /\ n \notin {0} \cup N => li2[n] = <<>> /\ sc2[n] = <<>>
    <2>1. CASE n = h
      <3>1. li2[n] = v /\ sc2[n] = w
        BY <2>1, <1>8
      <3>2. /\ Range(li[n]) \cap Range(sc[n]) = {} /\ e[n] = Range(li[n]) \cup Range(sc[n])
            /\ Range(w) = Range(sc[n]) \cup {x} /\ Range(v) \subseteq Range(li[n]) \ {x}
            /\ x \in Range(li[n])
        BY <2>1, <1>5, <1>6, <1>7
      <3>3. Range(v) \cap Range(w) = {} /\ Range(v) \cup Range(w) \subseteq e[n]
        BY <3>2
      <3>4. n \in {0} \cup N
        BY <2>1, <1>7
      <3> QED
        BY <3>1, <3>3, <3>4, <1>6, <1>7
    <2>2. CASE n # h
      <3>1. li2[n] = li[n] /\ sc2[n] = sc[n]
        BY <2>2, <1>8
      <3> QED
        BY <3>1, <1>5
    <2> QED
      BY <2>1, <2>2
  <1>10. BuiltOf(N, li2, sc2, e)
    <2>1. li2 \in [Nat -> Seq(N)] /\ sc2 \in [Nat -> Seq(N)]
      <3>1. \A n \in Nat : li2[n] \in Seq(N) /\ sc2[n] \in Seq(N)
        BY <1>9
      <3> QED
        BY <3>1, <1>8
    <2> QED
      BY <2>1, <1>1, <1>n, <1>9 DEF BuiltOf
  <1>11. Trees(N, li2, sc2)
    BY <1>10, Built
  <1>12. \A n \in Nat : Joint(li2, sc2)[n] \subseteq e[n]
    BY <1>9 DEF Joint
  <1> QED
    BY <1>11, <1>12, <1>6, <1>8, <1>n DEF e, w, PromoteGives

\* A scope of f becomes one of q, which is below a sibling of f.
JoinOf(N, li, sc, li2, sc2, p, f, r, q, v) ==
    /\ p \in {0} \cup N /\ f \in Range(li[p]) /\ r \in Range(li[p]) /\ r # f /\ sc[f] # <<>>
    /\ q \in Below(Joint(li, sc), r)
    /\ v \in Seq(N) /\ Distinct(v) /\ Range(v) \subseteq Range(li[p])
    /\ li2 = [li EXCEPT ![p] = v]
    /\ sc2 = [sc EXCEPT ![q] = Append(sc[q], Head(sc[f])), ![f] = Tail(sc[f])]

\* A list without its first element.
LEMMA TailOf ==
    ASSUME NEW S, NEW s \in Seq(S), s # <<>>, Distinct(s)
    PROVE  /\ Tail(s) \in Seq(S) /\ Distinct(Tail(s)) /\ Head(s) \in Range(s) /\ Head(s) \notin Range(Tail(s))
           /\ Range(Tail(s)) \subseteq Range(s)
  <1> DEFINE t == Tail(s)
             h == Head(s)
  <1>n. Len(s) \in Nat /\ Len(s) >= 1 /\ h = s[1] /\ 1 \in 1 .. Len(s)
    OBVIOUS
  <1>1. t \in Seq(S) /\ Len(t) = Len(s) - 1 /\ \A i \in 1 .. Len(s) - 1 : t[i] = s[i + 1]
    BY <1>n
  <1> HIDE DEF t, h
  <1>2. Distinct(t)
    <2> SUFFICES ASSUME NEW i \in 1 .. Len(t), NEW j \in 1 .. Len(t), t[i] = t[j] PROVE i = j
      BY DEF Distinct
    <2>1. i + 1 \in 1 .. Len(s) /\ j + 1 \in 1 .. Len(s) /\ s[i + 1] = s[j + 1]
      BY <1>1, <1>n
    <2>2. i + 1 = j + 1
      BY <2>1 DEF Distinct
    <2> QED
      BY <2>2, <1>1, <1>n
  <1>3. ASSUME NEW y \in Range(t) PROVE y \in Range(s) /\ y # h
    <2>1. PICK i \in 1 .. Len(t) : t[i] = y
      BY <1>1, <1>3, RangeOf
    <2>2. i + 1 \in 1 .. Len(s) /\ y = s[i + 1] /\ i + 1 # 1 /\ 1 \in 1 .. Len(s)
      BY <2>1, <1>1, <1>n
    <2>3. y # h
      BY <2>2, <1>n DEF Distinct
    <2>4. y \in Range(s)
      BY <2>2, RangeOf
    <2> QED
      BY <2>3, <2>4
  <1>4. h \in Range(s)
    BY <1>n, RangeOf
  <1> QED
    BY <1>1, <1>2, <1>3, <1>4 DEF t, h

\* What that gives.
JoinGives(N, li, sc, li2, sc2, p, f, q, v) ==
    /\ Trees(N, li2, sc2) /\ q \in N /\ f \in N /\ q # f /\ q # p /\ li2[p] = v
    /\ (\A n \in Nat : Range(li2[n]) \subseteq Range(li[n]))
    /\ (\A n \in Nat : n # p => li2[n] = li[n])
    /\ \A n \in Nat : Range(sc2[n]) \subseteq Range(sc[n]) \cup Range(sc[f])

\* A first scope given to a node below a sibling leaves a forest: what else does with its
\* block.
LEMMA JoinTree ==
    ASSUME NEW N, NEW li, NEW sc, Trees(N, li, sc), NEW li2, NEW sc2, NEW p, NEW f, NEW r, NEW q, NEW v,
           JoinOf(N, li, sc, li2, sc2, p, f, r, q, v)
    PROVE  JoinGives(N, li, sc, li2, sc2, p, f, q, v)
  <1> DEFINE e == Joint(li, sc)
             y == Head(sc[f])
             w == Append(sc[q], y)
             t == Tail(sc[f])
             M == {y}
             g == Moved(e, f, q, M)
  <1>n. p \in Nat /\ N \subseteq Nat /\ N \in SUBSET (Nat \ {0})
    <2>1. N \in SUBSET (Nat \ {0})
      BY DEF Trees
    <2> QED
      BY <2>1 DEF JoinOf
  <1>1. Forest(e) /\ e \in Edges0 /\ Acyclic(e) /\ OneParent(e)
    BY TreesFacts
  <1>5. ASSUME NEW n \in Nat
        PROVE  /\ li[n] \in Seq(N) /\ sc[n] \in Seq(N) /\ Distinct(li[n]) /\ Distinct(sc[n])
               /\ Range(li[n]) \cap Range(sc[n]) = {} /\ e[n] = Range(li[n]) \cup Range(sc[n])
               /\ e[n] \subseteq N
               /\ n \notin {0} \cup N => li[n] = <<>> /\ sc[n] = <<>>
    <2>1. /\ li[n] \in Seq(N) /\ sc[n] \in Seq(N) /\ Distinct(li[n]) /\ Distinct(sc[n])
          /\ Range(li[n]) \cap Range(sc[n]) = {}
      BY TreesFacts
    <2>2. e[n] = Range(li[n]) \cup Range(sc[n]) /\ e[n] \subseteq N
      BY TreesFacts
    <2>3. n \notin {0} \cup N => li[n] = <<>> /\ sc[n] = <<>>
      BY DEF Trees
    <2> QED
      BY <2>1, <2>2, <2>3
  <1>t. li \in [Nat -> Seq(N)] /\ sc \in [Nat -> Seq(N)]
    BY DEF Trees
  <1>6. /\ p \in {0} \cup N /\ f \in Range(li[p]) /\ r \in Range(li[p]) /\ r # f /\ sc[f] # <<>>
        /\ q \in Below(e, r) /\ v \in Seq(N) /\ Distinct(v) /\ Range(v) \subseteq Range(li[p])
    BY DEF JoinOf
  <1>7. f \in e[p] /\ r \in e[p] /\ f \in N /\ r \in N /\ f \in Nat /\ r \in Nat
    BY <1>5, <1>6, <1>n
  <1> HIDE DEF e
  <1>8. q \in N /\ q \in Nat /\ q # f /\ q # p
    <2>1. q \in Nat
      BY <1>1, <1>6, <1>7, BelowFacts
    <2>2. DownClosed(e, N)
      BY <1>n, <1>5 DEF DownClosed
    <2>3. Below(e, r) \subseteq N
      BY <1>1, <1>7, <1>n, <2>2, BelowLeast
    <2>4. Below(e, r) \cap Below(e, f) = {}
      BY <1>1, <1>n, <1>6, <1>7, SiblingsApart
    <2>5. f \in Below(e, f)
      BY <1>1, <1>7, BelowFacts
    <2>6. p \notin Below(e, r)
      BY <1>1, <1>n, <1>7, NotBelowChild
    <2> QED
      BY <2>1, <2>3, <2>4, <2>5, <2>6, <1>6
  <1>9. t \in Seq(N) /\ Distinct(t) /\ y \in Range(sc[f]) /\ Range(t) \subseteq Range(sc[f]) \ {y}
    <2> DEFINE s == sc[f]
    <2>1. s \in Seq(N) /\ Distinct(s) /\ s # <<>>
      BY <1>5, <1>6, <1>7
    <2>2. y = Head(s) /\ t = Tail(s)
      OBVIOUS
    <2> HIDE DEF s, y, t
    <2>3. Tail(s) \in Seq(N) /\ Distinct(Tail(s)) /\ Head(s) \in Range(s) /\ Head(s) \notin Range(Tail(s))
          /\ Range(Tail(s)) \subseteq Range(s)
      BY <2>1, TailOf
    <2> QED
      BY <2>2, <2>3 DEF s
  <1> HIDE DEF y, t
  <1>10. Forest(g)
    <2>1. M \in SUBSET e[f]
      BY <1>5, <1>7, <1>9
    <2> HIDE DEF M
    <2> QED
      BY <2>1, <1>1, <1>n, <1>6, <1>7, MoveAcross
  <1>11. \A n \in Nat : g[n] = IF n = q THEN e[n] \cup {y} ELSE IF n = f THEN e[n] \ {y} ELSE e[n]
    BY DEF Moved
  <1> HIDE DEF g
  <1>12. y \in e[f] /\ y \notin e[q] /\ y \in N
    <2>1. y \in e[f]
      BY <1>5, <1>7, <1>9
    <2>2. e[f] \cap e[q] = {}
      BY <1>1, <1>7, <1>8 DEF OneParent
    <2> QED
      BY <2>1, <2>2, <1>5, <1>7
  <1>13. w \in Seq(N) /\ Distinct(w) /\ Range(w) = Range(sc[q]) \cup {y}
    <2> DEFINE l == sc[q]
    <2>1. l \in Seq(N) /\ Distinct(l) /\ y \notin Range(l)
      BY <1>5, <1>8, <1>12
    <2> HIDE DEF l
    <2>2. Append(l, y) \in Seq(N) /\ Distinct(Append(l, y)) /\ Range(Append(l, y)) = Range(l) \cup {y}
      BY <2>1, <1>12, AppendOf
    <2> QED
      BY <2>2 DEF l
  <1>14. /\ \A n \in Nat : li2[n] = IF n = p THEN v ELSE li[n]
         /\ \A n \in Nat : sc2[n] = IF n = f THEN t ELSE IF n = q THEN w ELSE sc[n]
         /\ li2 = [n \in Nat |-> li2[n]] /\ sc2 = [n \in Nat |-> sc2[n]]
    <2>1. li2 = [li EXCEPT ![p] = v] /\ sc2 = [sc EXCEPT ![q] = w, ![f] = t]
      BY DEF JoinOf, y, t
    <2> HIDE DEF w
    <2> QED
      BY <2>1, <1>t, <1>n, <1>7, <1>8
  <1> HIDE DEF w
  <1>15. ASSUME NEW n \in Nat
         PROVE  /\ li2[n] \in Seq(N) /\ Distinct(li2[n]) /\ Range(li2[n]) \subseteq Range(li[n])
                /\ n \notin {0} \cup N => li2[n] = <<>>
    <2>1. CASE n = p
      BY <2>1, <1>14, <1>6
    <2>2. CASE n # p
      BY <2>2, <1>14, <1>5
    <2> QED
      BY <2>1, <2>2
  <1>16. ASSUME NEW n \in Nat
         PROVE  /\ sc2[n] \in Seq(N) /\ Distinct(sc2[n]) /\ Range(li2[n]) \cap Range(sc2[n]) = {}
                /\ Range(li2[n]) \cup Range(sc2[n]) \subseteq g[n]
                /\ Range(sc2[n]) \subseteq Range(sc[n]) \cup Range(sc[f])
                /\ n \notin {0} \cup N => sc2[n] = <<>>
    <2>1. CASE n = f
      <3>1. sc2[n] = t /\ g[n] = e[n] \ {y}
        BY <2>1, <1>14, <1>11, <1>8
      <3>2. y \notin Range(li[n])
        BY <2>1, <1>5, <1>9
      <3>3. /\ Range(li[n]) \cap Range(sc[n]) = {} /\ e[n] = Range(li[n]) \cup Range(sc[n])
            /\ Range(t) \subseteq Range(sc[n]) \ {y} /\ Range(li2[n]) \subseteq Range(li[n])
        BY <2>1, <1>5, <1>9, <1>15
      <3>4. /\ Range(li2[n]) \cap Range(t) = {} /\ Range(li2[n]) \cup Range(t) \subseteq g[n]
            /\ Range(t) \subseteq Range(sc[n]) \cup Range(sc[f])
        BY <3>1, <3>2, <3>3
      <3>5. n \in {0} \cup N
        BY <2>1, <1>7
      <3> QED
        BY <3>1, <3>4, <3>5, <1>9
    <2>2. CASE n = q
      <3>1. sc2[n] = w /\ g[n] = e[n] \cup {y}
        BY <2>2, <1>14, <1>11, <1>8
      <3>2. y \notin Range(li[n]) /\ y \in Range(sc[f])
        BY <2>2, <1>5, <1>9, <1>12
      <3>3. /\ Range(li[n]) \cap Range(sc[n]) = {} /\ e[n] = Range(li[n]) \cup Range(sc[n])
            /\ Range(w) = Range(sc[n]) \cup {y} /\ Range(li2[n]) \subseteq Range(li[n])
        BY <2>2, <1>5, <1>13, <1>15
      <3>4. /\ Range(li2[n]) \cap Range(w) = {} /\ Range(li2[n]) \cup Range(w) \subseteq g[n]
            /\ Range(w) \subseteq Range(sc[n]) \cup Range(sc[f])
        BY <3>1, <3>2, <3>3
      <3>5. n \in {0} \cup N
        BY <2>2, <1>8
      <3> QED
        BY <3>1, <3>4, <3>5, <1>13
    <2>3. CASE n # f /\ n # q
      <3>1. sc2[n] = sc[n] /\ g[n] = e[n]
        BY <2>3, <1>14, <1>11
      <3> QED
        BY <3>1, <1>5, <1>15
    <2> QED
      BY <2>1, <2>2, <2>3
  <1>17. BuiltOf(N, li2, sc2, g)
    <2>1. li2 \in [Nat -> Seq(N)] /\ sc2 \in [Nat -> Seq(N)]
      <3>1. \A n \in Nat : li2[n] \in Seq(N) /\ sc2[n] \in Seq(N)
        BY <1>15, <1>16
      <3> QED
        BY <3>1, <1>14
    <2> QED
      BY <2>1, <1>10, <1>n, <1>15, <1>16 DEF BuiltOf
  <1>18. Trees(N, li2, sc2)
    BY <1>17, Built
  <1>19. li2[p] = v
    BY <1>14, <1>n
  <1> QED
    BY <1>7, <1>8, <1>14, <1>15, <1>16, <1>18, <1>19 DEF JoinGives

-----------------------------------------------------------------------------
(* The lists of a state. *)

\* The kinds of nodes.
Kinds == DOMAIN Powers \cup Brackets \cup Keywords \cup
             {"id", "literal", "comma", "end", "arguments", "lambda", "scope"}

\* The roots and the children as one function of lists.
ListsOf(N, res, ch) == [n \in Nat |-> IF n = 0 THEN res ELSE IF n \in N THEN ch[n] ELSE <<>>]

\* The scopes as such a function.
ScopesOf(N, sc) == [n \in Nat |-> IF n \in {0} \cup N THEN sc[n] ELSE <<>>]

\* Roots, children and scopes are a forest.
Forested(N, res, ch, sc) ==
    /\ N \in SUBSET (Nat \ {0})
    /\ res \in Seq(N) /\ ch \in [N -> Seq(N)] /\ sc \in [{0} \cup N -> Seq(N)]
    /\ Trees(N, ListsOf(N, res, ch), ScopesOf(N, sc))

\* The same of a state.
Lists == ListsOf(Node, result, kids)

Scps == ScopesOf(Node, scopes)

Edges == Joint(Lists, Scps)

\* The types of what is not in a list.
Typed ==
    /\ program \in Seq(TokenKind) /\ kind \in Seq(Kinds) /\ Token \subseteq Node
    /\ unary \subseteq Token /\ parened \subseteq Token
    /\ token \in [Node -> {0} \cup Token]
    /\ inScope \in [Node -> {Root} \cup Node]
    /\ index \in Nat /\ left \in {0} \cup Node

\* The lists of the state are a forest.
TreesInv == Forested(Node, result, kids, scopes)

\* S has each node whose successors it has.
Inductive(N, e, S) == \A n \in N : e[n] \subseteq S => n \in S

\* What is true of a node when it is true of its children and scopes is true of all
\* nodes.
LEMMA TreeInduction ==
    ASSUME NEW N, NEW li, NEW sc, Trees(N, li, sc), NEW S, Inductive(N, Joint(li, sc), S)
    PROVE  N \subseteq S
  <1> USE DEF Inductive
  <1> DEFINE X == N \ S
             e == Joint(li, sc)
  <1>1. N \in SUBSET Nat
    BY DEF Trees
  <1>2. Acyclic(e) /\ \A n \in N : e[n] \subseteq N
    BY <1>1, TreesFacts DEF Trees, Forest
  <1> HIDE DEF e
  <1>3. SUFFICES ASSUME X # {} PROVE FALSE
    OBVIOUS
  <1>4. PICK x \in X : e[x] \cap X = {}
    BY <1>1, <1>2, <1>3 DEF Acyclic
  <1>5. e[x] \subseteq S
    BY <1>2, <1>4
  <1> QED
    BY <1>5 DEF e

EdgesOf(N, res, ch, sc) == Joint(ListsOf(N, res, ch), ScopesOf(N, sc))

\* What is known of lists that are trees: li and s are their functions, e the edges.
TreesAre(N, res, ch, sc, li, s, e) ==
    /\ N \in SUBSET (Nat \ {0}) /\ N \subseteq Nat /\ 0 \notin N
    /\ res \in Seq(N) /\ ch \in [N -> Seq(N)] /\ sc \in [{0} \cup N -> Seq(N)]
    /\ Trees(N, li, s)
    /\ li[0] = res /\ (\A n \in N : li[n] = ch[n]) /\ (\A n \in {0} \cup N : s[n] = sc[n])
    /\ (\A n \in N : ch[n] \in Seq(N) /\ Distinct(ch[n]) /\ Range(ch[n]) \subseteq e[n])
    /\ Distinct(res) /\ Range(res) \subseteq e[0]
    /\ (\A n \in {0} \cup N : sc[n] \in Seq(N) /\ Range(sc[n]) \subseteq e[n])
    /\ (\A n \in N : e[n] = Range(ch[n]) \cup Range(sc[n])) /\ e[0] = Range(res) \cup Range(sc[0])
    /\ Forest(e) /\ e \in Edges0 /\ Acyclic(e) /\ OneParent(e)
    /\ (\A n \in Nat : e[n] \subseteq N) /\ (\A n \in N : Below(e, n) \subseteq N)

\* What the representation of the lists says of roots, children and scopes.
LEMMA ForestedFacts ==
    ASSUME NEW N, NEW res, NEW ch, NEW sc, Forested(N, res, ch, sc)
    PROVE  TreesAre(N, res, ch, sc, ListsOf(N, res, ch), ScopesOf(N, sc), EdgesOf(N, res, ch, sc))
  <1> DEFINE li == ListsOf(N, res, ch)
             s == ScopesOf(N, sc)
             e == Joint(li, s)
  <1>1. N \in SUBSET (Nat \ {0}) /\ N \subseteq Nat /\ 0 \notin N
        /\ res \in Seq(N) /\ ch \in [N -> Seq(N)] /\ sc \in [{0} \cup N -> Seq(N)]
        /\ Trees(N, li, s)
    BY DEF Forested
  <1>2. li[0] = res /\ \A n \in N : li[n] = ch[n]
    BY <1>1 DEF ListsOf
  <1>3. \A n \in {0} \cup N : s[n] = sc[n]
    BY <1>1 DEF ScopesOf
  <1> HIDE DEF li, s
  <1>4. \A n \in Nat : e[n] = Range(li[n]) \cup Range(s[n])
    BY DEF Joint
  <1>5. /\ \A n \in N : e[n] = Range(ch[n]) \cup Range(sc[n])
        /\ e[0] = Range(res) \cup Range(sc[0])
    BY <1>1, <1>2, <1>3, <1>4
  <1>6. \A n \in Nat : Distinct(li[n])
    BY <1>1 DEF Trees
  <1>7. (\A n \in N : Distinct(ch[n])) /\ Distinct(res)
    BY <1>1, <1>2, <1>6
  <1>8. Forest(e) /\ e \in Edges0 /\ Acyclic(e) /\ OneParent(e)
    BY <1>1 DEF Trees, Forest
  <1>9. \A n \in Nat : e[n] \subseteq N
    BY <1>1, TreesFacts
  <1> HIDE DEF e
  <1>10. \A n \in N : Below(e, n) \subseteq N
    <2>1. DownClosed(e, N)
      BY <1>1, <1>9 DEF DownClosed
    <2> QED
      BY <2>1, <1>1, <1>8, BelowLeast
  <1>11. TreesAre(N, res, ch, sc, li, s, e)
    BY Zenon, <1>1, <1>2, <1>3, <1>5, <1>7, <1>8, <1>9, <1>10 DEF TreesAre
  <1> QED
    BY <1>11 DEF li, s, e, EdgesOf

\* What a change of the lists is for the roots and the children.
LEMMA PutRes ==
    ASSUME NEW N, NEW res, NEW ch, NEW v
    PROVE  ListsOf(N, v, ch) = [ListsOf(N, res, ch) EXCEPT ![0] = v]
  BY DEF ListsOf

\* One way back: lists that are trees, and what they stand for.
LEMMA Unlist ==
    ASSUME NEW N, NEW li, NEW sc, NEW s, Trees(N, li, s), NEW res, NEW ch, NEW zc,
           res = li[0], DOMAIN ch = N, ch = [n \in N |-> ch[n]], \A n \in N : ch[n] = li[n],
           DOMAIN zc = {0} \cup N, zc = [n \in {0} \cup N |-> zc[n]], \A n \in {0} \cup N : zc[n] = s[n]
    PROVE  Forested(N, res, ch, zc) /\ ListsOf(N, res, ch) = li /\ ScopesOf(N, zc) = s
  <1>1. N \in SUBSET (Nat \ {0}) /\ li \in [Nat -> Seq(N)] /\ s \in [Nat -> Seq(N)]
        /\ \A n \in Nat \ ({0} \cup N) : li[n] = <<>> /\ s[n] = <<>>
    BY DEF Trees
  <1>2. ListsOf(N, res, ch) = li
    <2>1. \A n \in Nat : li[n] = IF n = 0 THEN res ELSE IF n \in N THEN ch[n] ELSE <<>>
      BY <1>1
    <2>2. li = [n \in Nat |-> li[n]]
      BY <1>1
    <2> QED
      BY <2>1, <2>2 DEF ListsOf
  <1>3. ScopesOf(N, zc) = s
    <2>1. \A n \in Nat : s[n] = IF n \in {0} \cup N THEN zc[n] ELSE <<>>
      BY <1>1
    <2>2. s = [n \in Nat |-> s[n]]
      BY <1>1
    <2> QED
      BY Zenon, <2>1, <2>2 DEF ScopesOf
  <1>4. res \in Seq(N) /\ ch \in [N -> Seq(N)] /\ zc \in [{0} \cup N -> Seq(N)]
    BY ZenonT(60), <1>1
  <1> QED
    BY <1>1, <1>2, <1>3, <1>4 DEF Forested

\* The way down the right edge, as the loop of a closing goes, is well defined.
LEMMA EdgeDown ==
    ASSUME Typed, TreesInv, NEW k, NEW r \in Node
    PROVE  /\ OnEdge(k) \in [Node -> Node]
           /\ \A n \in Node : OnEdge(k)[n] = IF kids[n] = <<>> \/ kind[n] = k THEN n
                                             ELSE OnEdge(k)[Last(kids[n])]
  <1> DEFINE N == Node
             F == [N -> N]
             e == [n \in N |-> Range(kids[n])]
             Step == [x \in F \X N |-> IF kids[x[2]] = <<>> \/ kind[x[2]] = k THEN x[2]
                                       ELSE x[1][Last(kids[x[2]])]]
             Is(f) == f = [n \in N |-> IF kids[n] = <<>> \/ kind[n] = k THEN n ELSE f[Last(kids[n])]]
  <1>1. /\ N \subseteq Nat /\ kids \in [N -> Seq(N)]
        /\ \A n \in N : Range(kids[n]) \subseteq Edges[n]
        /\ Trees(N, Lists, Scps)
    <2>1. TreesAre(Node, result, kids, scopes, Lists, Scps, Edges)
      BY ForestedFacts DEF TreesInv, Lists, Scps, Edges, EdgesOf
    <2> QED
      BY <2>1 DEF TreesAre
  <1>2. \A n \in N : Range(kids[n]) \subseteq N /\ (kids[n] # <<>> => Last(kids[n]) \in Range(kids[n]))
    BY <1>1, RangeOf, FrontOf
  <1>3. e \in [N -> SUBSET N]
    BY <1>2
  <1>4. WellFounded(N, e)
    <2>1. Acyclic(Edges)
      BY <1>1 DEF Trees, Forest, Edges
    <2> HIDE DEF N
    <2> QED
      BY <2>1, <1>1 DEF WellFounded, Acyclic
  <1> HIDE DEF N
  <1>5. Step \in [F \X N -> N]
    <2> SUFFICES ASSUME NEW x \in F \X N PROVE Step[x] \in N
      OBVIOUS
    <2>1. x[1] \in [N -> N] /\ x[2] \in N
      OBVIOUS
    <2> QED
      BY <2>1, <1>2
  <1>6. ASSUME NEW f \in F, NEW n \in N
        PROVE  Step[<<f, n>>] = IF kids[n] = <<>> \/ kind[n] = k THEN n ELSE f[Last(kids[n])]
    OBVIOUS
  <1> HIDE DEF Step
  <1>7. \A f, g \in F, n \in N : (\A m \in e[n] : f[m] = g[m]) => Step[<<f, n>>] = Step[<<g, n>>]
    BY <1>2, <1>6
  <1>8. r \in N
    BY DEF N
  <1> HIDE DEF e
  <1>9. \E f \in F : \A n \in N : f[n] = Step[<<f, n>>]
    <2>1. StepOf(N, e, N, r, Step)
      BY <1>3, <1>4, <1>5, <1>7, <1>8 DEF StepOf
    <2> QED
      BY <2>1, Recursion
  <1>10. \E f : Is(f)
    <2>1. PICK f \in F : \A n \in N : f[n] = Step[<<f, n>>]
      BY <1>9
    <2>2. \A n \in N : f[n] = IF kids[n] = <<>> \/ kind[n] = k THEN n ELSE f[Last(kids[n])]
      BY Zenon, <2>1, <1>6
    <2>3. Is(f)
      BY <2>2
    <2> QED
      BY <2>3
  <1>11. OnEdge(k) = CHOOSE f : Is(f)
    BY DEF OnEdge, N
  <1>12. Is(OnEdge(k))
    BY <1>10, <1>11
  <1> HIDE DEF F
  <1>13. \A n \in N : OnEdge(k)[n] = IF kids[n] = <<>> \/ kind[n] = k THEN n ELSE OnEdge(k)[Last(kids[n])]
    BY <1>12
  <1>14. N \subseteq {n \in N : OnEdge(k)[n] \in N}
    <2> DEFINE S == {n \in N : OnEdge(k)[n] \in N}
    <2>1. ASSUME NEW n \in N, Edges[n] \subseteq S PROVE n \in S
      BY <2>1, <1>1, <1>2, <1>13
    <2> HIDE DEF S
    <2>2. Inductive(N, Joint(Lists, Scps), S)
      BY <2>1 DEF Inductive, Edges
    <2>3. N \subseteq S
      BY <2>2, <1>1, TreeInduction
    <2> QED
      BY <2>3 DEF S
  <1>15. OnEdge(k) \in [N -> N]
    BY <1>12, <1>14
  <1> QED
    BY <1>13, <1>15 DEF N

\* Where the way down ends is below where it began: at an opening, or at a node without
\* children.
LEMMA EdgeFacts ==
    ASSUME Typed, TreesInv, NEW k, NEW r \in Node
    PROVE  /\ OnEdge(k)[r] \in Node /\ OnEdge(k)[r] \in Below(Edges, r)
           /\ kids[OnEdge(k)[r]] = <<>> \/ kind[OnEdge(k)[r]] = k
           /\ OnEdge(k)[r] = r \/ \E m \in Node : kids[m] # <<>> /\ OnEdge(k)[r] = Last(kids[m])
  <1> DEFINE N == Node
             d == OnEdge(k)
             P(n) == /\ d[n] \in N /\ d[n] \in Below(Edges, n)
                     /\ kids[d[n]] = <<>> \/ kind[d[n]] = k
                     /\ d[n] = n \/ \E m \in N : kids[m] # <<>> /\ d[n] = Last(kids[m])
             S == {n \in N : P(n)}
  <1>1. /\ N \subseteq Nat /\ kids \in [N -> Seq(N)]
        /\ \A n \in N : Range(kids[n]) \subseteq Edges[n]
        /\ Trees(N, Lists, Scps)
    <2>1. TreesAre(Node, result, kids, scopes, Lists, Scps, Edges)
      BY ForestedFacts DEF TreesInv, Lists, Scps, Edges, EdgesOf
    <2> QED
      BY <2>1 DEF TreesAre
  <1>2. \A n \in N : Range(kids[n]) \subseteq N /\ (kids[n] # <<>> => Last(kids[n]) \in Range(kids[n]))
    BY <1>1, RangeOf, FrontOf
  <1>3. Edges \in Edges0
    BY <1>1 DEF Trees, Forest, Edges
  <1>4. d \in [N -> N] /\ \A n \in N : d[n] = IF kids[n] = <<>> \/ kind[n] = k THEN n ELSE d[Last(kids[n])]
    BY EdgeDown
  <1> HIDE DEF d, N
  <1>5. ASSUME NEW n \in N, Edges[n] \subseteq S PROVE n \in S
    <2>1. CASE kids[n] = <<>> \/ kind[n] = k
      <3>1. d[n] = n
        BY <2>1, <1>4
      <3>2. n \in Below(Edges, n)
        BY <1>1, <1>3, BelowFacts
      <3>3. P(n)
        BY <2>1, <3>1, <3>2
      <3> QED
        BY <3>3
    <2>2. CASE ~(kids[n] = <<>> \/ kind[n] = k)
      <3> DEFINE c == Last(kids[n])
      <3>1. d[n] = d[c] /\ c \in N /\ c \in Edges[n]
        BY <2>2, <1>1, <1>2, <1>4
      <3> HIDE DEF c
      <3>2. P(c)
        BY <3>1, <1>5
      <3>3. Below(Edges, c) \subseteq Below(Edges, n)
        BY <3>1, <1>1, <1>3, BelowChild
      <3>4. c = Last(kids[n]) /\ kids[n] # <<>>
        BY <2>2 DEF c
      <3>5. d[n] = n \/ \E m \in N : kids[m] # <<>> /\ d[n] = Last(kids[m])
        BY <3>1, <3>2, <3>4
      <3>6. P(n)
        BY <3>1, <3>2, <3>3, <3>5
      <3> QED
        BY <3>6
    <2> QED
      BY <2>1, <2>2
  <1> HIDE DEF S
  <1>6. N \subseteq S
    <2>1. Inductive(N, Joint(Lists, Scps), S)
      BY <1>5 DEF Inductive, Edges
    <2> QED
      BY <2>1, <1>1, TreeInduction
  <1>7. r \in S
    BY <1>6 DEF N
  <1> QED
    BY <1>7 DEF S, N, d

\* One root goes to the children of a node below another one.
RootOneOf(N, res, ch, sc, q, i, j) ==
    /\ Forested(N, res, ch, sc)
    /\ i \in 1 .. Len(res) /\ j \in 1 .. Len(res) /\ i # j
    /\ q \in Below(EdgesOf(N, res, ch, sc), res[j])

\* What becomes of the roots and the children.
RootOneIs(res, ch, q, i, res2, ch2) ==
    res2 = RemoveAt(res, i) /\ ch2 = [ch EXCEPT ![q] = Append(ch[q], res[i])]

\* What is known of them then.
RootOneGives(N, res, ch, sc, q, i, res2, ch2) ==
    /\ Forested(N, res2, ch2, sc) /\ q \in N /\ Len(res2) = Len(res) - 1
    /\ \A k \in 1 .. Len(res) - 1 : res2[k] = IF k < i THEN res[k] ELSE res[k + 1]
    /\ Range(ch2[q]) = Range(ch[q]) \cup {res[i]}

\* A root that a node below another root takes leaves a forest.
LEMMA RootOne ==
    ASSUME NEW N, NEW res, NEW ch, NEW sc, NEW q, NEW i, NEW j, RootOneOf(N, res, ch, sc, q, i, j),
           NEW rr, NEW cc, RootOneIs(res, ch, q, i, rr, cc)
    PROVE  RootOneGives(N, res, ch, sc, q, i, rr, cc)
  <1> DEFINE li == ListsOf(N, res, ch)
             s == ScopesOf(N, sc)
             v == RemoveAt(res, i)
             x == Append(ch[q], res[i])
             ch2 == [ch EXCEPT ![q] = x]
             li2 == [li EXCEPT ![0] = v, ![q] = x]
  <1>1. /\ N \subseteq Nat /\ 0 \notin N /\ li[0] = res /\ \A n \in N : li[n] = ch[n]
        /\ Trees(N, li, s) /\ res \in Seq(N) /\ ch \in [N -> Seq(N)]
    <2>1. Forested(N, res, ch, sc)
      BY DEF RootOneOf
    <2>2. TreesAre(N, res, ch, sc, li, s, EdgesOf(N, res, ch, sc))
      BY <2>1, ForestedFacts
    <2> HIDE DEF li, s
    <2> QED
      BY <2>2 DEF TreesAre
  <1>q. q \in N
    <2> HIDE DEF li, s
    <2>1. \A n \in Nat : Joint(li, s)[n] \subseteq N
      BY <1>1, TreesFacts
    <2>2. DownClosed(Joint(li, s), N) /\ Joint(li, s) \in Edges0
      BY <2>1, <1>1 DEF DownClosed, Trees, Forest
    <2>3. res[j] \in N /\ res[j] \in Nat
      <3>1. j \in 1 .. Len(res)
        BY DEF RootOneOf
      <3>2. res \in Seq(N) /\ N \subseteq Nat
        BY <1>1
      <3>3. res[j] \in Range(res) /\ Range(res) \subseteq N
        BY <3>1, <3>2, RangeOf
      <3> QED
        BY <3>2, <3>3
    <2>4. Below(Joint(li, s), res[j]) \subseteq N
      BY <2>2, <2>3, <1>1, BelowLeast
    <2> QED
      BY <2>4 DEF RootOneOf, EdgesOf, li, s
  <1>2. OneOf(N, li, s, li2, 0, q, i, j)
    <2>1. q \in Below(Joint(li, s), res[j])
      BY DEF RootOneOf, EdgesOf
    <2>2. li[q] = ch[q]
      BY <1>1, <1>q
    <2> HIDE DEF li, s
    <2> QED
      BY <1>1, <2>1, <2>2 DEF OneOf, RootOneOf
  <1> HIDE DEF li, s, li2
  <1>3. Trees(N, li2, s)
    BY <1>1, <1>2, TakeOne DEF TakeOneGives
  <1>4. /\ li2[0] = RemoveAt(li[0], i) /\ li2[0] \in Seq(N) /\ li2[q] \in Seq(N)
        /\ Len(li2[0]) = Len(li[0]) - 1
        /\ \A k \in 1 .. Len(li[0]) - 1 : li2[0][k] = IF k < i THEN li[0][k] ELSE li[0][k + 1]
    BY <1>1, <1>2, TakeOne DEF TakeOneGives
  <1>5. li2[q] = Append(li[q], li[0][i])
    BY <1>1, <1>2, TakeOne DEF TakeOneGives
  <1>6. v \in Seq(N) /\ x \in Seq(N) /\ li2[q] = x
    BY <1>1, <1>q, <1>4, <1>5
  <1>7. ch2 \in [N -> Seq(N)]
    <2> HIDE DEF x
    <2> QED
      BY <1>1, <1>6
  <1>8. ListsOf(N, v, ch2) = li2
    <2> HIDE DEF v, x
    <2>1. N \in SUBSET (Nat \ {0})
      BY <1>1
    <2> QED
      BY <2>1, <1>1, <1>q DEF ListsOf, li2, li
  <1>9. Forested(N, v, ch2, sc)
    <2> HIDE DEF v, ch2
    <2>1. N \in SUBSET (Nat \ {0}) /\ sc \in [{0} \cup N -> Seq(N)]
      BY DEF RootOneOf, Forested
    <2> QED
      BY <2>1, <1>3, <1>6, <1>7, <1>8 DEF Forested, s
  <1>10. Len(v) = Len(res) - 1 /\ \A k \in 1 .. Len(res) - 1 : v[k] = IF k < i THEN res[k] ELSE res[k + 1]
    BY <1>1, <1>4
  <1>11. Range(x) = Range(ch[q]) \cup {res[i]}
    <2> DEFINE l == ch[q]
               y == res[i]
    <2>1. l \in Seq(N)
      BY <1>1, <1>q
    <2>2. y \in N
      <3>1. i \in 1 .. Len(res)
        BY DEF RootOneOf
      <3>2. res[i] \in Range(res) /\ Range(res) \subseteq N
        BY <3>1, <1>1, RangeOf
      <3> QED
        BY <3>2
    <2> HIDE DEF l, y
    <2>3. Range(Append(l, y)) = Range(l) \cup {y}
      BY <2>1, <2>2, AppendOf
    <2> QED
      BY <2>3 DEF l, y
  <1>12. rr = v /\ cc = ch2
    BY DEF RootOneIs
  <1>13. ch2[q] = x
    BY <1>1, <1>q
  <1> HIDE DEF v, x, ch2
  <1> QED
    BY <1>9, <1>q, <1>10, <1>11, <1>12, <1>13 DEF RootOneGives

\* Roots leave the list.
RootDropOf(N, res, ch, sc, v) ==
    Forested(N, res, ch, sc) /\ v \in Seq(N) /\ Distinct(v) /\ Range(v) \subseteq Range(res)

\* Roots that leave the list leave a forest.
LEMMA RootDrop ==
    ASSUME NEW N, NEW res, NEW ch, NEW sc, NEW v, RootDropOf(N, res, ch, sc, v)
    PROVE  Forested(N, v, ch, sc)
  <1> DEFINE li == ListsOf(N, res, ch)
             s == ScopesOf(N, sc)
             li2 == [li EXCEPT ![0] = v]
  <1>1. /\ N \subseteq Nat /\ 0 \notin N /\ li[0] = res
        /\ Trees(N, li, s) /\ res \in Seq(N) /\ ch \in [N -> Seq(N)]
    <2>1. Forested(N, res, ch, sc)
      BY DEF RootDropOf
    <2>2. TreesAre(N, res, ch, sc, li, s, EdgesOf(N, res, ch, sc))
      BY <2>1, ForestedFacts
    <2> HIDE DEF li, s
    <2> QED
      BY <2>2 DEF TreesAre
  <1>2. ListsOf(N, v, ch) = li2
    BY PutRes
  <1> HIDE DEF li
  <1>3. Trees(N, li2, s)
    <2> HIDE DEF s
    <2>1. v \in Seq(N) /\ Distinct(v) /\ Range(v) \subseteq Range(li[0]) /\ 0 \in Nat
      BY <1>1 DEF RootDropOf
    <2> QED
      BY <2>1, <1>1, DropFrom
  <1> QED
    BY <1>1, <1>2, <1>3 DEF RootDropOf, Forested

\* Children leave the list.
KidDropOf(N, res, ch, sc, p, v) ==
    Forested(N, res, ch, sc) /\ p \in N /\ v \in Seq(N) /\ Distinct(v) /\ Range(v) \subseteq Range(ch[p])

\* Children that leave a list leave a forest.
LEMMA KidDrop ==
    ASSUME NEW N, NEW res, NEW ch, NEW sc, NEW p, NEW v, KidDropOf(N, res, ch, sc, p, v)
    PROVE  Forested(N, res, [ch EXCEPT ![p] = v], sc)
  <1> DEFINE li == ListsOf(N, res, ch)
             s == ScopesOf(N, sc)
             ch2 == [ch EXCEPT ![p] = v]
             li2 == [li EXCEPT ![p] = v]
  <1>0. p \in N /\ v \in Seq(N) /\ Distinct(v) /\ Range(v) \subseteq Range(ch[p])
    BY DEF KidDropOf
  <1>1. /\ N \subseteq Nat /\ 0 \notin N /\ li[p] = ch[p]
        /\ Trees(N, li, s) /\ res \in Seq(N) /\ ch \in [N -> Seq(N)]
    <2>1. Forested(N, res, ch, sc)
      BY DEF KidDropOf
    <2>2. TreesAre(N, res, ch, sc, li, s, EdgesOf(N, res, ch, sc))
      BY <2>1, ForestedFacts
    <2> HIDE DEF li, s
    <2> QED
      BY <2>2, <1>0 DEF TreesAre
  <1>2. ListsOf(N, res, ch2) = li2
    <2>1. N \in SUBSET (Nat \ {0})
      BY <1>1
    <2> QED
      BY <2>1, <1>0, <1>1 DEF ListsOf
  <1> HIDE DEF li
  <1>3. Trees(N, li2, s)
    <2> HIDE DEF s
    <2>1. v \in Seq(N) /\ Distinct(v) /\ Range(v) \subseteq Range(li[p]) /\ p \in Nat
      BY <1>0, <1>1
    <2>2. p \notin N /\ p # 0 => v = <<>>
      BY <1>0
    <2> QED
      BY <2>1, <2>2, <1>1, DropFrom
  <1>4. ch2 \in [N -> Seq(N)]
    BY <1>0, <1>1
  <1> QED
    BY <1>1, <1>2, <1>3, <1>4 DEF KidDropOf, Forested

\* The roots between two of them go to a node below the first, and the second is gone.
GatherOf(N, res, ch, sc, q, i, c, g, v) ==
    /\ Forested(N, res, ch, sc) /\ Split(res, i, c, g, v)
    /\ q \in Below(EdgesOf(N, res, ch, sc), res[i])

\* What becomes of the children.
GatherIs(ch, q, g, cc) == cc = [ch EXCEPT ![q] = ch[q] \o g]

\* What is known of them then.
GatherGives(N, res, ch, sc, q, i, g, v, cc) ==
    /\ Forested(N, v, cc, sc) /\ q \in N
    /\ v \in Seq(N) /\ g \in Seq(N) /\ Distinct(g) /\ ch \in [N -> Seq(N)]
    /\ Len(v) \in Nat /\ i <= Len(v) /\ \A k \in 1 .. i : v[k] = res[k]
    /\ cc[q] = ch[q] \o g /\ (\A n \in N \ {q} : cc[n] = ch[n])
    /\ Range(cc[q]) = Range(ch[q]) \cup Range(g)

\* Roots between an opening and a closing that the opening takes leave a forest.
LEMMA Gather ==
    ASSUME NEW N, NEW res, NEW ch, NEW sc, NEW q, NEW i, NEW c, NEW g, NEW v,
           GatherOf(N, res, ch, sc, q, i, c, g, v), NEW cc, GatherIs(ch, q, g, cc)
    PROVE  GatherGives(N, res, ch, sc, q, i, g, v, cc)
  <1> DEFINE li == ListsOf(N, res, ch)
             s == ScopesOf(N, sc)
             x == ch[q] \o g
             ch2 == [ch EXCEPT ![q] = x]
             li2 == [li EXCEPT ![0] = v, ![q] = x]
  <1>1. /\ N \subseteq Nat /\ 0 \notin N /\ li[0] = res /\ \A n \in N : li[n] = ch[n]
        /\ Trees(N, li, s) /\ res \in Seq(N) /\ ch \in [N -> Seq(N)]
    <2>1. Forested(N, res, ch, sc)
      BY DEF GatherOf
    <2>2. TreesAre(N, res, ch, sc, li, s, EdgesOf(N, res, ch, sc))
      BY <2>1, ForestedFacts
    <2> HIDE DEF li, s
    <2> QED
      BY <2>2 DEF TreesAre
  <1>d. Distinct(res)
    <2>1. Distinct(li[0])
      <3> HIDE DEF li, s
      <3> QED
        BY <1>1, TreesFacts
    <2> QED
      BY <2>1, <1>1
  <1>2. /\ g \in Seq(N) /\ Distinct(g) /\ v \in Seq(N) /\ Distinct(v)
        /\ Range(g) \subseteq Range(res) /\ Range(v) \subseteq Range(res) \ Range(g)
        /\ res[i] \in Range(res) /\ res[i] \notin Range(g)
    <2>1. Split(res, i, c, g, v)
      BY DEF GatherOf
    <2> QED
      BY <2>1, <1>1, <1>d, SplitOf
  <1>3. Len(v) \in Nat /\ i <= Len(v) /\ \A k \in 1 .. i : v[k] = res[k]
    <2>1. Split(res, i, c, g, v)
      BY DEF GatherOf
    <2> QED
      BY <2>1, <1>1, <1>d, SplitOf
  <1> DEFINE r == res[i]
  <1>q. q \in N /\ r \in Nat
    <2>2. r \in N /\ r \in Nat
      <3>1. Range(res) \subseteq N
        BY <1>1, RangeOf
      <3> QED
        BY <3>1, <1>1, <1>2
    <2>3. q \in Below(Joint(li, s), r)
      BY DEF GatherOf, EdgesOf
    <2> HIDE DEF li, s, r
    <2>1. DownClosed(Joint(li, s), N) /\ Joint(li, s) \in Edges0
      <3>1. \A n \in Nat : Joint(li, s)[n] \subseteq N
        BY <1>1, TreesFacts
      <3> QED
        BY <3>1, <1>1 DEF DownClosed, Trees, Forest
    <2>4. Below(Joint(li, s), r) \subseteq N
      BY <2>1, <2>2, <1>1, BelowLeast
    <2> QED
      BY <2>2, <2>3, <2>4
  <1>4. TakeOf(N, li, s, li2, 0, q, r, g, v)
    <2>1. q \in Below(Joint(li, s), r)
      BY DEF GatherOf, EdgesOf
    <2>2. li[q] = ch[q]
      BY <1>1, <1>q
    <2>3. r \in Range(li[0]) \ Range(g)
      BY <1>1, <1>2
    <2> HIDE DEF li, s, r
    <2>4. Cut(N, li, 0, g, v)
      BY <1>1, <1>2 DEF Cut
    <2> QED
      BY <2>1, <2>2, <2>3, <2>4 DEF TakeOf
  <1> HIDE DEF li, s, li2, r
  <1>5. Trees(N, li2, s)
    BY <1>1, <1>4, TakeSome
  <1>6. li2[q] = li[q] \o g /\ li2[q] \in Seq(N) /\ Range(li2[q]) = Range(li[q]) \cup Range(g)
    BY <1>1, <1>4, TakeSome
  <1>7. x \in Seq(N) /\ Range(x) = Range(ch[q]) \cup Range(g)
    BY <1>1, <1>q, <1>6
  <1>8. ch2 \in [N -> Seq(N)]
    <2> HIDE DEF x
    <2> QED
      BY <1>1, <1>7
  <1>9. ListsOf(N, v, ch2) = li2
    <2> HIDE DEF x
    <2>1. N \in SUBSET (Nat \ {0})
      BY <1>1
    <2> QED
      BY <2>1, <1>1, <1>q DEF ListsOf, li2, li
  <1>10. Forested(N, v, ch2, sc)
    <2> HIDE DEF ch2
    <2>1. N \in SUBSET (Nat \ {0}) /\ sc \in [{0} \cup N -> Seq(N)]
      BY DEF GatherOf, Forested
    <2> QED
      BY <2>1, <1>2, <1>5, <1>8, <1>9 DEF Forested, s
  <1>12. cc = ch2
    BY DEF GatherIs
  <1>13. ch2[q] = x /\ \A n \in N \ {q} : ch2[n] = ch[n]
    BY <1>1, <1>q
  <1>14. x = ch[q] \o g
    OBVIOUS
  <1> HIDE DEF x, ch2
  <1> QED
    BY <1>1, <1>2, <1>3, <1>7, <1>10, <1>q, <1>12, <1>13, <1>14 DEF GatherGives

\* The last child of a root goes to a node below another root.
RootHandOf(N, res, ch, sc, q, f, r) ==
    /\ Forested(N, res, ch, sc)
    /\ f \in Range(res) /\ r \in Range(res) /\ f # r /\ ch[f] # <<>>
    /\ q \in Below(EdgesOf(N, res, ch, sc), r)

\* A last child that goes to a node below another root leaves a forest.
LEMMA RootHand ==
    ASSUME NEW N, NEW res, NEW ch, NEW sc, NEW q, NEW f, NEW r, RootHandOf(N, res, ch, sc, q, f, r),
           NEW ch2, ch2 = [ch EXCEPT ![f] = Front(ch[f]), ![q] = Append(ch[q], Last(ch[f]))]
    PROVE  Forested(N, res, ch2, sc) /\ q \in N /\ f \in N /\ q # f
  <1> DEFINE li == ListsOf(N, res, ch)
             s == ScopesOf(N, sc)
             x == Front(li[f])
             y == Append(li[q], Last(li[f]))
             li2 == [li EXCEPT ![f] = x, ![q] = y]
  <1>0. /\ Forested(N, res, ch, sc)
        /\ f \in Range(res) /\ r \in Range(res) /\ f # r /\ ch[f] # <<>>
        /\ q \in Below(EdgesOf(N, res, ch, sc), r)
    BY DEF RootHandOf
  <1>1. TreesAre(N, res, ch, sc, li, s, EdgesOf(N, res, ch, sc))
    BY <1>0, ForestedFacts
  <1>e. EdgesOf(N, res, ch, sc) = Joint(li, s)
    BY DEF EdgesOf
  <1> HIDE DEF li, s
  <1>2. /\ N \in SUBSET (Nat \ {0}) /\ N \subseteq Nat /\ 0 \notin N /\ li[0] = res /\ \A n \in N : li[n] = ch[n]
        /\ Trees(N, li, s) /\ res \in Seq(N) /\ ch \in [N -> Seq(N)] /\ sc \in [{0} \cup N -> Seq(N)]
    BY <1>1 DEF TreesAre
  <1>3. f \in N /\ r \in N
    <2>1. Range(res) \subseteq N
      BY <1>2, RangeOf
    <2> QED
      BY <2>1, <1>0
  <1>4. HandOf(N, li, s, li2, 0, q, f, r)
    <2>1. f \in Range(li[0]) /\ r \in Range(li[0]) /\ li[f] # <<>>
      BY <1>0, <1>2, <1>3
    <2> QED
      BY <1>0, <1>e, <2>1 DEF HandOf
  <1>5. Trees(N, li2, s) /\ q \in N /\ f \in N /\ q # f
    BY <1>2, <1>4, HandLast
  <1>6. x = Front(ch[f]) /\ y = Append(ch[q], Last(ch[f]))
    BY <1>2, <1>3, <1>5
  <1> HIDE DEF x, y
  <1>7. li2[f] = x /\ li2[q] = y /\ li2 \in [Nat -> Seq(N)]
    <2>1. li \in [Nat -> Seq(N)]
      BY <1>2 DEF Trees
    <2>2. li2 \in [Nat -> Seq(N)]
      BY <1>5 DEF Trees
    <2> QED
      BY <2>1, <2>2, <1>2, <1>3, <1>5
  <1>8. x \in Seq(N) /\ y \in Seq(N)
    <2> HIDE DEF li2
    <2>1. li2[f] \in Seq(N) /\ li2[q] \in Seq(N)
      BY <1>2, <1>5, <1>7
    <2> QED
      BY <2>1, <1>7
  <1>9. ch2 = [ch EXCEPT ![f] = x, ![q] = y]
    BY <1>6
  <1>10. ch2 \in [N -> Seq(N)]
    BY Zenon, <1>2, <1>8, <1>9
  <1>11. ListsOf(N, res, ch2) = li2
    BY Zenon, <1>2, <1>5, <1>9 DEF ListsOf, li
  <1> HIDE DEF li2
  <1>12. Forested(N, res, ch2, sc)
    BY <1>2, <1>5, <1>10, <1>11 DEF Forested, s
  <1> QED
    BY <1>5, <1>12

\* A node takes the place of its first child.
RootUnwrapOf(N, res, ch, sc, n, f) ==
    Forested(N, res, ch, sc) /\ n \in N /\ ch[n] # <<>> /\ f = Head(ch[n])

\* A first child whose place its children take leaves a forest.
LEMMA RootUnwrap ==
    ASSUME NEW N, NEW res, NEW ch, NEW sc, NEW n, NEW f, RootUnwrapOf(N, res, ch, sc, n, f),
           NEW ch2, ch2 = [ch EXCEPT ![n] = ch[f] \o Tail(ch[n]), ![f] = <<>>]
    PROVE  Forested(N, res, ch2, sc) /\ f \in N /\ f # n
  <1> DEFINE li == ListsOf(N, res, ch)
             s == ScopesOf(N, sc)
             x == li[f] \o Tail(li[n])
             y == <<>>
             li2 == [li EXCEPT ![n] = x, ![f] = y]
  <1>0. Forested(N, res, ch, sc) /\ n \in N /\ ch[n] # <<>> /\ f = Head(ch[n])
    BY DEF RootUnwrapOf
  <1>1. TreesAre(N, res, ch, sc, li, s, EdgesOf(N, res, ch, sc))
    BY <1>0, ForestedFacts
  <1> HIDE DEF li, s
  <1>2. /\ N \in SUBSET (Nat \ {0}) /\ N \subseteq Nat /\ 0 \notin N /\ li[0] = res /\ \A m \in N : li[m] = ch[m]
        /\ Trees(N, li, s) /\ res \in Seq(N) /\ ch \in [N -> Seq(N)] /\ sc \in [{0} \cup N -> Seq(N)]
    BY <1>1 DEF TreesAre
  <1>4. UnwrapOf(li, li2, n, f)
    BY <1>0, <1>2 DEF UnwrapOf
  <1>5. Trees(N, li2, s) /\ f \in N /\ f # n
    <2>1. Trees(N, li, s)
      BY SMTT(60), <1>2
    <2> HIDE DEF li2
    <2> QED
      BY <2>1, <1>4, Unwrap
  <1>6. x = ch[f] \o Tail(ch[n])
    BY Zenon, <1>0, <1>2, <1>5
  <1> HIDE DEF x, y
  <1>7. li2[n] = x /\ li2[f] = y /\ li2 \in [Nat -> Seq(N)]
    <2>1. li \in [Nat -> Seq(N)]
      BY <1>2 DEF Trees
    <2>2. li2 \in [Nat -> Seq(N)]
      BY <1>5 DEF Trees
    <2> QED
      BY <2>1, <2>2, <1>0, <1>2, <1>5
  <1>8. x \in Seq(N) /\ y \in Seq(N)
    <2> HIDE DEF li2
    <2>1. li2[f] \in Seq(N) /\ li2[n] \in Seq(N)
      BY <1>0, <1>2, <1>5, <1>7
    <2> QED
      BY <2>1, <1>7
  <1>9. ch2 = [ch EXCEPT ![n] = x, ![f] = y]
    BY <1>6 DEF y
  <1>10. ch2 \in [N -> Seq(N)]
    BY Zenon, <1>2, <1>8, <1>9
  <1>11. ListsOf(N, res, ch2) = li2
    BY ZenonT(60), <1>0, <1>2, <1>5, <1>9 DEF ListsOf, li
  <1> HIDE DEF li2
  <1>12. Forested(N, res, ch2, sc)
    BY <1>2, <1>5, <1>10, <1>11 DEF Forested, s
  <1> QED
    BY <1>5, <1>12

\* A node and its first child change places.
RootSwapOf(N, res, ch, sc, res2, ch2, on, h) ==
    /\ Forested(N, res, ch, sc) /\ on \in N /\ ch[on] # <<>> /\ h = Head(ch[on])
    /\ on \in Range(res) \/ \E m \in N : on \in Range(ch[m])
    /\ res2 = ReplaceAll(res, on, h)
    /\ ch2 = [n \in N |-> IF n = on THEN Tail(ch[on])
                          ELSE IF n = h THEN Append(ch[h], on) ELSE ReplaceAll(ch[n], on, h)]

\* A node that changes places with its first child, wherever it is, leaves a forest.
LEMMA RootSwap ==
    ASSUME NEW N, NEW res, NEW ch, NEW sc, NEW res2, NEW ch2, NEW on, NEW h,
           RootSwapOf(N, res, ch, sc, res2, ch2, on, h)
    PROVE  Forested(N, res2, ch2, sc) /\ h \in N /\ h # on
  <1> DEFINE li == ListsOf(N, res, ch)
             s == ScopesOf(N, sc)
             li2 == [n \in Nat |-> IF n = on THEN Tail(li[on])
                                   ELSE IF n = h THEN Append(li[h], on) ELSE ReplaceAll(li[n], on, h)]
  <1>0. /\ Forested(N, res, ch, sc) /\ on \in N /\ ch[on] # <<>> /\ h = Head(ch[on])
        /\ on \in Range(res) \/ \E m \in N : on \in Range(ch[m])
        /\ res2 = ReplaceAll(res, on, h)
        /\ ch2 = [n \in N |-> IF n = on THEN Tail(ch[on])
                              ELSE IF n = h THEN Append(ch[h], on) ELSE ReplaceAll(ch[n], on, h)]
    BY DEF RootSwapOf
  <1>1. TreesAre(N, res, ch, sc, li, s, EdgesOf(N, res, ch, sc))
    BY <1>0, ForestedFacts
  <1>d. li = ListsOf(N, res, ch) /\ s = ScopesOf(N, sc)
    OBVIOUS
  <1> HIDE DEF li, s
  <1>2. /\ N \in SUBSET (Nat \ {0}) /\ N \subseteq Nat /\ 0 \notin N /\ li[0] = res /\ \A m \in N : li[m] = ch[m]
        /\ Trees(N, li, s) /\ res \in Seq(N) /\ ch \in [N -> Seq(N)] /\ sc \in [{0} \cup N -> Seq(N)]
    BY <1>1 DEF TreesAre
  <1>3. PICK p \in {0} \cup N : on \in Range(li[p])
    BY <1>0, <1>2
  <1>4. SwapOf(li, li2, p, on, h)
    <2>1. p \in Nat /\ li[on] = ch[on]
      BY <1>0, <1>2
    <2> QED
      BY <2>1, <1>0, <1>3 DEF SwapOf
  <1>5. Trees(N, li2, s) /\ h \in N /\ on \in N /\ h # on
    BY <1>2, <1>4, SwapHead
  <1>6. li2[0] = res2
    BY <1>0, <1>2, <1>5
  <1>7. \A n \in N : li2[n] = ch2[n]
    BY <1>0, <1>2, <1>5
  <1>8. DOMAIN ch2 = N /\ ch2 = [n \in N |-> ch2[n]]
    BY <1>0
  <1>9. \A n \in {0} \cup N : sc[n] = s[n]
    BY <1>1 DEF TreesAre
  <1>10. DOMAIN sc = {0} \cup N /\ sc = [n \in {0} \cup N |-> sc[n]]
    BY <1>2
  <1> HIDE DEF li2
  <1>11. Forested(N, res2, ch2, sc)
    BY <1>5, <1>6, <1>7, <1>8, <1>9, <1>10, Unlist
  <1> QED
    BY <1>5, <1>11

-----------------------------------------------------------------------------
(* The handlers of stage a. *)

\* What is particular to stage a.
Flat ==
    /\ Token = Node
    /\ scopes = [n \in {Root} \cup Token |-> <<>>]
    /\ inScope = [n \in Token |-> Root]
    /\ \A n \in Node : kind[n] # "scope"

\* The node to the left of the one the compiler is at.
Before == left = IF index = 1 THEN 0 ELSE result[index - 1]

\* Where the compiler is between two handlers of stage a.
Placing == index \in 1 .. Len(result) + 1 /\ Before

\* Where a handler may leave it: past the list the compiler stops with an error.
IndexOk == index \in Nat \ {0} /\ left \in {0} \cup Node /\ (index <= Len(result) + 1 => Before)

\* The compiler goes to the next node, and what is left of it is the one before.
LEMMA AdvanceStep ==
    ASSUME NEW res \in Seq(Node), NEW i \in Nat, Advance(res, i), Node' = Node
    PROVE  IndexOk' /\ result' = res
  <1>1. result' = res /\ index' = i + 1 /\ left' = IF i \in DOMAIN res THEN res[i] ELSE 0
    BY DEF Advance
  <1>2. DOMAIN res = 1 .. Len(res) /\ Len(res) \in Nat /\ \A j \in 1 .. Len(res) : res[j] \in Node
    OBVIOUS
  <1>3. left' \in {0} \cup Node
    BY <1>1, <1>2
  <1>4. index' \in Nat \ {0}
    BY <1>1
  <1>5. ASSUME index' <= Len(result') + 1 PROVE left' = IF index' = 1 THEN 0 ELSE result'[index' - 1]
    <2>1. i <= Len(res) /\ index' - 1 = i
      BY <1>1, <1>2, <1>5
    <2>2. CASE i = 0
      BY <2>1, <2>2, <1>1, <1>2
    <2>3. CASE i # 0
      BY <2>1, <2>3, <1>1, <1>2
    <2> QED
      BY <2>2, <2>3
  <1> QED
    BY <1>1, <1>3, <1>4, <1>5 DEF IndexOk, Before

\* The end of the default handler of n, which is below the root before i.
RightOf(n, res, ch, i) ==
    /\ Forested(Node, res, ch, scopes) /\ n \in Node /\ i \in Nat /\ 2 <= i /\ i <= Len(res) + 1
    /\ n \in Below(EdgesOf(Node, res, ch, scopes), res[i - 1])
    /\ TakeRight(n, res, ch, i)

\* The default handler keeps the forest when it takes the node to the right.
LEMMA TakeRightStep ==
    ASSUME NEW n, NEW res, NEW ch, NEW i, RightOf(n, res, ch, i), Node' = Node
    PROVE  Forested(Node, result', kids', scopes) /\ IndexOk'
  <1>0. /\ Forested(Node, res, ch, scopes) /\ n \in Node /\ i \in Nat /\ 2 <= i /\ i <= Len(res) + 1
        /\ n \in Below(EdgesOf(Node, res, ch, scopes), res[i - 1])
        /\ TakeRight(n, res, ch, i)
    BY DEF RightOf
  <1>s. res \in Seq(Node) /\ Len(res) \in Nat /\ i - 1 \in Nat
    BY <1>0 DEF Forested
  <1>1. CASE Rbp(n) # -1 /\ i <= Len(res) /\ IsAtom(res[i])
    <2>1. /\ kids' = [ch EXCEPT ![n] = Append(ch[n], res[i])]
          /\ Advance(RemoveAt(res, i), i - 1)
      BY <1>0, <1>1 DEF TakeRight
    <2>2. RootOneOf(Node, res, ch, scopes, n, i, i - 1)
      BY <1>0, <1>1, <1>s DEF RootOneOf
    <2>3. Forested(Node, RemoveAt(res, i), [ch EXCEPT ![n] = Append(ch[n], res[i])], scopes)
      <3> DEFINE w == RemoveAt(res, i)
                 d == [ch EXCEPT ![n] = Append(ch[n], res[i])]
      <3>1. RootOneIs(res, ch, n, i, w, d)
        BY DEF RootOneIs
      <3> HIDE DEF w, d
      <3>2. RootOneGives(Node, res, ch, scopes, n, i, w, d)
        BY <2>2, <3>1, RootOne
      <3>3. Forested(Node, w, d, scopes)
        BY <3>2 DEF RootOneGives
      <3> QED
        BY <3>3 DEF w, d
    <2> DEFINE v == RemoveAt(res, i)
    <2>4. v \in Seq(Node)
      BY <2>3 DEF Forested
    <2>5. Advance(v, i - 1)
      BY <2>1
    <2>v. v = RemoveAt(res, i)
      OBVIOUS
    <2> HIDE DEF v
    <2>6. IndexOk' /\ result' = v
      BY <2>4, <2>5, <1>s, AdvanceStep
    <2> QED
      BY <2>1, <2>3, <2>6, <2>v
  <1>2. CASE ~(Rbp(n) # -1 /\ i <= Len(res) /\ IsAtom(res[i]))
    <2>1. kids' = ch /\ Advance(res, i - 1)
      BY <1>0, <1>2 DEF TakeRight
    <2>2. IndexOk' /\ result' = res
      BY <2>1, <1>s, AdvanceStep
    <2> QED
      BY <2>1, <2>2, <1>0
  <1> QED
    BY <1>1, <1>2

\* While the index is in the list, the node there and the one to the left are roots, and
\* are not the same.
LEMMA AtIndex ==
    ASSUME TreesInv, Placing, index <= Len(result)
    PROVE  /\ result \in Seq(Node) /\ Len(result) \in Nat /\ index \in 1 .. Len(result) /\ Current \in Node
           /\ Current \in Range(result) /\ kids[Current] \in Seq(Node)
           /\ (left # 0 => index - 1 \in 1 .. Len(result) /\ left = result[index - 1] /\ left \in Node
                           /\ left \in Range(result) /\ left # Current)
  <1>1. TreesAre(Node, result, kids, scopes, Lists, Scps, Edges)
    BY ForestedFacts DEF TreesInv, Lists, Scps, Edges, EdgesOf
  <1>2. result \in Seq(Node) /\ Distinct(result) /\ kids \in [Node -> Seq(Node)]
    BY <1>1 DEF TreesAre
  <1>3. Len(result) \in Nat /\ index \in 1 .. Len(result)
    BY <1>2 DEF Placing
  <1>4. Current \in Range(result) /\ Range(result) \subseteq Node
    BY <1>2, <1>3, RangeOf DEF Current
  <1>5. ASSUME left # 0
        PROVE  index - 1 \in 1 .. Len(result) /\ left = result[index - 1] /\ left \in Node
               /\ left \in Range(result) /\ left # Current
    <2>1. index # 1 /\ left = result[index - 1]
      BY <1>5 DEF Placing, Before
    <2>2. index - 1 \in 1 .. Len(result) /\ index - 1 # index
      BY <2>1, <1>3
    <2>3. left \in Range(result)
      BY <2>1, <2>2, <1>2, RangeOf
    <2>4. left # Current
      BY <2>1, <2>2, <1>2, <1>3 DEF Distinct, Current
    <2> QED
      BY <2>1, <2>2, <2>3, <2>4, <1>4
  <1> QED
    BY <1>2, <1>3, <1>4, <1>5

\* A node is below itself.
LEMMA BelowSelf ==
    ASSUME NEW res, NEW ch, Forested(Node, res, ch, scopes), NEW n \in Node
    PROVE  n \in Below(EdgesOf(Node, res, ch, scopes), n)
  <1> DEFINE e == EdgesOf(Node, res, ch, scopes)
  <1>1. TreesAre(Node, res, ch, scopes, ListsOf(Node, res, ch), ScopesOf(Node, scopes), e)
    BY ForestedFacts
  <1> HIDE DEF e
  <1>2. e \in Edges0 /\ n \in Nat
    BY <1>1 DEF TreesAre
  <1>3. n \in Below(e, n)
    BY <1>2, BelowFacts
  <1> QED
    BY <1>3 DEF e

\* A child is below its node.
LEMMA BelowKid ==
    ASSUME NEW res, NEW ch, Forested(Node, res, ch, scopes), NEW n \in Node, NEW m \in Range(ch[n])
    PROVE  m \in Below(EdgesOf(Node, res, ch, scopes), n)
  <1> DEFINE e == EdgesOf(Node, res, ch, scopes)
  <1>1. TreesAre(Node, res, ch, scopes, ListsOf(Node, res, ch), ScopesOf(Node, scopes), e)
    BY ForestedFacts
  <1> HIDE DEF e
  <1>2. e \in Edges0 /\ n \in Nat /\ m \in e[n]
    BY <1>1 DEF TreesAre
  <1>3. m \in Below(e, n)
    BY <1>2, BelowChild
  <1> QED
    BY <1>3 DEF e

\* A binary operator keeps the forest: it takes the node to the left, and that to the
\* right.
LEMMA TakeLeftStep ==
    ASSUME TreesInv, Placing, TakeLeft
    PROVE  Forested(Node, result', kids', scopes) /\ IndexOk'
  <1> DEFINE n == Current
             v == RemoveAt(result, index - 1)
             ch == [kids EXCEPT ![n] = Append(kids[n], result[index - 1])]
  <1>0. Node' = Node
    BY DEF TakeLeft, Node
  <1>1. index <= Len(result) /\ left # 0 /\ TakeRight(n, v, [kids EXCEPT ![n] = Append(@, left)], index)
    BY DEF TakeLeft, HasLeft
  <1>2. /\ result \in Seq(Node) /\ Len(result) \in Nat /\ index \in 1 .. Len(result) /\ n \in Node
        /\ index - 1 \in 1 .. Len(result) /\ left = result[index - 1] /\ n = result[index]
    BY <1>1, AtIndex DEF Current
  <1>f. Forested(Node, result, kids, scopes)
    BY DEF TreesInv
  <1>3. RootOneOf(Node, result, kids, scopes, n, index - 1, index)
    <2>1. n \in Below(EdgesOf(Node, result, kids, scopes), n)
      BY <1>2, <1>f, BelowSelf
    <2> HIDE DEF n
    <2> QED
      BY <2>1, <1>2, <1>f DEF RootOneOf
  <1> HIDE DEF n
  <1>r. RootOneIs(result, kids, n, index - 1, v, ch)
    BY DEF RootOneIs
  <1>6. TakeRight(n, v, ch, index)
    BY <1>1, <1>2
  <1> HIDE DEF v, ch
  <1>4. /\ Forested(Node, v, ch, scopes) /\ Len(v) = Len(result) - 1
        /\ \A k \in 1 .. Len(result) - 1 : v[k] = IF k < index - 1 THEN result[k] ELSE result[k + 1]
    <2>1. RootOneGives(Node, result, kids, scopes, n, index - 1, v, ch)
      BY <1>3, <1>r, RootOne
    <2> QED
      BY <2>1 DEF RootOneGives
  <1>5. v[index - 1] = n
    BY <1>2, <1>4
  <1>7. n \in Below(EdgesOf(Node, v, ch, scopes), n)
    BY <1>2, <1>4, BelowSelf
  <1>8. RightOf(n, v, ch, index)
    BY <1>2, <1>4, <1>5, <1>6, <1>7 DEF RightOf
  <1> QED
    BY <1>0, <1>8, TakeRightStep

\* A unary operator keeps the forest.
LEMMA MakeUnaryStep ==
    ASSUME TreesInv, Placing, MakeUnary
    PROVE  Forested(Node, result', kids', scopes) /\ IndexOk'
  <1> DEFINE n == Current
  <1>0. Node' = Node
    BY DEF MakeUnary, Node
  <1>1. index <= Len(result) /\ TakeRight(n, result, kids, index + 1)
    BY DEF MakeUnary
  <1>2. /\ result \in Seq(Node) /\ Len(result) \in Nat /\ index \in 1 .. Len(result) /\ n \in Node
        /\ n = result[index]
    BY <1>1, AtIndex DEF Current
  <1>f. Forested(Node, result, kids, scopes)
    BY DEF TreesInv
  <1>3. n \in Below(EdgesOf(Node, result, kids, scopes), n)
    BY <1>2, <1>f, BelowSelf
  <1> HIDE DEF n
  <1>4. index + 1 \in Nat /\ 2 <= index + 1 /\ index + 1 <= Len(result) + 1 /\ (index + 1) - 1 = index
    BY <1>2
  <1> DEFINE i == index + 1
  <1>5. i \in Nat /\ 2 <= i /\ i <= Len(result) + 1 /\ result[i - 1] = n /\ TakeRight(n, result, kids, i)
    BY <1>1, <1>2, <1>4
  <1> HIDE DEF i
  <1>6. RightOf(n, result, kids, i)
    BY <1>2, <1>3, <1>5, <1>f DEF RightOf
  <1> QED
    BY <1>0, <1>6, TakeRightStep

\* An operator that goes into the one to its left keeps the forest: it takes the last
\* child of one that is complete, and becomes the child of one that waits.
LEMMA InsertIntoLeftStep ==
    ASSUME TreesInv, Placing, InsertIntoLeft
    PROVE  Forested(Node, result', kids', scopes) /\ IndexOk'
  <1> DEFINE n == Current
             v == RemoveAt(result, index)
             full == Len(kids[left]) > 1 \/ (left \in unary /\ Len(kids[left]) = 1)
             ch == IF full THEN Handed(n) ELSE [kids EXCEPT ![left] = Append(@, n)]
  <1>0. Node' = Node
    BY DEF InsertIntoLeft, Node
  <1>1. index <= Len(result) /\ left # 0 /\ TakeRight(n, v, ch, index)
    BY DEF InsertIntoLeft, HasLeft
  <1>2. /\ result \in Seq(Node) /\ Len(result) \in Nat /\ index \in 1 .. Len(result) /\ n \in Node
        /\ index - 1 \in 1 .. Len(result) /\ left = result[index - 1] /\ n = result[index]
        /\ left \in Node /\ n \in Range(result) /\ left \in Range(result) /\ left # n
    BY <1>1, AtIndex DEF Current
  <1>f. Forested(Node, result, kids, scopes)
    BY DEF TreesInv
  <1>k. kids \in [Node -> Seq(Node)]
    BY <1>f DEF Forested
  <1> DEFINE k1 == [kids EXCEPT ![left] = Front(kids[left]), ![n] = Append(kids[n], Last(kids[left]))]
             k0 == IF full THEN k1 ELSE kids
  <1> HIDE DEF n
  <1>3. Forested(Node, result, k0, scopes)
    <2>1. CASE full
      <3>0. kids[left] \in Seq(Node)
        BY <1>2, <1>k
      <3>1. kids[left] # <<>>
        <4>1. Len(kids[left]) >= 1
          BY <2>1, <3>0
        <4> QED
          BY <4>1
      <3>2. n \in Below(EdgesOf(Node, result, kids, scopes), n)
        BY <1>2, <1>f, BelowSelf
      <3>3. RootHandOf(Node, result, kids, scopes, n, left, n)
        BY <3>1, <3>2, <1>2, <1>f DEF RootHandOf
      <3>4. Forested(Node, result, k1, scopes)
        BY <3>3, RootHand
      <3> QED
        BY <3>4, <2>1
    <2>2. CASE ~full
      BY <2>2, <1>f
    <2> QED
      BY <2>1, <2>2
  <1>4. ch = [k0 EXCEPT ![left] = Append(k0[left], n)]
    <2>1. CASE full
      BY <2>1, <1>2, <1>k DEF Handed
    <2>2. CASE ~full
      BY <2>2, <1>2, <1>k
    <2> QED
      BY <2>1, <2>2
  <1>l. TakeRight(n, v, ch, index)
    BY <1>1
  <1> HIDE DEF k0, ch, full, k1
  <1>5. RootOneOf(Node, result, k0, scopes, left, index, index - 1)
    <2>1. left \in Below(EdgesOf(Node, result, k0, scopes), left)
      BY <1>2, <1>3, BelowSelf
    <2> QED
      BY <2>1, <1>2, <1>3 DEF RootOneOf
  <1>r. RootOneIs(result, k0, left, index, v, ch)
    BY <1>2, <1>4 DEF RootOneIs
  <1> HIDE DEF v
  <1>6. /\ Forested(Node, v, ch, scopes)
        /\ Len(v) = Len(result) - 1
        /\ \A k \in 1 .. Len(result) - 1 : v[k] = IF k < index THEN result[k] ELSE result[k + 1]
        /\ Range(ch[left]) = Range(k0[left]) \cup {n}
    <2>1. RootOneGives(Node, result, k0, scopes, left, index, v, ch)
      BY <1>5, <1>r, RootOne
    <2> QED
      BY <2>1, <1>2 DEF RootOneGives
  <1>7. Forested(Node, v, ch, scopes)
    BY <1>6
  <1>8. v[index - 1] = left
    BY <1>2, <1>6
  <1>9. n \in Range(ch[left])
    BY <1>6
  <1>10. n \in Below(EdgesOf(Node, v, ch, scopes), v[index - 1])
    BY <1>2, <1>7, <1>8, <1>9, BelowKid
  <1>11. RightOf(n, v, ch, index)
    <2>1. TakeRight(n, v, ch, index)
      BY <1>l
    <2>2. index \in Nat /\ 2 <= index /\ index <= Len(v) + 1
      BY <1>2, <1>6
    <2> QED
      BY <2>1, <2>2, <1>2, <1>7, <1>10 DEF RightOf
  <1> QED
    BY <1>0, <1>11, TakeRightStep

\* A set of numbers that is not empty has a least one.
LEMMA LeastMember ==
    ASSUME NEW T \in SUBSET Nat, T # {}
    PROVE  \E m \in T : \A k \in T : m <= k
<1> DEFINE R == {s \in Nat \X Nat : s[1] < s[2]}
<1>1. IsWellFoundedOn(R, Nat)
  BY NatLessThanWellFounded DEF OpToRel
<1>2. \A x, y \in Nat : x < y => <<x, y>> \in R
  OBVIOUS
<1> HIDE DEF R
<1>3. \E x \in T : \A y \in T : ~(<<y, x>> \in R)
  BY <1>1, WFMin
<1>4. PICK m \in T : \A k \in T : <<k, m>> \notin R
  BY <1>3
<1>5. \A k \in T : ~(k < m) /\ k \in Nat /\ m \in Nat
  BY <1>2, <1>4
<1>6. \A k \in T : m <= k
  BY <1>5
<1> QED
  BY <1>6

\* The greatest place at which something is found is a place at which it is found: the
\* search of a closing goes from right to left.
LEMMA MaxOf ==
    ASSUME NEW n \in Nat, NEW T \in SUBSET (1 .. n), T # {}
    PROVE  Max(T) \in T
<1> DEFINE B == {k \in 0 .. n : \E x \in T : k = n - x}
<1>1. B \in SUBSET Nat /\ B # {}
  <2>1. PICK x \in T : TRUE
    OBVIOUS
  <2>2. x \in 1 .. n /\ n - x \in 0 .. n
    OBVIOUS
  <2>3. n - x \in B
    BY <2>2
  <2>4. B \subseteq Nat
    OBVIOUS
  <2> QED
    BY <2>3, <2>4
<1>2. PICK m \in B : \A k \in B : m <= k
  BY <1>1, LeastMember
<1>3. PICK x \in T : m = n - x
  OBVIOUS
<1>4. \A y \in T : x >= y
  <2> TAKE y \in T
  <2>1. n - y \in B /\ y \in 1 .. n /\ x \in 1 .. n
    OBVIOUS
  <2>2. m <= n - y
    BY <1>2, <2>1
  <2> QED
    BY <1>3, <2>1, <2>2
<1>5. \E z \in T : \A y \in T : z >= y
  BY <1>4
<1> QED
  BY <1>5 DEF Max

\* A token without a handler keeps the forest.
LEMMA SkipStep ==
    ASSUME TreesInv, Placing, Skip
    PROVE  Forested(Node, result', kids', scopes) /\ IndexOk'
  <1>1. Node' = Node /\ kids' = kids /\ index <= Len(result) /\ Advance(result, index)
    BY DEF Skip, trees, Node
  <1>2. result \in Seq(Node) /\ index \in Nat
    BY <1>1, AtIndex
  <1>3. IndexOk' /\ result' = result
    BY <1>1, <1>2, AdvanceStep
  <1> QED
    BY <1>1, <1>3 DEF TreesInv

\* Identifiers that become children of the one before them keep the forest.
LEMMA JuxtaposeStep ==
    ASSUME TreesInv, Placing, Juxtapose
    PROVE  Forested(Node, result', kids', scopes) /\ IndexOk'
  <1> DEFINE P(l) == /\ \A i \in index .. l : kind[result[i]] = "id"
                     /\ l < Len(result) => kind[result[l + 1]] # "id"
             last == CHOOSE l \in index .. Len(result) : P(l)
             a == index - 1
             c == last + 1
             g == SubSeq(result, index, last)
             v == SubSeq(result, 1, index - 1) \o SubSeq(result, last + 1, Len(result))
             cc == [kids EXCEPT ![left] = @ \o SubSeq(result, index, last)]
  <1>0. /\ Node' = Node /\ index <= Len(result) /\ kind[Current] = "id" /\ left # 0
        /\ kids' = cc /\ Advance(v, a)
    BY DEF Juxtapose, Juxtaposed, Node
  <1>1. /\ result \in Seq(Node) /\ Len(result) \in Nat /\ index \in 1 .. Len(result)
        /\ a \in 1 .. Len(result) /\ left = result[a] /\ left \in Node
    BY <1>0, AtIndex
  <1>2. last \in index .. Len(result)
    <2> DEFINE T == {l \in index .. Len(result) : l < Len(result) => kind[result[l + 1]] # "id"}
    <2>1. T \in SUBSET Nat /\ Len(result) \in T
      BY <1>1
    <2>2. PICK l \in T : \A k \in T : l <= k
      BY <2>1, LeastMember
    <2>3. l \in index .. Len(result) /\ (l < Len(result) => kind[result[l + 1]] # "id")
      BY <2>2
    <2>4. \A i \in index .. l : kind[result[i]] = "id"
      <3> SUFFICES ASSUME NEW i \in index .. l, kind[result[i]] # "id" PROVE FALSE
        OBVIOUS
      <3>1. i # index
        BY <1>0 DEF Current
      <3>2. i - 1 \in T /\ i - 1 < l
        <4>1. i - 1 \in index .. Len(result) /\ i - 1 < l /\ (i - 1) + 1 = i
          BY <3>1, <2>3, <1>1
        <4> QED
          BY <4>1
      <3>3. l <= i - 1
        BY <3>2, <2>2
      <3> QED
        BY <3>2, <3>3, <2>3, <1>1
    <2> HIDE DEF T
    <2> QED
      BY <2>3, <2>4
  <1>3. /\ c \in Nat /\ a < c /\ c <= Len(result) + 1 /\ a + 1 = index /\ c - 1 = last
        /\ a \in Nat /\ 1 <= a
    BY SMTT(60), <1>1, <1>2
  <1> HIDE DEF last
  <1>4. Split(result, a, c, g, v)
    <2>1. g = SubSeq(result, a + 1, c - 1) /\ v = SubSeq(result, 1, a) \o SubSeq(result, c, Len(result))
      BY <1>3
    <2> QED
      BY <1>3, <2>1 DEF Split
  <1>5. GatherIs(kids, left, g, cc)
    BY DEF GatherIs
  <1> HIDE DEF g, v, cc, c, a
  <1>6. GatherOf(Node, result, kids, scopes, left, a, c, g, v)
    <2>1. left \in Below(EdgesOf(Node, result, kids, scopes), left)
      BY <1>1, BelowSelf DEF TreesInv
    <2> QED
      BY <2>1, <1>1, <1>4 DEF GatherOf, TreesInv
  <1>7. GatherGives(Node, result, kids, scopes, left, a, g, v, cc)
    BY <1>5, <1>6, Gather
  <1>8. IndexOk' /\ result' = v
    <2>1. v \in Seq(Node)
      BY <1>7 DEF GatherGives
    <2> QED
      BY <2>1, <1>0, <1>3, AdvanceStep
  <1> QED
    BY <1>0, <1>7, <1>8 DEF GatherGives

\* Where the handler of a closing finds the opening.
FoundAt(k, i, on) ==
    /\ i \in Nat /\ 1 <= i /\ i < index /\ index \in Nat /\ index <= Len(result)
    /\ on \in Node /\ kind[on] = k /\ on \in Below(EdgesOf(Node, result, kids, scopes), result[i])
    /\ on = result[i] \/ \E m \in Node : on \in Range(kids[m])
    /\ Split(result, i, index, Gathered(i), Remaining(i))

\* What the search of a closing finds is an opening, below a root to the left of it.
LEMMA FoundFacts ==
    ASSUME Typed, TreesInv, Placing, NEW c \in DOMAIN Closes, Closed(c), NEW k, k = Closes[c],
           NEW i, i = OpenedAt(k), NEW on, on = OnEdge(k)[result[i]]
    PROVE  FoundAt(k, i, on)
  <1>1. index <= Len(result) /\ Opened(k) # {}
    BY DEF Closed, Closing
  <1>2. result \in Seq(Node) /\ Len(result) \in Nat /\ index \in 1 .. Len(result)
    BY <1>1, AtIndex
  <1>3. i \in Opened(k)
    <2>1. index - 1 \in Nat /\ Opened(k) \in SUBSET (1 .. index - 1)
      BY <1>2 DEF Opened
    <2> QED
      BY <1>1, <2>1, MaxOf DEF OpenedAt
  <1>4. i \in Nat /\ 1 <= i /\ i < index /\ index \in Nat /\ index <= Len(result) /\ kind[on] = k
        /\ i \in 1 .. Len(result)
    BY <1>2, <1>3 DEF Opened
  <1>5. result[i] \in Node
    BY <1>2, <1>4
  <1> DEFINE r == result[i]
  <1>6. on = OnEdge(k)[r] /\ r \in Node
    BY <1>5
  <1> HIDE DEF r
  <1>7. on \in Node /\ on \in Below(Edges, r)
        /\ (on = r \/ \E m \in Node : kids[m] # <<>> /\ on = Last(kids[m]))
    BY <1>6, EdgeFacts
  <1>8. \A m \in Node : kids[m] # <<>> => Last(kids[m]) \in Range(kids[m])
    <2>1. \A m \in Node : kids[m] \in Seq(Node)
      BY DEF TreesInv, Forested
    <2> QED
      BY <2>1, FrontOf
  <1>9. on = result[i] \/ \E m \in Node : on \in Range(kids[m])
    BY <1>7, <1>8 DEF r
  <1>10. Split(result, i, index, Gathered(i), Remaining(i))
    BY <1>4 DEF Split, Gathered, Remaining
  <1> QED
    BY <1>4, <1>7, <1>9, <1>10 DEF FoundAt, r, Edges, EdgesOf, Lists, Scps

\* What is between the opening found and the closing can go to any node below the root of
\* the opening.
LEMMA GatherFound ==
    ASSUME TreesInv, NEW k, NEW i, NEW on, FoundAt(k, i, on),
           NEW q \in Below(EdgesOf(Node, result, kids, scopes), result[i]),
           NEW cc, GatherIs(kids, q, Gathered(i), cc)
    PROVE  GatherGives(Node, result, kids, scopes, q, i, Gathered(i), Remaining(i), cc)
  <1> DEFINE g == Gathered(i)
             v == Remaining(i)
  <1>1. GatherOf(Node, result, kids, scopes, q, i, index, g, v)
    BY DEF GatherOf, FoundAt, TreesInv
  <1>2. GatherIs(kids, q, g, cc)
    OBVIOUS
  <1> HIDE DEF g, v
  <1>3. GatherGives(Node, result, kids, scopes, q, i, g, v, cc)
    BY <1>1, <1>2, Gather
  <1> QED
    BY <1>3 DEF g, v

\* A closing bracket keeps the forest.
LEMMA CloseBracketStep ==
    ASSUME Typed, TreesInv, Placing, CloseBracket
    PROVE  Forested(Node, result', kids', scopes) /\ IndexOk'
  <1> DEFINE i == OpenedAt("lbracket")
             on == OnEdge("lbracket")[result[i]]
             cc == [kids EXCEPT ![on] = kids[on] \o Gathered(i)]
  <1>1. Closed("rbracket") /\ kids' = cc /\ kind' = [kind EXCEPT ![on] = "group"]
        /\ Advance(Remaining(i), i)
    BY DEF CloseBracket
  <1>2. FoundAt("lbracket", i, on)
    <2>1. "rbracket" \in DOMAIN Closes /\ Closes["rbracket"] = "lbracket"
      BY DEF Closes
    <2> QED
      BY <1>1, <2>1, FoundFacts
  <1>3. GatherIs(kids, on, Gathered(i), cc)
    BY DEF GatherIs
  <1> HIDE DEF i, on, cc
  <1>4. GatherGives(Node, result, kids, scopes, on, i, Gathered(i), Remaining(i), cc)
    BY <1>2, <1>3, GatherFound DEF FoundAt
  <1>5. Node' = Node
    BY <1>1 DEF Node
  <1>6. IndexOk' /\ result' = Remaining(i)
    BY <1>1, <1>2, <1>4, <1>5, AdvanceStep DEF GatherGives, FoundAt
  <1> QED
    BY <1>1, <1>4, <1>6 DEF GatherGives

\* A closing paren or bracket without an opening keeps the forest: it goes to the end of
\* the list.
LEMMA UnmatchedClosingStep ==
    ASSUME TreesInv, Placing, UnmatchedClosing
    PROVE  Forested(Node, result', kids', scopes) /\ IndexOk'
  <1> DEFINE d == index + 1
             L == Len(result)
             b == SubSeq(result, d, L)
             x == Current
             v == Append(b, x)
  <1>1. Node' = Node /\ kids' = kids /\ index <= Len(result) /\ Advance(v, index)
    BY DEF UnmatchedClosing, Closing, trees, Node
  <1>2. result \in Seq(Node) /\ L \in Nat /\ index \in 1 .. L /\ x \in Node /\ x \in Range(result)
        /\ x = result[index] /\ index \in Nat
    BY <1>1, AtIndex DEF Current
  <1>3. Distinct(result)
    <2>1. TreesAre(Node, result, kids, scopes, Lists, Scps, Edges)
      BY ForestedFacts DEF TreesInv, Lists, Scps, Edges, EdgesOf
    <2> QED
      BY <2>1 DEF TreesAre
  <1>4. d \in Nat /\ d >= 1 /\ L <= Len(result) /\ index < d
    BY <1>2
  <1>l. L = Len(result)
    OBVIOUS
  <1> HIDE DEF d, x, L
  <1>5. /\ b \in Seq(Node) /\ Distinct(b) /\ Range(b) = {result[i] : i \in d .. L}
        /\ Range(b) \subseteq Range(result)
    BY <1>2, <1>3, <1>4, SubSeqOf
  <1>6. x \notin Range(b)
    BY <1>2, <1>3, <1>4, <1>5, <1>l DEF Distinct
  <1> HIDE DEF b
  <1>7. v \in Seq(Node) /\ Distinct(v) /\ Range(v) = Range(b) \cup {x}
    BY <1>2, <1>5, <1>6, AppendOf
  <1> HIDE DEF v
  <1>8. RootDropOf(Node, result, kids, scopes, v)
    BY <1>2, <1>5, <1>7 DEF RootDropOf, TreesInv
  <1>9. Forested(Node, v, kids, scopes)
    BY <1>8, RootDrop
  <1>10. IndexOk' /\ result' = v
    BY <1>1, <1>2, <1>7, AdvanceStep
  <1> QED
    BY <1>1, <1>9, <1>10

\* A list without its first element, place by place.
LEMMA TailSeq ==
    ASSUME NEW S, NEW s \in Seq(S), s # <<>>
    PROVE  /\ Tail(s) \in Seq(S) /\ Len(s) \in Nat /\ Len(s) >= 1 /\ Len(Tail(s)) = Len(s) - 1
           /\ \A i \in 1 .. Len(s) - 1 : Tail(s)[i] = s[i + 1]
           /\ Head(s) = s[1] /\ Head(s) \in Range(s)
           /\ Range(Tail(s)) \subseteq Range(s)
           /\ Distinct(s) => Distinct(Tail(s)) /\ Head(s) \notin Range(Tail(s))
           /\ Range(s) = Range(Tail(s)) \cup {Head(s)}
  <1>1. Tail(s) \in Seq(S) /\ Len(s) \in Nat /\ Len(s) >= 1 /\ Len(Tail(s)) = Len(s) - 1
    OBVIOUS
  <1>2. (\A i \in 1 .. Len(s) - 1 : Tail(s)[i] = s[i + 1]) /\ Head(s) = s[1]
    OBVIOUS
  <1>3. Range(s) = {s[i] : i \in 1 .. Len(s)}
    BY RangeOf
  <1> DEFINE t == Tail(s)
  <1>t. t \in Seq(S) /\ Len(t) = Len(s) - 1 /\ (\A i \in 1 .. Len(s) - 1 : t[i] = s[i + 1])
    BY <1>1, <1>2
  <1> HIDE DEF t
  <1>4. Range(t) = {t[i] : i \in 1 .. Len(t)}
    BY <1>t, RangeOf
  <1>5. Range(t) = {s[i + 1] : i \in 1 .. Len(s) - 1}
    BY <1>t, <1>4, <1>1
  <1>6. \A i \in 1 .. Len(s) - 1 : i + 1 \in 1 .. Len(s) /\ i + 1 # 1
    BY <1>1
  <1>7. Head(s) \in Range(s) /\ Range(t) \subseteq Range(s)
    BY <1>1, <1>2, <1>3, <1>5, <1>6
  <1>8. Range(s) \subseteq Range(t) \cup {Head(s)}
    <2> SUFFICES ASSUME NEW i \in 1 .. Len(s), i # 1 PROVE s[i] \in Range(t)
      BY <1>2, <1>3
    <2>1. i - 1 \in 1 .. Len(s) - 1 /\ (i - 1) + 1 = i
      BY <1>1
    <2> QED
      BY <2>1, <1>5
  <1>9. ASSUME Distinct(s) PROVE Distinct(t) /\ Head(s) \notin Range(t)
    <2>1. \A i, j \in 1 .. Len(s) : s[i] = s[j] => i = j
      BY <1>9 DEF Distinct
    <2>2. Head(s) \notin Range(t)
      BY <2>1, <1>1, <1>2, <1>5, <1>6
    <2>3. Distinct(t)
      <3> SUFFICES ASSUME NEW i \in 1 .. Len(t), NEW j \in 1 .. Len(t), t[i] = t[j] PROVE i = j
        BY DEF Distinct
      <3>1. i + 1 \in 1 .. Len(s) /\ j + 1 \in 1 .. Len(s) /\ s[i + 1] = s[j + 1]
        BY <1>t, <1>1
      <3> QED
        BY <3>1, <2>1
    <2> QED
      BY <2>2, <2>3
  <1> QED
    BY <1>1, <1>2, <1>7, <1>8, <1>9 DEF t

\* The list of p becomes the one of its first child, of what follows that, or of both.
RootUnwrapOnlyOf(N, res, ch, sc, n, f, w) ==
    /\ Forested(N, res, ch, sc) /\ n \in N /\ ch[n] # <<>> /\ f = Head(ch[n])
    /\ w \in Seq(N) /\ Distinct(w) /\ Range(w) \subseteq Range(ch[f]) \cup Range(Tail(ch[n]))

\* A node whose list becomes part of that of its first child keeps the forest.
LEMMA RootUnwrapOnly ==
    ASSUME NEW N, NEW res, NEW ch, NEW sc, NEW n, NEW f, NEW w, RootUnwrapOnlyOf(N, res, ch, sc, n, f, w),
           NEW ch2, ch2 = [ch EXCEPT ![n] = w, ![f] = <<>>]
    PROVE  Forested(N, res, ch2, sc) /\ f \in N /\ f # n
  <1>0. /\ Forested(N, res, ch, sc) /\ n \in N /\ ch[n] # <<>> /\ f = Head(ch[n])
        /\ w \in Seq(N) /\ Distinct(w) /\ Range(w) \subseteq Range(ch[f]) \cup Range(Tail(ch[n]))
        /\ ch \in [N -> Seq(N)]
    BY DEF RootUnwrapOnlyOf, Forested
  <1> DEFINE a == ch[f]
             b == Tail(ch[n])
             x == a \o b
             c1 == [ch EXCEPT ![n] = ch[f] \o Tail(ch[n]), ![f] = <<>>]
             c2 == [c1 EXCEPT ![n] = w]
  <1>1. RootUnwrapOf(N, res, ch, sc, n, f)
    BY <1>0 DEF RootUnwrapOf
  <1>2. Forested(N, res, c1, sc) /\ f \in N /\ f # n
    BY <1>1, RootUnwrap
  <1>3. a \in Seq(N) /\ b \in Seq(N)
    <2>1. ch[n] \in Seq(N)
      BY <1>0
    <2>2. Tail(ch[n]) \in Seq(N)
      BY SMTT(60), <2>1, <1>0, TailSeq
    <2> QED
      BY <2>2, <1>0, <1>2
  <1>4. c1[n] = x
    BY Zenon, <1>0, <1>2
  <1>5. ch2 = c2
    BY <1>0, <1>2
  <1>6. Range(w) \subseteq Range(a) \cup Range(b)
    BY <1>0
  <1> HIDE DEF a, b
  <1>7. Range(x) = Range(a) \cup Range(b)
    BY <1>3, ConcatOf
  <1> HIDE DEF x, c1
  <1>8. KidDropOf(N, res, c1, sc, n, w)
    BY <1>0, <1>2, <1>4, <1>6, <1>7 DEF KidDropOf
  <1>9. Forested(N, res, c2, sc)
    BY <1>8, KidDrop
  <1> QED
    BY <1>2, <1>5, <1>9

\* Of a list that starts with a list of one element, the first and the rest.
LEMMA OneHead ==
    ASSUME NEW S, NEW g \in Seq(S), NEW k \in Seq(S), Len(k) = 1, NEW h, h = k[1]
    PROVE  k \o g # <<>> /\ Head(k \o g) = h /\ Tail(k \o g) = g
  <1> DEFINE u == k \o g
             t == Tail(u)
  <1>0. /\ u \in Seq(S) /\ Len(u) = Len(k) + Len(g) /\ (\A i \in 1 .. Len(k) : u[i] = k[i])
        /\ \A i \in 1 .. Len(g) : u[Len(k) + i] = g[i]
    <2>1. k \o g \in Seq(S) /\ Len(k \o g) = Len(k) + Len(g)
      BY ONLY k \in Seq(S), g \in Seq(S), ConcatOf
    <2>2. \A i \in 1 .. Len(k) : (k \o g)[i] = k[i]
      BY ONLY k \in Seq(S), g \in Seq(S), ConcatOf
    <2>3. \A i \in 1 .. Len(g) : (k \o g)[Len(k) + i] = g[i]
      BY ONLY k \in Seq(S), g \in Seq(S), ConcatOf
    <2> QED
      BY <2>1, <2>2, <2>3
  <1>1. u \in Seq(S) /\ Len(u) = 1 + Len(g) /\ Len(g) \in Nat /\ u[1] = h
    <2> HIDE DEF u
    <2>1. Len(g) \in Nat /\ 1 \in 1 .. Len(k)
      OBVIOUS
    <2> QED
      BY <1>0, <2>1
  <1>2. \A i \in 1 .. Len(g) : u[i + 1] = g[i]
    <2> HIDE DEF u
    <2> TAKE i \in 1 .. Len(g)
    <2>1. i + 1 = Len(k) + i
      OBVIOUS
    <2> QED
      BY <1>0, <2>1
  <1> HIDE DEF u
  <1>3. u # <<>> /\ Head(u) = h
    BY <1>1
  <1>4. t \in Seq(S) /\ Len(t) = Len(g) /\ \A i \in 1 .. Len(g) : t[i] = u[i + 1]
    BY <1>1
  <1> HIDE DEF t
  <1>5. t = g
    BY <1>2, <1>4
  <1> QED
    BY <1>3, <1>5 DEF u, t

\* The closing paren after a list of captures keeps the forest, and changes the kinds of
\* two nodes.
LEMMA MakeLambdaStep ==
    ASSUME Typed, TreesInv, Placing, MakeLambda
    PROVE  /\ Forested(Node, result', kids', scopes) /\ IndexOk'
           /\ \E on, h \in Node : kind' = [kind EXCEPT ![on] = "arguments", ![h] = "lambda"]
  <1> DEFINE i == OpenedAt("lparen")
             on == OnEdge("lparen")[result[i]]
             h == kids[on][1]
             G == Gathered(i)
             v == Remaining(i)
             cc == [kids EXCEPT ![on] = kids[on] \o G]
             res2 == ReplaceAll(v, on, h)
             ch2 == [n \in Node |-> IF n = on THEN Tail(cc[on])
                                    ELSE IF n = h THEN Append(cc[h], on) ELSE ReplaceAll(cc[n], on, h)]
             kk == [n \in Node |->
                        CASE n = on -> G
                          [] n = h -> Append(kids[n], on)
                          [] OTHER -> ReplaceAll(kids[n], on, h)]
  <1>1. Closed("rparen") /\ IsLambda(on) /\ kids' = kk /\ Advance(res2, i)
        /\ kind' = [kind EXCEPT ![on] = "arguments", ![h] = "lambda"]
    BY DEF MakeLambda
  <1>2. FoundAt("lparen", i, on)
    <2>1. "rparen" \in DOMAIN Closes /\ Closes["rparen"] = "lparen"
      BY DEF Closes
    <2> QED
      BY <1>1, <2>1, FoundFacts
  <1>3. GatherIs(kids, on, G, cc)
    BY DEF GatherIs
  <1> HIDE DEF i, on, cc
  <1>4. GatherGives(Node, result, kids, scopes, on, i, G, v, cc)
    BY <1>2, <1>3, GatherFound DEF FoundAt
  <1>i. i \in Nat /\ on \in Node /\ 1 <= i
    BY <1>2 DEF FoundAt
  <1>5. /\ Forested(Node, v, cc, scopes) /\ G \in Seq(Node) /\ v \in Seq(Node) /\ kids \in [Node -> Seq(Node)]
        /\ cc[on] = kids[on] \o G /\ (\A n \in Node \ {on} : cc[n] = kids[n])
        /\ i \in 1 .. Len(v) /\ v[i] = result[i]
    <2> HIDE DEF G, v, h, res2, ch2, kk
    <2>1. Len(v) \in Nat /\ i <= Len(v) /\ \A k \in 1 .. i : v[k] = result[k]
      BY <1>4 DEF GatherGives
    <2>2. i \in 1 .. Len(v) /\ i \in 1 .. i
      BY <2>1, <1>i
    <2> QED
      BY <1>4, <2>1, <2>2 DEF GatherGives
  <1> DEFINE k == kids[on]
  <1>6. k \in Seq(Node) /\ Len(k) = 1 /\ k[1] = h
    <2>1. Len(kids[on]) = 1
      BY <1>1 DEF IsLambda
    <2>2. kids[on] \in Seq(Node)
      BY <1>5, <1>i
    <2> QED
      BY <2>1, <2>2
  <1> HIDE DEF G, v
  <1>7. k \o G # <<>> /\ Head(k \o G) = h /\ Tail(k \o G) = G
    <2> HIDE DEF k, h
    <2> QED
      BY ZenonT(60), <1>5, <1>6, OneHead
  <1>8. cc[on] # <<>> /\ h = Head(cc[on]) /\ Tail(cc[on]) = G
    BY <1>5, <1>7
  <1>9. on \in Range(v) \/ \E m \in Node : on \in Range(cc[m])
    <2>1. CASE on = result[i]
      BY <2>1, <1>5, RangeOf
    <2>2. CASE \E m \in Node : on \in Range(kids[m])
      <3>1. PICK m \in Node : on \in Range(kids[m])
        BY <2>2
      <3>2. Range(kids[m]) \subseteq Range(cc[m])
        BY <1>4, <1>5 DEF GatherGives
      <3> QED
        BY <3>1, <3>2
    <2> QED
      BY <2>1, <2>2, <1>2 DEF FoundAt
  <1>r. RootSwapOf(Node, v, cc, scopes, res2, ch2, on, h)
    BY <1>5, <1>8, <1>9, <1>i DEF RootSwapOf
  <1>d. res2 = ReplaceAll(v, on, h)
    OBVIOUS
  <1>e. ch2 = [n \in Node |-> IF n = on THEN Tail(cc[on])
                              ELSE IF n = h THEN Append(cc[h], on) ELSE ReplaceAll(cc[n], on, h)]
    OBVIOUS
  <1> HIDE DEF res2, ch2, h, k
  <1>10. Forested(Node, res2, ch2, scopes) /\ h \in Node /\ h # on
    BY <1>r, RootSwap
  <1>11. kk = ch2
    <2>1. \A n \in Node : kk[n] = ch2[n]
      <3> TAKE n \in Node
      <3>1. kk[n] = CASE n = on -> G [] n = h -> Append(kids[n], on) [] OTHER -> ReplaceAll(kids[n], on, h)
        OBVIOUS
      <3> HIDE DEF kk
      <3>2. ch2[n] = IF n = on THEN Tail(cc[on]) ELSE IF n = h THEN Append(cc[h], on) ELSE ReplaceAll(cc[n], on, h)
        BY <1>e
      <3>3. CASE n = on
        <4>1. kk[n] = G
          BY <3>1, <3>3, <1>10
        <4> QED
          BY <3>2, <3>3, <4>1, <1>8
      <3>4. CASE n # on /\ n = h
        <4>1. kk[n] = Append(kids[n], on)
          BY <3>1, <3>4
        <4>2. cc[h] = kids[n]
          BY <3>4, <1>5
        <4> QED
          BY <3>2, <3>4, <4>1, <4>2
      <3>5. CASE n # on /\ n # h
        <4>1. kk[n] = ReplaceAll(kids[n], on, h)
          BY <3>1, <3>5
        <4>2. cc[n] = kids[n]
          BY <3>5, <1>5
        <4> QED
          BY <3>2, <3>5, <4>1, <4>2
      <3> QED
        BY <3>3, <3>4, <3>5
    <2>2. DOMAIN ch2 = Node /\ ch2 = [n \in Node |-> ch2[n]]
      BY <1>e
    <2> QED
      BY <2>1, <2>2
  <1>12. kind' = [kind EXCEPT ![on] = "arguments", ![h] = "lambda"]
    BY <1>1 DEF h
  <1> HIDE DEF kk
  <1>13. Node' = Node
    BY <1>12 DEF Node
  <1>14. IndexOk' /\ result' = res2
    <2>1. res2 \in Seq(Node) /\ Advance(res2, i)
      BY <1>1, <1>10 DEF Forested
    <2> QED
      BY <2>1, <1>i, <1>13, AdvanceStep
  <1> QED
    BY Zenon, <1>1, <1>10, <1>11, <1>12, <1>14, <1>i

\* Of a list that starts with a list that is not empty, the first and the rest.
LEMMA HeadConcat ==
    ASSUME NEW S, NEW k \in Seq(S), k # <<>>, NEW g \in Seq(S)
    PROVE  k \o g # <<>> /\ Head(k \o g) = Head(k) /\ Range(g) \subseteq Range(Tail(k \o g))
  <1> DEFINE u == k \o g
             t == Tail(u)
  <1>0. u \in Seq(S) /\ Len(u) = Len(k) + Len(g)
    BY ONLY k \in Seq(S), g \in Seq(S), ConcatOf
  <1>1. \A i \in 1 .. Len(k) : u[i] = k[i]
    BY ONLY k \in Seq(S), g \in Seq(S), ConcatOf
  <1>2. \A i \in 1 .. Len(g) : u[Len(k) + i] = g[i]
    BY ONLY k \in Seq(S), g \in Seq(S), ConcatOf
  <1> HIDE DEF u
  <1>3. Len(k) \in Nat /\ Len(k) >= 1 /\ Len(g) \in Nat
    OBVIOUS
  <1>4. u # <<>> /\ Head(u) = u[1] /\ Head(k) = k[1]
    BY <1>0, <1>3
  <1>5. u[1] = k[1]
    BY <1>1, <1>3
  <1>6. t \in Seq(S) /\ Len(t) = Len(u) - 1 /\ \A i \in 1 .. Len(u) - 1 : t[i] = u[i + 1]
    BY <1>0, <1>4, TailSeq
  <1> HIDE DEF t
  <1>7. ASSUME NEW x \in Range(g) PROVE x \in Range(t)
    <2>1. PICK i \in 1 .. Len(g) : g[i] = x
      BY RangeOf
    <2> DEFINE j == Len(k) + i - 1
    <2>2. j \in 1 .. Len(t) /\ j + 1 = Len(k) + i
      BY <1>0, <1>3, <1>6
    <2>3. t[j] = x
      BY <2>1, <2>2, <1>2, <1>6
    <2> HIDE DEF j
    <2> QED
      BY <2>2, <2>3, <1>6, RangeOf
  <1> QED
    BY <1>4, <1>5, <1>7 DEF u, t

\* A child has its node not below it.
LEMMA KidApart ==
    ASSUME NEW res, NEW ch, Forested(Node, res, ch, scopes), NEW n \in Node, NEW m \in Range(ch[n])
    PROVE  /\ m \in Node /\ m # n /\ m \in Below(EdgesOf(Node, res, ch, scopes), n)
           /\ n \notin Below(EdgesOf(Node, res, ch, scopes), m)
           /\ Below(EdgesOf(Node, res, ch, scopes), m) \subseteq Below(EdgesOf(Node, res, ch, scopes), n)
  <1> DEFINE e == EdgesOf(Node, res, ch, scopes)
  <1>1. TreesAre(Node, res, ch, scopes, ListsOf(Node, res, ch), ScopesOf(Node, scopes), e)
    BY ForestedFacts
  <1> HIDE DEF e
  <1>2. e \in Edges0 /\ n \in Nat /\ m \in e[n] /\ Acyclic(e) /\ e[n] \subseteq Node
    BY <1>1 DEF TreesAre
  <1>3. m \in Below(e, n) /\ m \in Nat /\ Below(e, m) \subseteq Below(e, n)
    BY <1>2, BelowChild
  <1>4. n \notin Below(e, m)
    BY <1>2, NotBelowChild
  <1>5. m \in Below(e, m)
    BY <1>2, <1>3, BelowFacts
  <1> QED
    BY <1>2, <1>3, <1>4, <1>5 DEF e

\* What is below a node below n is below n.
LEMMA BelowBelow ==
    ASSUME NEW res, NEW ch, Forested(Node, res, ch, scopes), NEW n \in Node,
           NEW m \in Below(EdgesOf(Node, res, ch, scopes), n)
    PROVE  Below(EdgesOf(Node, res, ch, scopes), m) \subseteq Below(EdgesOf(Node, res, ch, scopes), n)
  <1> DEFINE e == EdgesOf(Node, res, ch, scopes)
  <1>1. TreesAre(Node, res, ch, scopes, ListsOf(Node, res, ch), ScopesOf(Node, scopes), e)
    BY ForestedFacts
  <1> HIDE DEF e
  <1>2. e \in Edges0 /\ n \in Nat
    BY <1>1 DEF TreesAre
  <1>3. DownClosed(e, Below(e, n)) /\ Below(e, n) \in SUBSET Nat /\ m \in Below(e, n)
    BY <1>2, BelowFacts DEF e
  <1>4. Below(e, m) \subseteq Below(e, n)
    BY SMTT(60), <1>2, <1>3, BelowLeast
  <1> QED
    BY <1>4 DEF e

\* A closing paren keeps the forest: a paren without children becomes the first node it
\* has gathered, that of a call or a declaration what stood before it.
LEMMA CloseParenStep ==
    ASSUME Typed, TreesInv, Placing, CloseParen
    PROVE  /\ Forested(Node, result', kids', scopes) /\ IndexOk'
           /\ (UNCHANGED <<kind, token, unary>> \/ \E on, f \in Node :
                  /\ kind' = [kind EXCEPT ![on] = kind[f]] /\ token' = [token EXCEPT ![on] = token[f]]
                  /\ unary' = IF f \in unary THEN unary \cup {on} ELSE unary)
           /\ \E on \in Node : parened' = parened \cup {on}
  <1> DEFINE i == OpenedAt("lparen")
             on == OnEdge("lparen")[result[i]]
             G == Gathered(i)
             v == Remaining(i)
             inner == IF kids[on] = <<>> THEN G ELSE kids[on]
             f == Head(inner)
             ch == IF inner = <<>> THEN kids
                   ELSE [kids EXCEPT ![on] = kids[f], ![f] = <<>>]
             last == Last(ch[on])
  <1>1. /\ Closed("rparen")
        /\ kids' = CASE kids[on] = <<>>  -> [ch EXCEPT ![on] = @ \o (IF inner = <<>> THEN <<>> ELSE Tail(inner))]
                     [] kids[on] # <<>> /\ ch[on] = <<>> -> [ch EXCEPT ![on] = G]
                     [] OTHER -> [ch EXCEPT ![last] = @ \o G]
        /\ IF inner = <<>>
           THEN UNCHANGED <<kind, token, unary>> /\ parened' = parened \cup {on}
           ELSE /\ kind' = [kind EXCEPT ![on] = kind[f]]
                /\ token' = [token EXCEPT ![on] = token[f]]
                /\ unary' = IF f \in unary THEN unary \cup {on} ELSE unary
                /\ parened' = parened \cup {on}
        /\ Advance(v, i)
    BY ZenonT(60) DEF CloseParen
  <1>2. FoundAt("lparen", i, on)
    <2>1. "rparen" \in DOMAIN Closes /\ Closes["rparen"] = "lparen"
      BY DEF Closes
    <2> QED
      BY Zenon, <1>1, <2>1, FoundFacts
  <1> HIDE DEF i, on
  <1>i. i \in Nat /\ on \in Node /\ 1 <= i /\ on \in Below(EdgesOf(Node, result, kids, scopes), result[i])
    BY <1>2 DEF FoundAt
  <1>k. kids \in [Node -> Seq(Node)] /\ Forested(Node, result, kids, scopes)
    BY SMTT(60) DEF TreesInv, Forested
  <1>n. Node' = Node
    BY Zenon, <1>1 DEF Node
  <1> DEFINE c0 == [kids EXCEPT ![on] = kids[on] \o G]
  <1>3. GatherGives(Node, result, kids, scopes, on, i, G, v, c0)
    <2>1. GatherIs(kids, on, G, c0)
      BY SMTT(60) DEF GatherIs
    <2> HIDE DEF c0
    <2> QED
      BY <1>2, <1>i, <2>1, GatherFound
  <1>4. IndexOk' /\ result' = v
    <2>1. v \in Seq(Node) /\ Advance(v, i)
      BY Zenon, <1>1, <1>3 DEF GatherGives
    <2> QED
      BY SMTT(60), <2>1, <1>i, <1>n, AdvanceStep
  <1> HIDE DEF G, v
  <1>5. /\ Forested(Node, v, c0, scopes) /\ G \in Seq(Node) /\ Distinct(G)
        /\ c0[on] = kids[on] \o G /\ (\A n \in Node \ {on} : c0[n] = kids[n])
        /\ Range(c0[on]) = Range(kids[on]) \cup Range(G)
    BY <1>3 DEF GatherGives
  <1>6. CASE kids[on] = <<>> /\ G = <<>>
    <2>1. kids' = c0
      <3>1. inner = <<>> /\ ch = kids
        BY <1>6
      <3>2. kids' = [kids EXCEPT ![on] = kids[on] \o <<>>]
        BY <1>1, <1>6, <3>1
      <3> QED
        BY <3>2, <1>6
    <2>2. UNCHANGED <<kind, token, unary>> /\ parened' = parened \cup {on}
      BY <1>1, <1>6
    <2> QED
      BY <1>4, <1>5, <1>i, <2>1, <2>2
  <1>7. CASE kids[on] = <<>> /\ G # <<>>
    <2>1. inner = G /\ inner # <<>> /\ c0[on] = G /\ c0[on] # <<>>
      <3>1. <<>> \o G = G
        BY SMTT(60), <1>5
      <3> HIDE DEF c0
      <3> QED
        BY <1>5, <1>7, <3>1
    <2>2. /\ kind' = [kind EXCEPT ![on] = kind[f]] /\ token' = [token EXCEPT ![on] = token[f]]
          /\ unary' = IF f \in unary THEN unary \cup {on} ELSE unary
          /\ parened' = parened \cup {on}
      BY Zenon, <1>1, <2>1
    <2>3. ch = [kids EXCEPT ![on] = kids[f], ![f] = <<>>] /\ f = Head(c0[on])
      BY <2>1
    <2>4. kids' = [ch EXCEPT ![on] = ch[on] \o Tail(G)]
      BY <1>1, <2>1, <1>7
    <2> DEFINE c1 == [c0 EXCEPT ![on] = c0[f] \o Tail(c0[on]), ![f] = <<>>]
    <2>5. RootUnwrapOf(Node, v, c0, scopes, on, f)
      <3> HIDE DEF c0
      <3> QED
        BY <1>5, <1>i, <2>1, <2>3 DEF RootUnwrapOf
    <2> HIDE DEF f, ch, inner
    <2>6. Forested(Node, v, c1, scopes) /\ f \in Node /\ f # on
      <3> HIDE DEF c0
      <3> QED
        BY <2>5, RootUnwrap
    <2>7. kids' = c1
      <3>1. ch[on] = kids[f]
        BY ZenonT(60), <1>i, <1>k, <2>3, <2>6
      <3>2. c0[f] = kids[f] /\ Tail(c0[on]) = Tail(G)
        <4> HIDE DEF c0
        <4> QED
          BY <1>5, <2>1, <2>6
      <3>3. kids' = [kids EXCEPT ![on] = kids[f] \o Tail(G), ![f] = <<>>]
        BY ZenonT(60), <1>i, <1>k, <2>3, <2>4, <2>6, <3>1
      <3> DEFINE x == kids[f] \o Tail(G)
                 y == kids[on] \o G
      <3>4. kids' = [kids EXCEPT ![on] = x, ![f] = <<>>]
            /\ c1 = [c0 EXCEPT ![on] = x, ![f] = <<>>] /\ c0 = [kids EXCEPT ![on] = y]
        <4>1. c0[f] \o Tail(c0[on]) = x
          <5> HIDE DEF c0
          <5> QED
            BY ZenonT(60), <3>2
        <4> QED
          BY <3>3, <4>1
      <3> HIDE DEF x, y, c0, c1
      <3> QED
        BY <3>4, <1>i, <1>k, <2>6
    <2> QED
      BY <1>4, <1>i, <2>2, <2>6, <2>7
  <1>8. CASE kids[on] # <<>>
    <2>1. inner = kids[on] /\ inner # <<>> /\ f = Head(kids[on]) /\ kids[on] \in Seq(Node)
      BY <1>8, <1>k, <1>i
    <2>2. /\ kind' = [kind EXCEPT ![on] = kind[f]] /\ token' = [token EXCEPT ![on] = token[f]]
          /\ unary' = IF f \in unary THEN unary \cup {on} ELSE unary
          /\ parened' = parened \cup {on}
      BY Zenon, <1>1, <2>1
    <2>3. ch = [kids EXCEPT ![on] = kids[f], ![f] = <<>>]
      BY <2>1
    <2>4. f \in Range(kids[on])
      BY <2>1, TailSeq, <1>8
    <2>c. /\ ch[on] = <<>> => kids' = [ch EXCEPT ![on] = G]
          /\ ch[on] # <<>> => kids' = [ch EXCEPT ![last] = ch[last] \o G]
      <3> HIDE DEF ch, last
      <3> QED
        BY <1>1, <1>8
    <2> DEFINE E == EdgesOf(Node, result, kids, scopes)
    <2> HIDE DEF f, ch, inner, c0
    <2>5. /\ f \in Node /\ f # on /\ f \in Below(E, on) /\ on \notin Below(E, f)
          /\ Below(E, f) \subseteq Below(E, on)
      BY <1>k, <1>i, <2>4, KidApart
    <2>6. ch[on] = kids[f]
      BY <1>k, <1>i, <2>3, <2>5
    <2>7. CASE kids[f] = <<>>
      <3> DEFINE K == kids[on]
                 c1 == [c0 EXCEPT ![on] = G, ![f] = <<>>]
      <3>1. K \in Seq(Node) /\ K # <<>> /\ f = Head(K) /\ c0[on] = K \o G
        BY <2>1, <1>8, <1>5 DEF f
      <3>2. c0[on] # <<>> /\ Head(c0[on]) = f /\ Range(G) \subseteq Range(Tail(c0[on]))
        <4> HIDE DEF K
        <4> QED
          BY ZenonT(60), <3>1, <1>5, HeadConcat
      <3>3. RootUnwrapOnlyOf(Node, v, c0, scopes, on, f, G)
        BY <1>5, <1>i, <3>2 DEF RootUnwrapOnlyOf
      <3>4. Forested(Node, v, c1, scopes)
        BY <3>3, RootUnwrapOnly
      <3>5. kids' = c1
        <4>1. kids' = [ch EXCEPT ![on] = G]
          BY <2>c, <2>6, <2>7
        <4> DEFINE x == kids[f]
                   y == kids[on] \o G
        <4>2. ch = [kids EXCEPT ![on] = x, ![f] = <<>>] /\ c0 = [kids EXCEPT ![on] = y]
          BY <2>3 DEF c0
        <4> HIDE DEF x, y
        <4> QED
          BY <4>1, <4>2, <1>i, <1>k, <2>5
      <3> QED
        BY <1>4, <1>i, <2>2, <2>5, <3>4, <3>5
    <2>8. CASE kids[f] # <<>>
      <3> DEFINE l == Last(kids[f])
                 c3 == [kids EXCEPT ![l] = kids[l] \o G]
                 w == kids[f]
                 c1 == [c3 EXCEPT ![on] = w, ![f] = <<>>]
      <3>1. l \in Range(kids[f]) /\ w \in Seq(Node)
        <4>1. kids[f] \in Seq(Node)
          BY <1>k, <2>5
        <4> QED
          BY <4>1, <2>8, FrontOf
      <3> HIDE DEF l
      <3>2. /\ l \in Node /\ l # f /\ l \in Below(E, f) /\ f \notin Below(E, l)
        BY <1>k, <2>5, <3>1, KidApart
      <3>3. l # on /\ l \in Below(E, on)
        BY <3>2, <2>5
      <3>4. l \in Below(E, result[i])
        <4>1. result[i] \in Node
          <5>1. result \in Seq(Node) /\ i \in 1 .. Len(result)
            BY <1>2 DEF FoundAt, TreesInv, Forested
          <5> QED
            BY <5>1
        <4> HIDE DEF E
        <4>2. Below(E, on) \subseteq Below(E, result[i])
          BY <4>1, <1>i, <1>k, BelowBelow DEF E
        <4> QED
          BY <4>2, <3>3
      <3>5. GatherGives(Node, result, kids, scopes, l, i, G, v, c3)
        <4>1. GatherIs(kids, l, G, c3)
          BY DEF GatherIs
        <4> HIDE DEF c3
        <4> QED
          BY <1>2, <3>4, <4>1, GatherFound DEF G, v
      <3>6. /\ Forested(Node, v, c3, scopes) /\ \A n \in Node \ {l} : c3[n] = kids[n]
        BY <3>5 DEF GatherGives
      <3>7. c3[on] = kids[on] /\ c3[f] = w
        BY <3>2, <3>3, <3>6, <1>i, <2>5
      <3>d. Distinct(w) /\ Range(w) \subseteq Range(w)
        <4>1. TreesAre(Node, result, kids, scopes, Lists, Scps, Edges)
          BY ForestedFacts DEF TreesInv, Lists, Scps, Edges, EdgesOf
        <4> QED
          BY <4>1, <2>5 DEF TreesAre
      <3>8. RootUnwrapOnlyOf(Node, v, c3, scopes, on, f, w)
        <4> HIDE DEF c3, w
        <4>1. c3[on] # <<>> /\ f = Head(c3[on])
          BY <3>7, <2>1, <1>8 DEF f
        <4> QED
          BY <4>1, <3>1, <3>6, <3>7, <3>d, <1>i DEF RootUnwrapOnlyOf
      <3>9. Forested(Node, v, c1, scopes)
        <4> HIDE DEF c3, w
        <4> QED
          BY <3>8, RootUnwrapOnly
      <3>10. kids' = c1
        <4>1. kids' = [ch EXCEPT ![last] = ch[last] \o G]
          BY <2>c, <2>6, <2>8
        <4>2. last = l
          BY <2>6 DEF l
        <4>3. ch[l] = kids[l]
          BY <2>3, <1>i, <1>k, <2>5, <3>2, <3>3
        <4> DEFINE y == kids[l] \o G
        <4>4. kids' = [ch EXCEPT ![l] = y] /\ ch = [kids EXCEPT ![on] = w, ![f] = <<>>]
              /\ c3 = [kids EXCEPT ![l] = y]
          BY <4>1, <4>2, <4>3, <2>3
        <4> HIDE DEF y, w, c3, ch, last
        <4> QED
          BY <4>4, <1>i, <1>k, <2>5, <3>2, <3>3
      <3> QED
        BY <1>4, <1>i, <2>2, <2>5, <3>9, <3>10
    <2> QED
      BY <2>7, <2>8
  <1> QED
    BY SMTT(60), <1>6, <1>7, <1>8

\* The kinds after a handler of stage a.
Renamed == kind' \in [Node -> {k \in Kinds : k # "scope"}]

\* Kinds that do not change stay those of stage a.
LEMMA RenamedStays ==
    ASSUME Typed, Flat, kind' = kind
    PROVE  Renamed
  BY DEF Typed, Flat, Renamed, Node

\* Every handler of stage a keeps the types, the forest and the index, and makes no
\* scope.
LEMMA AssembleStep ==
    ASSUME Typed, TreesInv, Placing, Flat, Next, inScope' = inScope
    PROVE  Typed' /\ TreesInv' /\ IndexOk' /\ Flat'
  <1> DEFINE Steps ==
                /\ Forested(Node, result', kids', scopes) /\ IndexOk' /\ Renamed
                /\ unary' \subseteq Token /\ parened' \subseteq Token
                /\ token' \in [Node -> {0} \cup Token] /\ program' = program /\ scopes' = scopes
  <1>0. /\ Token = Node /\ unary \subseteq Token /\ parened \subseteq Token
        /\ token \in [Node -> {0} \cup Token] /\ kind \in [Node -> {k \in Kinds : k # "scope"}]
        /\ kind \in Seq(Kinds)
    BY DEF Typed, Flat, Node
  <1>1. ASSUME TakeLeft PROVE Steps
    BY <1>0, <1>1, TakeLeftStep, RenamedStays DEF TakeLeft
  <1>2. ASSUME InsertIntoLeft PROVE Steps
    BY <1>0, <1>2, InsertIntoLeftStep, RenamedStays DEF InsertIntoLeft
  <1>3. ASSUME MakeUnary PROVE Steps
    <2>1. Current \in Node
      BY <1>3, AtIndex DEF MakeUnary
    <2>2. unary' \subseteq Token
      BY <1>0, <1>3, <2>1 DEF MakeUnary
    <2> QED
      BY <1>0, <1>3, <2>2, MakeUnaryStep, RenamedStays DEF MakeUnary
  <1>4. ASSUME Juxtapose PROVE Steps
    BY SMTT(60), <1>0, <1>4, JuxtaposeStep, RenamedStays DEF Juxtapose
  <1>5. ASSUME Skip PROVE Steps
    BY SMTT(60), <1>0, <1>5, SkipStep, RenamedStays DEF Skip, trees
  <1>6. ASSUME MakeLambda PROVE Steps
    <2>1. /\ Forested(Node, result', kids', scopes) /\ IndexOk'
          /\ \E on, h \in Node : kind' = [kind EXCEPT ![on] = "arguments", ![h] = "lambda"]
      BY <1>6, MakeLambdaStep
    <2>2. Renamed
      <3>1. {"arguments", "lambda"} \subseteq {k \in Kinds : k # "scope"}
        BY SMTT(60) DEF Kinds
      <3> QED
        BY SMTT(60), <2>1, <3>1, <1>0 DEF Renamed
    <2> QED
      BY Zenon, <1>0, <1>6, <2>1, <2>2 DEF MakeLambda
  <1>7. ASSUME CloseParen PROVE Steps
    <2>1. /\ Forested(Node, result', kids', scopes) /\ IndexOk'
          /\ (UNCHANGED <<kind, token, unary>> \/ \E on, f \in Node :
                 /\ kind' = [kind EXCEPT ![on] = kind[f]] /\ token' = [token EXCEPT ![on] = token[f]]
                 /\ unary' = IF f \in unary THEN unary \cup {on} ELSE unary)
          /\ \E on \in Node : parened' = parened \cup {on}
      BY <1>7, CloseParenStep
    <2>2. Renamed /\ token' \in [Node -> {0} \cup Token] /\ unary' \subseteq Token
      BY SMTT(60), <2>1, <1>0 DEF Renamed
    <2>3. parened' \subseteq Token
      BY <2>1, <1>0
    <2> QED
      BY Zenon, <1>0, <1>7, <2>1, <2>2, <2>3 DEF CloseParen
  <1>8. ASSUME CloseBracket PROVE Steps
    <2>1. Forested(Node, result', kids', scopes) /\ IndexOk'
      BY <1>8, CloseBracketStep
    <2>2. "group" \in {k \in Kinds : k # "scope"}
      BY PowersAssumption DEF Kinds
    <2>3. Renamed
      BY Zenon, <1>0, <1>8, <2>2 DEF CloseBracket, Renamed
    <2> QED
      BY <1>0, <1>8, <2>1, <2>3 DEF CloseBracket
  <1>9. ASSUME UnmatchedClosing PROVE Steps
    BY <1>0, <1>9, UnmatchedClosingStep, RenamedStays DEF UnmatchedClosing, trees
  <1>10. Steps
    BY <1>1, <1>2, <1>3, <1>4, <1>5, <1>6, <1>7, <1>8, <1>9 DEF Next
  <1>11. Node' = Node /\ kind' \in Seq(Kinds) /\ Token' = Token
    <2>1. kind' \in [Node -> Kinds] /\ DOMAIN kind' = Node
      BY <1>10 DEF Renamed
    <2>2. Node = 1 .. Len(kind) /\ Len(kind) \in Nat
      BY <1>0 DEF Node
    <2>3. kind' \in Seq(Kinds)
      BY <2>1, <2>2
    <2> QED
      BY <2>1, <2>3, <1>10 DEF Node, Token
  <1>12. TreesInv'
    BY <1>10, <1>11 DEF TreesInv
  <1>13. Typed'
    <2>1. index' \in Nat /\ left' \in {0} \cup Node
      BY <1>10, <1>11 DEF IndexOk
    <2>2. inScope' \in [Node -> {Root} \cup Node] /\ program' \in Seq(TokenKind)
      BY <1>10 DEF Typed
    <2> QED
      BY <1>0, <1>10, <1>11, <2>1, <2>2 DEF Typed
  <1>14. Flat'
    <2>1. \A n \in Node : kind'[n] # "scope"
      BY <1>10 DEF Renamed
    <2> QED
      BY <1>10, <1>11, <2>1 DEF Flat
  <1> QED
    BY <1>10, <1>12, <1>13, <1>14

-----------------------------------------------------------------------------
(* The walks of stages s and t. *)

\* What is known of the lists of a state.
ForestOf ==
    /\ Node \in SUBSET (Nat \ {0}) /\ Node \subseteq Nat /\ 0 \notin Node
    /\ result \in Seq(Node) /\ kids \in [Node -> Seq(Node)] /\ scopes \in [{0} \cup Node -> Seq(Node)]
    /\ Trees(Node, Lists, Scps) /\ Edges \in Edges0 /\ Forest(Edges) /\ Acyclic(Edges) /\ OneParent(Edges)
    /\ Lists[0] = result /\ (\A n \in Node : Lists[n] = kids[n]) /\ (\A n \in {0} \cup Node : Scps[n] = scopes[n])
    /\ (\A n \in {0} \cup Node : Edges[n] = Range(Lists[n]) \cup Range(Scps[n]) /\ Edges[n] \subseteq Node
                                 /\ Lists[n] \in Seq(Node) /\ Scps[n] \in Seq(Node)
                                 /\ Distinct(Lists[n]) /\ Distinct(Scps[n])
                                 /\ Range(Lists[n]) \cap Range(Scps[n]) = {} /\ Lists[n] = ListOf(n))
    /\ (\A n \in Node : Below(Edges, n) \subseteq Node)

\* What is known of the lists of a state that is a forest.
LEMMA ForestHas ==
    ASSUME TreesInv
    PROVE  ForestOf
  <1>1. TreesAre(Node, result, kids, scopes, Lists, Scps, Edges)
    BY ForestedFacts DEF TreesInv, Lists, Scps, Edges, EdgesOf
  <1>2. /\ Node \in SUBSET (Nat \ {0}) /\ Node \subseteq Nat /\ 0 \notin Node
        /\ result \in Seq(Node) /\ kids \in [Node -> Seq(Node)] /\ scopes \in [{0} \cup Node -> Seq(Node)]
        /\ Trees(Node, Lists, Scps)
        /\ Lists[0] = result /\ (\A n \in Node : Lists[n] = kids[n]) /\ (\A n \in {0} \cup Node : Scps[n] = scopes[n])
        /\ Forest(Edges) /\ Edges \in Edges0 /\ Acyclic(Edges) /\ OneParent(Edges)
        /\ (\A n \in Node : Below(Edges, n) \subseteq Node)
    BY <1>1 DEF TreesAre
  <1>3. ASSUME NEW n \in {0} \cup Node
        PROVE  /\ Edges[n] = Range(Lists[n]) \cup Range(Scps[n]) /\ Edges[n] \subseteq Node
               /\ Lists[n] \in Seq(Node) /\ Scps[n] \in Seq(Node)
               /\ Distinct(Lists[n]) /\ Distinct(Scps[n])
               /\ Range(Lists[n]) \cap Range(Scps[n]) = {} /\ Lists[n] = ListOf(n)
    <2>1. n \in Nat
      BY <1>2
    <2>2. Lists[n] = ListOf(n)
      BY <1>2 DEF ListOf, Root
    <2>3. Lists[n] \in Seq(Node) /\ Scps[n] \in Seq(Node)
      BY <2>1, <1>2, TreesFacts
    <2>4. Distinct(Lists[n]) /\ Distinct(Scps[n]) /\ Range(Lists[n]) \cap Range(Scps[n]) = {}
      BY <2>1, <1>2 DEF Trees
    <2>5. Joint(Lists, Scps)[n] = Range(Lists[n]) \cup Range(Scps[n]) /\ Joint(Lists, Scps)[n] \subseteq Node
      BY <2>1, <1>2, TreesFacts
    <2> QED
      BY <2>2, <2>3, <2>4, <2>5 DEF Edges
  <1> QED
    BY <1>2, <1>3 DEF ForestOf

\* Below a node, without the node.
Strictly(n) == Below(Edges, n) \ {n}

\* A node is above all that is below it, so that a walk may go down any number of levels
\* in one step.
LEMMA StrictFounded ==
    ASSUME TreesInv
    PROVE  /\ [n \in Node |-> Strictly(n)] \in [Node -> SUBSET Node]
           /\ WellFounded(Node, [n \in Node |-> Strictly(n)])
           /\ \A n \in Node : Edges[n] \subseteq Strictly(n)
           /\ \A n \in Node : \A c \in Edges[n] : Below(Edges, c) \subseteq Strictly(n)
  <1> DEFINE N == Node
             e == Edges
             s == [n \in N |-> Strictly(n)]
  <1>1. N \subseteq Nat /\ e \in Edges0 /\ Acyclic(e) /\ (\A n \in N : Below(e, n) \subseteq N)
    BY ForestHas DEF ForestOf
  <1>2. s \in [N -> SUBSET N]
    BY <1>1 DEF Strictly
  <1>3. \A n \in N : s[n] = Below(e, n) \ {n}
    BY DEF Strictly
  <1> HIDE DEF N, e, s
  <1>4. ASSUME NEW X \in SUBSET N, X # {} PROVE \E x \in X : s[x] \cap X = {}
    <2> DEFINE Y == {y \in N : Below(e, y) \cap X # {}}
    <2>1. Y \in SUBSET Nat /\ Y # {}
      <3>1. PICK x \in X : TRUE
        BY <1>4
      <3>2. x \in N /\ x \in Below(e, x)
        BY <1>1, BelowFacts
      <3> QED
        BY <3>2, <1>1
    <2>2. PICK y \in Y : e[y] \cap Y = {}
      BY <2>1, <1>1 DEF Acyclic
    <2>3. y \in N /\ y \in Nat
      BY <1>1
    <2>4. ASSUME NEW m \in Below(e, y), m # y, m \in X PROVE FALSE
      <3>1. PICK c \in e[y] : m \in Below(e, c)
        BY <1>1, <2>3, <2>4, BelowSplit
      <3>2. c \in Below(e, y)
        BY <1>1, <2>3, BelowChild
      <3>3. c \in Y
        BY <1>1, <2>3, <2>4, <3>1, <3>2
      <3> QED
        BY <2>2, <3>3
    <2>5. y \in X /\ s[y] \cap X = {}
      BY <2>3, <2>4, <1>3
    <2> QED
      BY <2>5
  <1>5. ASSUME NEW n \in N, NEW c \in e[n] PROVE c \in s[n] /\ Below(e, c) \subseteq s[n]
    <2>1. n \in Nat
      BY <1>1
    <2>2. c \in Below(e, n) /\ Below(e, c) \subseteq Below(e, n) /\ c \in Nat
      BY <1>1, <2>1, BelowChild
    <2>3. n \notin Below(e, c) /\ c \in Below(e, c)
      BY <1>1, <2>1, <2>2, NotBelowChild, BelowFacts
    <2> QED
      BY <2>2, <2>3, <1>3
  <1> QED
    BY <1>2, <1>4, <1>5 DEF WellFounded, N, e, s, Strictly

Kid == [n \in Nat |-> Range(Lists[n])]

\* The trees of children alone are a forest too.
LEMMA KidFacts ==
    ASSUME TreesInv
    PROVE  /\ Kid \in Edges0 /\ Forest(Kid) /\ Acyclic(Kid) /\ OneParent(Kid)
           /\ \A n \in {0} \cup Node : Kid[n] = Range(Lists[n]) /\ Kid[n] \subseteq Edges[n] /\ Kid[n] \subseteq Node
           /\ \A n \in Node : Below(Kid, n) \subseteq Node /\ n \in Below(Kid, n)
  <1>1. ForestOf
    BY ForestHas
  <1>2. Trees(Node, Lists, Scps) /\ Forest(Edges) /\ Node \subseteq Nat
    BY <1>1 DEF ForestOf
  <1>3. \A n \in Nat : Kid[n] = Range(Lists[n]) /\ Kid[n] \subseteq Edges[n] /\ Edges[n] \subseteq Node
    BY <1>2, TreesFacts DEF Kid, Edges
  <1>4. Kid \in Edges0
    BY <1>2, <1>3 DEF Kid, Edges0
  <1>5. Forest(Kid)
    BY <1>2, <1>3, <1>4, Fewer
  <1>6. DownClosed(Kid, Node)
    BY <1>2, <1>3 DEF DownClosed
  <1>7. \A n \in Node : Below(Kid, n) \subseteq Node /\ n \in Below(Kid, n)
    BY <1>2, <1>4, <1>6, BelowLeast, BelowFacts
  <1> QED
    BY <1>2, <1>3, <1>4, <1>5, <1>7 DEF Forest

\* The nodes place_node_in_scope reaches are those below the node along children.
LEMMA TreeIs ==
    ASSUME TreesInv, NEW r \in Node
    PROVE  Tree(r) = Below(Kid, r)
  <1> DEFINE N == Node
             V == SUBSET N
             F == [N -> V]
             s == [n \in N |-> Strictly(n)]
             Step == [x \in F \X N |-> {x[2]} \cup UNION {x[1][k] : k \in Range(kids[x[2]])}]
             Is(f) == f = [n \in N |-> {n} \cup UNION {f[k] : k \in Range(kids[n])}]
             t == CHOOSE f : Is(f)
  <1>1. /\ s \in [N -> SUBSET N] /\ WellFounded(N, s) /\ \A n \in N : Edges[n] \subseteq s[n]
    BY StrictFounded
  <1>2. /\ N \subseteq Nat /\ Trees(N, Lists, Scps)
        /\ \A n \in N : Range(kids[n]) \subseteq N /\ Range(kids[n]) \subseteq Edges[n] /\ Kid[n] = Range(kids[n])
        /\ Kid \in Edges0 /\ OneParent(Kid)
    BY Zenon, ForestHas, KidFacts DEF ForestOf
  <1> HIDE DEF N, s
  <1>3. Step \in [F \X N -> V]
    <2> SUFFICES ASSUME NEW x \in F \X N PROVE Step[x] \in V
      OBVIOUS
    <2>1. x[1] \in [N -> V] /\ x[2] \in N
      OBVIOUS
    <2>2. \A k \in Range(kids[x[2]]) : x[1][k] \subseteq N
      BY <2>1, <1>2
    <2>3. Step[x] = {x[2]} \cup UNION {x[1][k] : k \in Range(kids[x[2]])}
      OBVIOUS
    <2> HIDE DEF Step
    <2> QED
      BY <2>1, <2>2, <2>3
  <1>4. ASSUME NEW f \in F, NEW n \in N
        PROVE  Step[<<f, n>>] = {n} \cup UNION {f[k] : k \in Range(kids[n])}
    OBVIOUS
  <1> HIDE DEF Step
  <1>5. ASSUME NEW f \in F, NEW g \in F, NEW n \in N, \A m \in s[n] : f[m] = g[m]
        PROVE  Step[<<f, n>>] = Step[<<g, n>>]
    <2>1. \A k \in Range(kids[n]) : f[k] = g[k]
      BY <1>1, <1>2, <1>5
    <2>2. {f[k] : k \in Range(kids[n])} = {g[k] : k \in Range(kids[n])}
      BY <2>1
    <2> QED
      BY ZenonT(60), <2>2, <1>4
  <1>6. \E f \in F : \A n \in N : f[n] = Step[<<f, n>>]
    <2>1. {} \in V
      OBVIOUS
    <2>2. StepOf(N, s, V, {}, Step)
      BY <1>1, <1>3, <1>5, <2>1 DEF StepOf
    <2> QED
      BY <2>2, Recursion
  <1>7. \E f : Is(f)
    <2>1. PICK f \in F : \A n \in N : f[n] = Step[<<f, n>>]
      BY <1>6
    <2>2. \A n \in N : f[n] = {n} \cup UNION {f[k] : k \in Range(kids[n])}
      BY <2>1, <1>4
    <2>3. Is(f)
      BY <2>2
    <2> QED
      BY <2>3
  <1>8. Tree(r) = t[r]
    BY DEF Tree, N
  <1>9. Is(t)
    BY <1>7
  <1>10. \A n \in N : t[n] = {n} \cup UNION {t[k] : k \in Range(kids[n])}
    BY <1>9
  <1> HIDE DEF t, F, V
  <1> DEFINE S == {n \in N : t[n] = Below(Kid, n)}
  <1>11. ASSUME NEW n \in N, Edges[n] \subseteq S PROVE n \in S
    <2>1. n \in Nat
      BY <1>2
    <2>2. \A k \in Range(kids[n]) : t[k] = Below(Kid, k)
      BY <1>2, <1>11
    <2>3. t[n] = {n} \cup UNION {Below(Kid, k) : k \in Range(kids[n])}
      BY <1>10, <2>2
    <2>4. ASSUME NEW m \in Below(Kid, n), m # n PROVE \E k \in Range(kids[n]) : m \in Below(Kid, k)
      BY <1>2, <2>1, <2>4, BelowSplit
    <2>5. ASSUME NEW k \in Range(kids[n]) PROVE Below(Kid, k) \subseteq Below(Kid, n)
      BY <1>2, <2>1, <2>5, BelowChild
    <2>6. n \in Below(Kid, n)
      BY <1>2, <2>1, BelowFacts
    <2>7. t[n] = Below(Kid, n)
      BY <2>3, <2>4, <2>5, <2>6
    <2> QED
      BY <2>7
  <1> HIDE DEF S
  <1>12. N \subseteq S
    <2>1. Inductive(N, Joint(Lists, Scps), S)
      BY <1>11 DEF Inductive, Edges
    <2> QED
      BY <2>1, <1>2, TreeInduction
  <1>13. r \in S
    BY <1>12 DEF N
  <1> QED
    BY <1>8, <1>13 DEF S

\* What is true of a node when it is true of all that is below it is true of all nodes.
LEMMA StrictInduction ==
    ASSUME TreesInv, NEW S, \A n \in Node : Strictly(n) \subseteq S => n \in S
    PROVE  Node \subseteq S
  <1> DEFINE N == Node
             s == [n \in N |-> Strictly(n)]
             X == N \ S
  <1>1. WellFounded(N, s) /\ \A n \in N : s[n] = Strictly(n) /\ s[n] \subseteq N
    BY StrictFounded
  <1> HIDE DEF s
  <1>2. SUFFICES ASSUME X # {} PROVE FALSE
    OBVIOUS
  <1>3. PICK x \in X : s[x] \cap X = {}
    BY <1>1, <1>2 DEF WellFounded
  <1>4. Strictly(x) \subseteq S
    BY <1>1, <1>3
  <1> QED
    BY <1>4

\* The search for an opening brace, through the i-th scope of where the i-th way down has
\* ended, ends below where it began.
LEMMA OpeningFacts ==
    ASSUME Typed, TreesInv, NEW r \in Node
    PROVE  /\ Opening(r) \in Node /\ Opening(r) \in Below(Edges, r)
           /\ \/ Opening(r) = OnEdge("lbrace")[r]
              \/ \E m \in Node : \E w \in Range(scopes[m]) : Opening(r) = OnEdge("lbrace")[w]
  <1> DEFINE N == Node
             I == Nat \ {0}
             NI == N \X I
             F == [NI -> N]
             d == OnEdge("lbrace")
             s == [n \in N |-> Strictly(n)]
             s2 == [x \in NI |-> s[x[1]] \X I]
             Step == [x \in F \X NI |->
                        IF kind[x[2][1]] = "lbrace" \/ x[2][2] > Len(scopes[x[2][1]]) THEN x[2][1]
                        ELSE x[1][<<d[scopes[x[2][1]][x[2][2]]], x[2][2] + 1>>]]
             Is(f) == f = [x \in NI |->
                            IF kind[x[1]] = "lbrace" \/ x[2] > Len(scopes[x[1]]) THEN x[1]
                            ELSE f[<<d[scopes[x[1]][x[2]]], x[2] + 1>>]]
             t == CHOOSE f : Is(f)
  <1>1. /\ s \in [N -> SUBSET N] /\ WellFounded(N, s) /\ \A n \in N : Edges[n] \subseteq s[n] /\ s[n] = Strictly(n)
        /\ \A n \in N : \A c \in Edges[n] : Below(Edges, c) \subseteq s[n]
    BY StrictFounded
  <1>2. /\ N \subseteq Nat
        /\ \A n \in N : scopes[n] \in Seq(N) /\ Range(scopes[n]) \subseteq Edges[n] /\ Edges[n] \subseteq N
                        /\ Below(Edges, n) \subseteq N /\ n \in Below(Edges, n)
    <2>1. ForestOf
      BY ForestHas
    <2> QED
      BY <2>1, BelowFacts DEF ForestOf
  <1>d. d \in [N -> N] /\ \A n \in N : d[n] \in Below(Edges, n)
    BY EdgeDown, EdgeFacts
  <1>r. r \in N
    OBVIOUS
  <1>e. Opening(r) = t[<<d[r], 1>>]
    BY DEF Opening
  <1> HIDE DEF N, s, d
  <1>3. ASSUME NEW m \in N, NEW i \in I, ~(kind[m] = "lbrace" \/ i > Len(scopes[m]))
        PROVE  d[scopes[m][i]] \in s[m] /\ d[scopes[m][i]] \in N
    <2>1. scopes[m] \in Seq(N) /\ i \in 1 .. Len(scopes[m])
      BY <1>2, <1>3
    <2>2. scopes[m][i] \in Edges[m]
      BY <2>1, <1>2, RangeOf
    <2> QED
      BY ZenonT(60), <2>2, <1>1, <1>2, <1>d
  <1>4. ASSUME NEW f \in F, NEW m \in N, NEW i \in I
        PROVE  Step[<<f, <<m, i>>>>] = IF kind[m] = "lbrace" \/ i > Len(scopes[m]) THEN m
                                       ELSE f[<<d[scopes[m][i]], i + 1>>]
    BY ZenonT(60)
  <1>5. Step \in [F \X NI -> N]
    <2> SUFFICES ASSUME NEW x \in F \X NI PROVE Step[x] \in N
      BY Zenon
    <2>1. PICK f \in F, m \in N, i \in I : x = <<f, <<m, i>>>>
      OBVIOUS
    <2> HIDE DEF Step
    <2>2. i + 1 \in I
      OBVIOUS
    <2>3. CASE kind[m] = "lbrace" \/ i > Len(scopes[m])
      BY <2>1, <2>3, <1>4
    <2>4. CASE ~(kind[m] = "lbrace" \/ i > Len(scopes[m]))
      <3>1. <<d[scopes[m][i]], i + 1>> \in NI
        BY <2>2, <2>4, <1>3
      <3>2. f[<<d[scopes[m][i]], i + 1>>] \in N
        BY <3>1
      <3>3. Step[<<f, <<m, i>>>>] = f[<<d[scopes[m][i]], i + 1>>]
        <4>1. Step[<<f, <<m, i>>>>] = IF kind[m] = "lbrace" \/ i > Len(scopes[m]) THEN m
                                      ELSE f[<<d[scopes[m][i]], i + 1>>]
          BY ZenonT(60), <1>4
        <4> QED
          BY <4>1, <2>4
      <3> QED
        BY <2>1, <3>2, <3>3
    <2> QED
      BY SMTT(60), <2>3, <2>4
  <1> HIDE DEF Step
  <1>6. s2 \in [NI -> SUBSET NI] /\ WellFounded(NI, s2)
    <2>1. s2 \in [NI -> SUBSET NI]
      BY <1>1
    <2>2. ASSUME NEW X \in SUBSET NI, X # {} PROVE \E x \in X : s2[x] \cap X = {}
      <3> DEFINE Y == {n \in N : \E i \in I : <<n, i>> \in X}
      <3>1. Y \in SUBSET N /\ Y # {}
        <4>1. PICK x \in X : TRUE
          BY <2>2
        <4>2. x[1] \in N /\ x[2] \in I /\ x = <<x[1], x[2]>>
          BY <4>1
        <4> QED
          BY <4>1, <4>2
      <3>2. PICK y \in Y : s[y] \cap Y = {}
        BY <3>1, <1>1 DEF WellFounded
      <3>3. PICK i \in I : <<y, i>> \in X
        OBVIOUS
      <3>4. s2[<<y, i>>] = s[y] \X I
        OBVIOUS
      <3>5. s2[<<y, i>>] \cap X = {}
        BY SMTT(60), <3>2, <3>4
      <3> QED
        BY <3>3, <3>5
    <2> HIDE DEF s2
    <2> QED
      BY <2>1, <2>2 DEF WellFounded
  <1>7. ASSUME NEW f \in F, NEW g \in F, NEW x \in NI, \A y \in s2[x] : f[y] = g[y]
        PROVE  Step[<<f, x>>] = Step[<<g, x>>]
    <2>1. PICK m \in N, i \in I : x = <<m, i>>
      OBVIOUS
    <2>2. s2[x] = s[m] \X I
      BY <2>1
    <2> HIDE DEF s2
    <2>3. ASSUME ~(kind[m] = "lbrace" \/ i > Len(scopes[m]))
          PROVE  f[<<d[scopes[m][i]], i + 1>>] = g[<<d[scopes[m][i]], i + 1>>]
      <3>1. i + 1 \in I /\ d[scopes[m][i]] \in s[m]
        BY <2>3, <1>3
      <3>2. <<d[scopes[m][i]], i + 1>> \in s2[x]
        BY <2>2, <3>1
      <3> QED
        BY <3>2, <1>7
    <2>4. Step[<<f, <<m, i>>>>] = IF kind[m] = "lbrace" \/ i > Len(scopes[m]) THEN m
                                  ELSE f[<<d[scopes[m][i]], i + 1>>]
      BY ZenonT(60), <1>4
    <2>5. Step[<<g, <<m, i>>>>] = IF kind[m] = "lbrace" \/ i > Len(scopes[m]) THEN m
                                  ELSE g[<<d[scopes[m][i]], i + 1>>]
      BY ZenonT(60), <1>4
    <2> QED
      BY <2>1, <2>3, <2>4, <2>5
  <1>8. \E f \in F : \A x \in NI : f[x] = Step[<<f, x>>]
    <2>1. StepOf(NI, s2, N, r, Step)
      BY <1>5, <1>6, <1>7, <1>r DEF StepOf
    <2> HIDE DEF NI, s2, F
    <2>2. \E f \in [NI -> N] : \A x \in NI : f[x] = Step[<<f, x>>]
      BY <2>1, Recursion
    <2> QED
      BY <2>2 DEF F
  <1>9. \E f : Is(f)
    <2>1. PICK f \in F : \A x \in NI : f[x] = Step[<<f, x>>]
      BY <1>8
    <2>2. \A x \in NI : f[x] = IF kind[x[1]] = "lbrace" \/ x[2] > Len(scopes[x[1]]) THEN x[1]
                               ELSE f[<<d[scopes[x[1]][x[2]]], x[2] + 1>>]
      <3> TAKE x \in NI
      <3>1. x[1] \in N /\ x[2] \in I /\ x = <<x[1], x[2]>>
        OBVIOUS
      <3>2. \A m \in N, i \in I :
               Step[<<f, <<m, i>>>>] = IF kind[m] = "lbrace" \/ i > Len(scopes[m]) THEN m
                                       ELSE f[<<d[scopes[m][i]], i + 1>>]
        BY <1>4
      <3>3. f[x] = Step[<<f, x>>]
        BY <2>1
      <3> HIDE DEF NI, F
      <3> QED
        BY ZenonT(60), <3>1, <3>2, <3>3
    <2>3. Is(f)
      BY <2>2
    <2> QED
      BY <2>3
  <1>10. Is(t)
    BY ZenonT(60), <1>9
  <1>11. \A m \in N, i \in I : t[<<m, i>>] = IF kind[m] = "lbrace" \/ i > Len(scopes[m]) THEN m
                                             ELSE t[<<d[scopes[m][i]], i + 1>>]
    <2> TAKE m \in N, i \in I
    <2>1. <<m, i>> \in NI
      BY SMTT(60)
    <2>2. t = [x \in NI |->
                 IF kind[x[1]] = "lbrace" \/ x[2] > Len(scopes[x[1]]) THEN x[1]
                 ELSE t[<<d[scopes[x[1]][x[2]]], x[2] + 1>>]]
      BY Zenon, <1>10
    <2> HIDE DEF t, NI
    <2> QED
      BY Zenon, <2>1, <2>2
  <1> HIDE DEF t, F, s2
  <1> DEFINE Found(x) == \E m \in N : \E w \in Range(scopes[m]) : x = d[w]
             S == {n \in N : \A i \in I : /\ t[<<n, i>>] \in Below(Edges, n)
                                          /\ t[<<n, i>>] = n \/ Found(t[<<n, i>>])}
  <1>12. ASSUME NEW n \in N, Strictly(n) \subseteq S PROVE n \in S
    <2> SUFFICES ASSUME NEW i \in I
                 PROVE  t[<<n, i>>] \in Below(Edges, n) /\ (t[<<n, i>>] = n \/ Found(t[<<n, i>>]))
      OBVIOUS
    <2>1. CASE kind[n] = "lbrace" \/ i > Len(scopes[n])
      BY <2>1, <1>2, <1>11
    <2>2. CASE ~(kind[n] = "lbrace" \/ i > Len(scopes[n]))
      <3> DEFINE c == d[scopes[n][i]]
      <3>1. c \in s[n] /\ c \in N
        BY <2>2, <1>3
      <3>2. t[<<n, i>>] = t[<<c, i + 1>>] /\ i + 1 \in I
        BY <2>2, <1>11
      <3>6. Found(c)
        <4>1. scopes[n] \in Seq(N) /\ i \in 1 .. Len(scopes[n])
          BY <2>2, <1>2
        <4>2. scopes[n][i] \in Range(scopes[n])
          BY <4>1, RangeOf
        <4> QED
          BY <4>2
      <3> HIDE DEF c, Found
      <3>3. c \in S
        BY <3>1, <1>1, <1>12
      <3>4. t[<<c, i + 1>>] \in Below(Edges, c) /\ (t[<<c, i + 1>>] = c \/ Found(t[<<c, i + 1>>]))
        BY <3>2, <3>3
      <3>5. Below(Edges, c) \subseteq Below(Edges, n)
        <4>1. c \in Below(Edges, n)
          BY <3>1, <1>1 DEF Strictly
        <4> QED
          BY <4>1, BelowBelow DEF Edges, Lists, Scps, EdgesOf, TreesInv, N
      <3> QED
        BY <3>2, <3>4, <3>5, <3>6
    <2> QED
      BY <2>1, <2>2
  <1> HIDE DEF S
  <1>13. N \subseteq S
    BY <1>12, StrictInduction DEF N
  <1> DEFINE c == d[r]
  <1>14. c \in N /\ c \in Below(Edges, r) /\ 1 \in I
    BY <1>d, <1>r
  <1> HIDE DEF c
  <1>15. t[<<c, 1>>] \in Below(Edges, c) /\ (t[<<c, 1>>] = c \/ Found(t[<<c, 1>>]))
    BY <1>13, <1>14 DEF S
  <1>16. Below(Edges, c) \subseteq Below(Edges, r)
    BY <1>14, <1>r, BelowBelow DEF Edges, Lists, Scps, EdgesOf, TreesInv, N
  <1> QED
    BY <1>e, <1>2, <1>r, <1>15, <1>16 DEF c, N, d

\* The way down a chain of else and if ends at a node below where it began.
LEMMA ChainFacts ==
    ASSUME TreesInv, NEW r \in Node
    PROVE  ChainEnd(r) \in Node /\ ChainEnd(r) \in Below(Edges, r)
  <1> DEFINE N == Node
             F == [N -> N]
             s == [n \in N |-> Strictly(n)]
             more(m) == Len(scopes[m]) = 2 /\ kids[scopes[m][2]] # <<>> /\ kind[Head(kids[scopes[m][2]])] = "if"
             c(m) == Head(kids[scopes[m][2]])
             Step == [x \in F \X N |-> IF more(x[2]) THEN x[1][c(x[2])] ELSE x[2]]
             Is(f) == f = [m \in N |-> IF more(m) THEN f[c(m)] ELSE m]
             t == CHOOSE f : Is(f)
  <1>1. /\ s \in [N -> SUBSET N] /\ WellFounded(N, s)
        /\ \A n \in N : Edges[n] \subseteq s[n] /\ s[n] = Strictly(n) /\ s[n] \subseteq N
        /\ \A n \in N : \A k \in Edges[n] : Below(Edges, k) \subseteq s[n]
    BY StrictFounded
  <1>2. /\ N \subseteq Nat
        /\ \A n \in N : /\ scopes[n] \in Seq(N) /\ Range(scopes[n]) \subseteq Edges[n] /\ Edges[n] \subseteq N
                        /\ kids[n] \in Seq(N) /\ Range(kids[n]) \subseteq Edges[n]
                        /\ Below(Edges, n) \subseteq N /\ n \in Below(Edges, n)
    <2>1. ForestOf
      BY ForestHas
    <2> QED
      BY Zenon, <2>1, BelowFacts DEF ForestOf
  <1>e. ChainEnd(r) = t[r]
    BY DEF ChainEnd
  <1>r. r \in N
    OBVIOUS
  <1> HIDE DEF N, s
  <1>3. ASSUME NEW m \in N, more(m)
        PROVE  c(m) \in s[m] /\ c(m) \in N
    <2>1. scopes[m] \in Seq(N) /\ 2 \in 1 .. Len(scopes[m])
      BY <1>2, <1>3
    <2> DEFINE b == scopes[m][2]
    <2>2. b \in Edges[m] /\ b \in N
      BY <2>1, <1>2, RangeOf
    <2>3. kids[b] # <<>>
      BY <1>3
    <2> HIDE DEF b
    <2>4. kids[b] \in Seq(N) /\ Range(kids[b]) \subseteq Edges[b]
      BY <1>2, <2>2
    <2>5. Head(kids[b]) \in Range(kids[b])
      BY <2>3, <2>4, TailSeq
    <2>6. Head(kids[b]) \in Edges[b] /\ Edges[b] \subseteq s[b] /\ s[b] \subseteq Below(Edges, b)
      BY <1>1, <2>2, <2>4, <2>5 DEF Strictly
    <2>7. Below(Edges, b) \subseteq s[m]
      BY <2>2, <1>1
    <2> QED
      BY <2>6, <2>7, <1>1 DEF b
  <1> HIDE DEF more, c
  <1>4. ASSUME NEW f \in F, NEW m \in N
        PROVE  Step[<<f, m>>] = IF more(m) THEN f[c(m)] ELSE m
    OBVIOUS
  <1>5. Step \in [F \X N -> N]
    <2> SUFFICES ASSUME NEW x \in F \X N PROVE Step[x] \in N
      OBVIOUS
    <2>1. PICK f \in F, m \in N : x = <<f, m>>
      OBVIOUS
    <2>2. Step[<<f, m>>] = IF more(m) THEN f[c(m)] ELSE m
      BY <1>4
    <2> HIDE DEF Step
    <2>3. more(m) => f[c(m)] \in N
      BY <1>3
    <2> QED
      BY <2>1, <2>2, <2>3
  <1> HIDE DEF Step
  <1>7. ASSUME NEW f \in F, NEW g \in F, NEW m \in N, \A y \in s[m] : f[y] = g[y]
        PROVE  Step[<<f, m>>] = Step[<<g, m>>]
    <2>1. Step[<<f, m>>] = IF more(m) THEN f[c(m)] ELSE m
      BY <1>4
    <2>2. Step[<<g, m>>] = IF more(m) THEN g[c(m)] ELSE m
      BY <1>4
    <2>3. more(m) => f[c(m)] = g[c(m)]
      BY <1>3, <1>7
    <2> QED
      BY <2>1, <2>2, <2>3
  <1>8. \E f \in F : \A x \in N : f[x] = Step[<<f, x>>]
    <2>1. StepOf(N, s, N, r, Step)
      BY <1>1, <1>5, <1>7, <1>r DEF StepOf
    <2> QED
      BY <2>1, Recursion
  <1>9. \E f : Is(f)
    <2>1. PICK f \in F : \A x \in N : f[x] = Step[<<f, x>>]
      BY <1>8
    <2>2. \A m \in N : f[m] = IF more(m) THEN f[c(m)] ELSE m
      BY <2>1, <1>4
    <2>3. Is(f)
      BY <2>2
    <2> QED
      BY <2>3
  <1>10. Is(CHOOSE f : Is(f))
    BY <1>9
  <1>t. t = CHOOSE f : Is(f)
    BY DEF more, c
  <1> HIDE DEF t, F
  <1>11. \A m \in N : t[m] = IF more(m) THEN t[c(m)] ELSE m
    BY <1>10, <1>t
  <1> DEFINE S == {n \in N : t[n] \in Below(Edges, n)}
  <1>12. ASSUME NEW n \in N, Strictly(n) \subseteq S PROVE n \in S
    <2>1. CASE ~more(n)
      BY <2>1, <1>2, <1>11
    <2>2. CASE more(n)
      <3> DEFINE d == c(n)
      <3>1. d \in s[n] /\ d \in N
        BY <2>2, <1>3
      <3>2. t[n] = t[d]
        BY <2>2, <1>11
      <3> HIDE DEF d
      <3>3. d \in S
        BY <3>1, <1>1, <1>12
      <3>5. Below(Edges, d) \subseteq Below(Edges, n)
        <4>1. d \in Below(Edges, n)
          BY <3>1, <1>1 DEF Strictly
        <4> QED
          BY <4>1, BelowBelow DEF Edges, Lists, Scps, EdgesOf, TreesInv, N
      <3> QED
        BY <3>2, <3>3, <3>5
    <2> QED
      BY <2>1, <2>2
  <1> HIDE DEF S
  <1>13. N \subseteq S
    BY <1>12, StrictInduction DEF N
  <1>14. t[r] \in Below(Edges, r)
    BY <1>13, <1>r DEF S
  <1> QED
    BY <1>e, <1>2, <1>r, <1>14 DEF N

\* The lists of a list of lists, one after the other, are a list of the same elements.
LEMMA FlattenOf ==
    ASSUME NEW S, NEW q \in Seq(Seq(S))
    PROVE  FlattenSeq(q) \in Seq(S)
  <1> DEFINE L == Len(q)
             N == 1 .. L
             V == Seq(S)
             F == [N -> V]
             s == [i \in N |-> IF i = 1 THEN {} ELSE {i - 1}]
             Step == [x \in F \X N |-> IF x[2] = 1 THEN q[x[2]] ELSE x[1][x[2] - 1] \o q[x[2]]]
             Is(f) == f = [i \in N |-> IF i = 1 THEN q[i] ELSE f[i - 1] \o q[i]]
             t == CHOOSE f : Is(f)
  <1>1. CASE L = 0
    <2>1. FlattenSeq(q) = q /\ q = <<>>
      BY <1>1 DEF FlattenSeq
    <2> QED
      BY <2>1
  <1>2. CASE L # 0
    <2>0. L \in Nat /\ L >= 1 /\ \A i \in N : q[i] \in V
      BY <1>2
    <2>1. FlattenSeq(q) = t[L]
      BY <1>2 DEF FlattenSeq
    <2> HIDE DEF L
    <2>2. s \in [N -> SUBSET N]
      BY <2>0
    <2>3. WellFounded(N, s)
      <3> SUFFICES ASSUME NEW X \in SUBSET N, X # {} PROVE \E x \in X : s[x] \cap X = {}
        BY DEF WellFounded
      <3>1. PICK x \in X : \A y \in X : x <= y
        <4>1. X \in SUBSET Nat
          BY <2>0
        <4> QED
          BY <4>1, LeastMember
      <3>2. s[x] \cap X = {}
        <4>1. x \in N /\ s[x] = IF x = 1 THEN {} ELSE {x - 1}
          OBVIOUS
        <4>2. x - 1 \notin X
          BY <3>1, <4>1
        <4> QED
          BY <4>1, <4>2
      <3> QED
        BY <3>2
    <2>4. ASSUME NEW f \in F, NEW i \in N
          PROVE  Step[<<f, i>>] = IF i = 1 THEN q[i] ELSE f[i - 1] \o q[i]
      OBVIOUS
    <2>5. Step \in [F \X N -> V]
      <3> SUFFICES ASSUME NEW x \in F \X N PROVE Step[x] \in V
        OBVIOUS
      <3>1. PICK f \in F, i \in N : x = <<f, i>>
        BY SMTT(60)
      <3>2. Step[<<f, i>>] = IF i = 1 THEN q[i] ELSE f[i - 1] \o q[i]
        BY <2>4
      <3> HIDE DEF Step
      <3>3. i # 1 => f[i - 1] \in V
        <4>1. i # 1 => i - 1 \in N
          BY <2>0
        <4> QED
          BY <4>1
      <3>4. q[i] \in V
        BY <2>0
      <3>5. i # 1 => f[i - 1] \o q[i] \in V
        <4> DEFINE a == f[i - 1]
                   b == q[i]
        <4>1. i # 1 => a \in V /\ b \in V
          BY <3>3, <3>4
        <4> HIDE DEF a, b
        <4>2. i # 1 => a \o b \in V
          BY <4>1
        <4> QED
          BY <4>2 DEF a, b
      <3> QED
        BY <3>1, <3>2, <3>4, <3>5
    <2> HIDE DEF Step
    <2>6. ASSUME NEW f \in F, NEW g \in F, NEW i \in N, \A y \in s[i] : f[y] = g[y]
          PROVE  Step[<<f, i>>] = Step[<<g, i>>]
      <3>1. Step[<<f, i>>] = IF i = 1 THEN q[i] ELSE f[i - 1] \o q[i]
        BY <2>4
      <3>2. Step[<<g, i>>] = IF i = 1 THEN q[i] ELSE g[i - 1] \o q[i]
        BY <2>4
      <3>3. i # 1 => f[i - 1] = g[i - 1]
        BY <2>6
      <3> QED
        BY <3>1, <3>2, <3>3
    <2>7. \E f \in F : \A i \in N : f[i] = Step[<<f, i>>]
      <3>1. <<>> \in V
        OBVIOUS
      <3> HIDE DEF V, s, N
      <3>2. StepOf(N, s, V, <<>>, Step)
        BY <2>2, <2>3, <2>5, <2>6, <3>1 DEF StepOf
      <3> QED
        BY <3>2, Recursion
    <2>8. PICK f \in F : \A i \in N : f[i] = Step[<<f, i>>]
      BY <2>7
    <2>14. \A i \in N : f[i] = IF i = 1 THEN q[i] ELSE f[i - 1] \o q[i]
      <3> SUFFICES ASSUME NEW i \in N PROVE f[i] = IF i = 1 THEN q[i] ELSE f[i - 1] \o q[i]
        OBVIOUS
      <3>1. f[i] = Step[<<f, i>>]
        BY <2>8
      <3>2. Step[<<f, i>>] = IF i = 1 THEN q[i] ELSE f[i - 1] \o q[i]
        BY <2>4
      <3> HIDE DEF N, V
      <3> QED
        BY <3>1, <3>2
    <2>9. Is(f)
      <3> HIDE DEF V, N
      <3> QED
        BY Zenon, <2>14
    <2>10. Is(t)
      BY Zenon, <2>9
    <2>11. \A i \in N : t[i] = IF i = 1 THEN q[i] ELSE t[i - 1] \o q[i]
      <3>1. t = [i \in N |-> IF i = 1 THEN q[i] ELSE t[i - 1] \o q[i]]
        BY Zenon, <2>10
      <3> HIDE DEF t, N
      <3> QED
        BY Zenon, <3>1
    <2> HIDE DEF t, F, s
    <2> DEFINE X == {i \in N : t[i] \notin V}
    <2>12. X = {}
      <3> SUFFICES ASSUME X # {} PROVE FALSE
        OBVIOUS
      <3>1. PICK x \in X : \A y \in X : x <= y
        <4>1. X \in SUBSET Nat
          BY <2>0
        <4> QED
          BY <4>1, LeastMember
      <3>2. x \in N /\ q[x] \in V /\ x # 1
        BY <2>0, <2>11
      <3>3. x - 1 \in N /\ x - 1 \notin X
        BY <3>1, <3>2, <2>0
      <3> DEFINE a == t[x - 1]
                 b == q[x]
      <3>4. a \in V /\ b \in V /\ t[x] = a \o b
        BY <3>2, <3>3, <2>11
      <3> HIDE DEF a, b
      <3>5. t[x] \in V
        BY <3>4
      <3> QED
        BY <3>5
    <2>13. t[L] \in V
      BY <2>12, <2>0
    <2> QED
      BY <2>1, <2>13
  <1> QED
    BY <1>1, <1>2

\* A list of lists of nodes, laid out.
LEMMA LaidOut ==
    ASSUME NEW S, NEW L \in Nat, NEW a, NEW b, NEW q,
           \A i \in 1 .. L : a[i] \in Seq(S) /\ b[i] \in Seq(S),
           q = [i \in 1 .. L |-> a[i] \o b[i]]
    PROVE  FlattenSeq(q) \in Seq(S)
  <1>1. \A i \in 1 .. L : a[i] \o b[i] \in Seq(S)
    <2> SUFFICES ASSUME NEW i \in 1 .. L PROVE a[i] \o b[i] \in Seq(S)
      OBVIOUS
    <2> DEFINE x == a[i]
               y == b[i]
    <2>1. x \in Seq(S) /\ y \in Seq(S)
      OBVIOUS
    <2> HIDE DEF x, y
    <2>2. x \o y \in Seq(S)
      BY <2>1
    <2> QED
      BY <2>2 DEF x, y
  <1>2. q \in Seq(Seq(S))
    <2> DEFINE V == Seq(S)
               c == [i \in 1 .. L |-> a[i] \o b[i]]
    <2>1. c \in [1 .. L -> V]
      BY <1>1
    <2> HIDE DEF V, c
    <2>2. c \in Seq(V)
      BY <2>1
    <2> QED
      BY <2>2 DEF V, c
  <1> QED
    BY <1>2, FlattenOf

\* The scopes a resolving pass comes to inside a list are nodes.
LEMMA ScopesInFacts ==
    ASSUME TreesInv, NEW nodes \in Seq(Node)
    PROVE  ScopesIn(nodes) \in Seq(Node)
  <1> DEFINE N == Node
             V == Seq(N)
             F == [N -> V]
             s == [n \in N |-> Strictly(n)]
             k(n) == [i \in 1 .. Len(kids[n]) |-> scopes[kids[n][i]]]
             way(f, n) == [i \in 1 .. Len(kids[n]) |-> scopes[kids[n][i]] \o f[kids[n][i]]]
             Step == [x \in F \X N |-> FlattenSeq(way(x[1], x[2]))]
             Is(f) == f = [n \in N |-> FlattenSeq([i \in 1 .. Len(kids[n]) |->
                                                      scopes[kids[n][i]] \o f[kids[n][i]]])]
             t == CHOOSE f : Is(f)
  <1>1. /\ s \in [N -> SUBSET N] /\ WellFounded(N, s)
        /\ \A n \in N : Edges[n] \subseteq s[n]
    BY StrictFounded
  <1>2. /\ N \subseteq Nat /\ Trees(N, Lists, Scps)
        /\ \A n \in N : /\ scopes[n] \in Seq(N) /\ kids[n] \in Seq(N)
                        /\ Range(kids[n]) \subseteq Edges[n] /\ Range(kids[n]) \subseteq N
    <2>1. ForestOf
      BY ForestHas
    <2>2. N \subseteq Nat /\ Trees(N, Lists, Scps) /\ \A n \in N : scopes[n] \in Seq(N) /\ kids[n] \in Seq(N)
      BY <2>1 DEF ForestOf
    <2>3. \A n \in N : Range(kids[n]) \subseteq Edges[n] /\ Range(kids[n]) \subseteq N
      BY <2>1 DEF ForestOf
    <2> QED
      BY <2>2, <2>3
  <1>3. ASSUME NEW n \in N
        PROVE  /\ Len(kids[n]) \in Nat
               /\ \A i \in 1 .. Len(kids[n]) : /\ kids[n][i] \in N /\ kids[n][i] \in Edges[n]
                                               /\ kids[n][i] \in s[n] /\ scopes[kids[n][i]] \in V
    <2>1. kids[n] \in Seq(N)
      BY <1>2
    <2>2. Len(kids[n]) \in Nat /\ \A i \in 1 .. Len(kids[n]) : kids[n][i] \in Range(kids[n])
      BY <2>1, RangeOf
    <2> QED
      BY <2>1, <2>2, <1>1, <1>2
  <1>e. ScopesIn(nodes) = FlattenSeq([i \in 1 .. Len(nodes) |-> t[nodes[i]] \o scopes[nodes[i]]])
    BY SMTT(60) DEF ScopesIn
  <1>n. nodes \in Seq(N)
    BY SMTT(60)
  <1> HIDE DEF N, s
  <1>4. ASSUME NEW f \in F, NEW n \in N
        PROVE  Step[<<f, n>>] = FlattenSeq(way(f, n))
    BY Zenon
  <1>5. ASSUME NEW f, NEW n \in N, \A m \in Edges[n] : f[m] \in V
        PROVE  FlattenSeq(way(f, n)) \in V
    <2> DEFINE L == Len(kids[n])
               a == [i \in 1 .. L |-> scopes[kids[n][i]]]
               b == [i \in 1 .. L |-> f[kids[n][i]]]
               q == way(f, n)
    <2>1. L \in Nat /\ \A i \in 1 .. L : a[i] \in V /\ b[i] \in V
      BY SMTT(60), <1>3, <1>5
    <2>2. q = [i \in 1 .. L |-> a[i] \o b[i]]
      BY Zenon
    <2> HIDE DEF a, b, q, L
    <2>3. FlattenSeq(q) \in V
      BY <2>1, <2>2, LaidOut
    <2> QED
      BY <2>3 DEF q
  <1>6. Step \in [F \X N -> V]
    <2> SUFFICES ASSUME NEW x \in F \X N PROVE Step[x] \in V
      BY Zenon
    <2>1. PICK f \in F, n \in N : x = <<f, n>>
      BY SMTT(60)
    <2>2. Step[<<f, n>>] = FlattenSeq(way(f, n))
      BY Zenon, <1>4
    <2> HIDE DEF Step, way, V
    <2>3. \A m \in Edges[n] : f[m] \in V
      <3>1. Edges[n] \subseteq N
        BY <1>1
      <3> QED
        BY <3>1
    <2>4. FlattenSeq(way(f, n)) \in V
      BY <2>3, <1>5
    <2> QED
      BY <2>1, <2>2, <2>4
  <1> HIDE DEF Step
  <1>7. ASSUME NEW f \in F, NEW g \in F, NEW n \in N, \A y \in s[n] : f[y] = g[y]
        PROVE  Step[<<f, n>>] = Step[<<g, n>>]
    <2>1. Step[<<f, n>>] = FlattenSeq(way(f, n))
      BY <1>4
    <2>2. Step[<<g, n>>] = FlattenSeq(way(g, n))
      BY <1>4
    <2>3. way(f, n) = way(g, n)
      <3>1. \A i \in 1 .. Len(kids[n]) : f[kids[n][i]] = g[kids[n][i]]
        BY <1>3, <1>7
      <3> QED
        BY <3>1
    <2> HIDE DEF way
    <2> QED
      BY <2>1, <2>2, <2>3
  <1>8. \E f \in F : \A x \in N : f[x] = Step[<<f, x>>]
    <2>1. <<>> \in V
      OBVIOUS
    <2> HIDE DEF V
    <2>2. StepOf(N, s, V, <<>>, Step)
      BY <1>1, <1>6, <1>7, <2>1 DEF StepOf
    <2> QED
      BY <2>2, Recursion
  <1>9. \E f : Is(f)
    <2>1. PICK f \in F : \A x \in N : f[x] = Step[<<f, x>>]
      BY <1>8
    <2>2. \A n \in N : f[n] = FlattenSeq(way(f, n))
      <3> SUFFICES ASSUME NEW n \in N PROVE f[n] = FlattenSeq(way(f, n))
        OBVIOUS
      <3>1. Step[<<f, n>>] = FlattenSeq(way(f, n))
        BY <1>4
      <3>2. f[n] = Step[<<f, n>>]
        BY <2>1
      <3> HIDE DEF way, V
      <3> QED
        BY <3>1, <3>2
    <2>3. Is(f)
      <3> HIDE DEF V
      <3> QED
        BY Zenon, <2>2
    <2> QED
      BY Zenon, <2>3
  <1>10. Is(t)
    BY Zenon, <1>9
  <1>11. \A n \in N : t[n] = FlattenSeq(way(t, n))
    <2>1. t = [n \in N |-> FlattenSeq(way(t, n))]
      BY Zenon, <1>10
    <2> HIDE DEF t, way
    <2> QED
      BY SMTT(60), <2>1
  <1> HIDE DEF t, F, way
  <1> DEFINE S == {n \in N : t[n] \in V}
  <1>12. ASSUME NEW n \in N, Edges[n] \subseteq S PROVE n \in S
    <2> HIDE DEF V
    <2>1. FlattenSeq(way(t, n)) \in V
      BY <1>5, <1>12
    <2> QED
      BY <2>1, <1>11
  <1> HIDE DEF S
  <1>13. N \subseteq S
    <2>1. Inductive(N, Joint(Lists, Scps), S)
      BY <1>12 DEF Inductive, Edges
    <2> QED
      BY <2>1, <1>2, TreeInduction
  <1>14. FlattenSeq([i \in 1 .. Len(nodes) |-> t[nodes[i]] \o scopes[nodes[i]]]) \in V
    <2> DEFINE L == Len(nodes)
               a == [i \in 1 .. L |-> t[nodes[i]]]
               b == [i \in 1 .. L |-> scopes[nodes[i]]]
               q == [i \in 1 .. L |-> t[nodes[i]] \o scopes[nodes[i]]]
    <2>1. L \in Nat /\ \A i \in 1 .. L : nodes[i] \in N
      BY <1>n
    <2>3. \A n \in N : t[n] \in V /\ scopes[n] \in V
      BY <1>13, <1>2 DEF S
    <2>4. \A i \in 1 .. L : a[i] \in V /\ b[i] \in V
      <3> HIDE DEF L, V
      <3> QED
        BY <2>1, <2>3
    <2>2. q = [i \in 1 .. L |-> a[i] \o b[i]]
      OBVIOUS
    <2> HIDE DEF a, b, q, L
    <2>5. FlattenSeq(q) \in V
      BY <2>1, <2>4, <2>2, LaidOut
    <2> QED
      BY <2>5 DEF q, L
  <1> QED
    BY <1>e, <1>14 DEF N

\* What a walk from the roots reaches are nodes.
LEMMA ReachableFacts ==
    ASSUME TreesInv
    PROVE  Reachable \subseteq Node
  <1> DEFINE N == Node
             V == SUBSET N
             F == [N -> V]
             s == [n \in N |-> Strictly(n)]
             ways(n) == Range(kids[n]) \cup Range(scopes[n])
             Step == [x \in F \X N |-> {x[2]} \cup UNION {x[1][m] : m \in ways(x[2])}]
             Is(f) == f = [n \in N |-> {n} \cup UNION {f[m] : m \in Range(kids[n]) \cup Range(scopes[n])}]
             t == CHOOSE f : Is(f)
  <1>1. /\ s \in [N -> SUBSET N] /\ WellFounded(N, s) /\ \A n \in N : Edges[n] \subseteq s[n]
    BY StrictFounded
  <1>2. /\ N \subseteq Nat /\ Trees(N, Lists, Scps) /\ Range(result) \subseteq N
        /\ \A n \in N : ways(n) = Edges[n] /\ ways(n) \subseteq N
    <2>1. ForestOf
      BY ForestHas
    <2>2. N \subseteq Nat /\ Trees(N, Lists, Scps) /\ result \in Seq(N)
      BY <2>1 DEF ForestOf
    <2>3. \A n \in N : ways(n) = Edges[n] /\ ways(n) \subseteq N
      BY <2>1 DEF ForestOf
    <2>4. Range(result) \subseteq N
      BY <2>2, RangeOf
    <2> QED
      BY <2>2, <2>3, <2>4
  <1>e. Reachable = UNION {t[n] : n \in Range(result)}
    BY DEF Reachable
  <1> HIDE DEF N, s
  <1>w. \A n \in N : ways(n) = Range(kids[n]) \cup Range(scopes[n])
    OBVIOUS
  <1> HIDE DEF ways
  <1>3. Step \in [F \X N -> V]
    <2> SUFFICES ASSUME NEW x \in F \X N PROVE Step[x] \in V
      OBVIOUS
    <2>1. x[1] \in [N -> V] /\ x[2] \in N
      OBVIOUS
    <2>2. \A m \in ways(x[2]) : x[1][m] \subseteq N
      BY <2>1, <1>2
    <2>3. Step[x] = {x[2]} \cup UNION {x[1][m] : m \in ways(x[2])}
      OBVIOUS
    <2> HIDE DEF Step
    <2> QED
      BY <2>1, <2>2, <2>3
  <1>4. ASSUME NEW f \in F, NEW n \in N
        PROVE  Step[<<f, n>>] = {n} \cup UNION {f[m] : m \in ways(n)}
    OBVIOUS
  <1> HIDE DEF Step
  <1>5. ASSUME NEW f \in F, NEW g \in F, NEW n \in N, \A m \in s[n] : f[m] = g[m]
        PROVE  Step[<<f, n>>] = Step[<<g, n>>]
    <2>1. \A m \in ways(n) : f[m] = g[m]
      BY <1>1, <1>2, <1>5
    <2>2. {f[m] : m \in ways(n)} = {g[m] : m \in ways(n)}
      BY <2>1
    <2> QED
      BY <2>2, <1>4
  <1>6. \E f \in F : \A n \in N : f[n] = Step[<<f, n>>]
    <2>1. {} \in V
      OBVIOUS
    <2>2. StepOf(N, s, V, {}, Step)
      BY <1>1, <1>3, <1>5, <2>1 DEF StepOf
    <2> QED
      BY <2>2, Recursion
  <1>7. \E f : Is(f)
    <2>1. PICK f \in F : \A n \in N : f[n] = Step[<<f, n>>]
      BY <1>6
    <2>2. \A n \in N : f[n] = {n} \cup UNION {f[m] : m \in Range(kids[n]) \cup Range(scopes[n])}
      BY <2>1, <1>4, <1>w
    <2>3. Is(f)
      BY <2>2
    <2> QED
      BY <2>3
  <1>9. Is(t)
    BY <1>7
  <1>10. \A n \in N : t[n] = {n} \cup UNION {t[m] : m \in ways(n)}
    <2>1. \A n \in N : t[n] = {n} \cup UNION {t[m] : m \in Range(kids[n]) \cup Range(scopes[n])}
      BY <1>9
    <2> HIDE DEF t
    <2> QED
      BY <2>1, <1>w
  <1> HIDE DEF t, F, V
  <1> DEFINE S == {n \in N : t[n] \subseteq N}
  <1>11. ASSUME NEW n \in N, Edges[n] \subseteq S PROVE n \in S
    <2>2. \A m \in ways(n) : t[m] \subseteq N
      BY <1>2, <1>11
    <2> QED
      BY <1>10, <2>2
  <1> HIDE DEF S
  <1>12. N \subseteq S
    <2>1. Inductive(N, Joint(Lists, Scps), S)
      BY <1>11 DEF Inductive, Edges
    <2> QED
      BY <2>1, <1>2, TreeInduction
  <1>13. \A n \in Range(result) : t[n] \subseteq N
    BY <1>2, <1>12 DEF S
  <1> QED
    BY <1>e, <1>13 DEF N

-----------------------------------------------------------------------------
(* The placement in scopes and the stack of passes of stage s. *)

\* The nodes and the list of roots.
Home == {Root} \cup Node

\* The scope of what is in the list of a node.
ForOf(kd, is, n) == IF n = 0 THEN 0 ELSE IF kd[n] = "scope" THEN n ELSE is[n]

\* What is in the list of a node has the scope that is there as its in_scope and is no
\* scope; what is in its scopes is one.
PlacementOf(N, li, sc, kd, is) ==
    \A n \in {0} \cup N : /\ \A k \in Range(li[n]) : kd[k] # "scope" /\ is[k] = ForOf(kd, is, n)
                         /\ \A k \in Range(sc[n]) : kd[k] = "scope"

\* The same of a state.
Placement == PlacementOf(Node, Lists, Scps, kind, inScope)

\* The passes over lists of the nodes N.
PassOf(N) == [over : {0} \cup N, at : Nat \ {0}, step : {"begun", "inner", "held", "second"},
              held : Seq(N), sub : Nat]

\* One pass of stage s; l is the list it is over.
PassIn(N, l, kd, p) ==
    /\ p \in PassOf(N) /\ p.step # "second" /\ p.at <= Len(l) + 1
    /\ Len(p.held) < p.at
    /\ \A x \in 1 .. Len(p.held) : p.held[x] = l[p.at - Len(p.held) + x - 1]
    /\ p.held # <<>> => p.at <= Len(l) /\ (p.step = "begun" => kd[l[p.at]] # "rbrace")
    /\ p.step = "held" => p.held # <<>>

\* The pass q runs inside p: over a child or a scope of the node of p, which waits.
Within(li, e, p, q) == q.over \in e[p.over] /\ (p.at <= Len(li[p.over]) => p.step = "inner")

\* All of them.
Fits(N, li, sc, kd, ps) ==
    /\ ps \in Seq(PassOf(N)) /\ Len(ps) >= 1
    /\ \A j \in 1 .. Len(ps) : PassIn(N, li[ps[j].over], kd, ps[j])
    /\ \A j \in 1 .. Len(ps) - 1 : Within(li, Joint(li, sc), ps[j], ps[j + 1])

\* A list over a set is one over a larger set.
LEMMA SeqMore ==
    ASSUME NEW A, NEW B, A \subseteq B, NEW s \in Seq(A)
    PROVE  s \in Seq(B)
  <1>1. Len(s) \in Nat /\ s \in [1 .. Len(s) -> A]
    OBVIOUS
  <1>2. s \in [1 .. Len(s) -> B]
    BY <1>1
  <1> QED
    BY <1>1, <1>2

\* What is known of each pass of a stack that fits the lists.
LEMMA FitsFacts ==
    ASSUME NEW N, NEW li, NEW sc, NEW kd, NEW ps, Trees(N, li, sc), Fits(N, li, sc, kd, ps)
    PROVE  /\ Len(ps) \in Nat /\ Len(ps) >= 1 /\ ps # <<>> /\ ps \in Seq(PassOf(N)) /\ N \subseteq Nat
           /\ Last(ps) = ps[Len(ps)] /\ Len(ps) \in 1 .. Len(ps)
           /\ \A j \in 1 .. Len(ps) : /\ ps[j] \in PassOf(N) /\ ps[j].over \in {0} \cup N /\ ps[j].over \in Nat
                                      /\ PassIn(N, li[ps[j].over], kd, ps[j])
           /\ \A j \in 1 .. Len(ps) - 1 : /\ Within(li, Joint(li, sc), ps[j], ps[j + 1])
                                          /\ ps[j + 1].over \in Joint(li, sc)[ps[j].over]
  <1>1. N \subseteq Nat
    BY DEF Trees
  <1>2. ps \in Seq(PassOf(N)) /\ Len(ps) >= 1
    BY DEF Fits
  <1>3. Len(ps) \in Nat /\ ps # <<>> /\ \A j \in 1 .. Len(ps) : ps[j] \in PassOf(N)
    BY <1>2
  <1>4. ASSUME NEW p \in PassOf(N) PROVE p.over \in {0} \cup N /\ p.over \in Nat
    <2>1. p.over \in {0} \cup N
      BY DEF PassOf
    <2> DEFINE o == p.over
    <2>2. o \in {0} \cup N
      BY <2>1
    <2> HIDE DEF o
    <2>3. o \in Nat
      BY <2>2, <1>1
    <2> QED
      BY <2>2, <2>3 DEF o
  <1>5. Last(ps) = ps[Len(ps)]
    BY <1>2, <1>3, FrontOf
  <1>6. \A j \in 1 .. Len(ps) : PassIn(N, li[ps[j].over], kd, ps[j])
    BY DEF Fits
  <1>7. \A j \in 1 .. Len(ps) - 1 : Within(li, Joint(li, sc), ps[j], ps[j + 1])
    BY DEF Fits
  <1>8. \A j \in 1 .. Len(ps) - 1 : ps[j + 1].over \in Joint(li, sc)[ps[j].over]
    BY <1>7 DEF Within
  <1> QED
    BY <1>1, <1>2, <1>3, <1>4, <1>5, <1>6, <1>7, <1>8

\* A handler of the last pass changes nothing above it: no pass before it is over a node
\* below the last one's.
LEMMA LastOver ==
    ASSUME NEW N, NEW li, NEW sc, NEW kd, NEW ps, Trees(N, li, sc), Fits(N, li, sc, kd, ps)
    PROVE  /\ \A j \in 1 .. Len(ps) - 1 : ps[j].over \notin Below(Joint(li, sc), ps[Len(ps)].over)
           /\ ps[Len(ps)].over \in Nat /\ Len(ps) \in Nat
  <1> DEFINE e == Joint(li, sc)
             L == Len(ps)
             o(j) == ps[j].over
             X == {j \in 1 .. L : o(L) \notin Below(e, o(j))}
  <1>1. /\ L \in Nat /\ L >= 1 /\ \A j \in 1 .. L : o(j) \in {0} \cup N /\ o(j) \in Nat
        /\ \A j \in 1 .. L - 1 : o(j + 1) \in e[o(j)]
    BY FitsFacts
  <1>2. e \in Edges0 /\ Acyclic(e)
    BY DEF Trees, Forest
  <1> HIDE DEF e, L, o
  <1>3. X = {}
    <2> SUFFICES ASSUME X # {} PROVE FALSE
      OBVIOUS
    <2> DEFINE Y == {L - j : j \in X}
    <2>1. Y \in SUBSET Nat /\ Y # {}
      BY <1>1
    <2>2. PICK y \in Y : \A z \in Y : y <= z
      BY <2>1, LeastMember
    <2>3. PICK j \in X : y = L - j
      OBVIOUS
    <2>4. j \in 1 .. L /\ j # L
      <3>1. j = L => o(L) \in Below(e, o(j))
        BY <1>1, <1>2, BelowFacts
      <3> QED
        BY <3>1
    <2>5. j + 1 \notin X /\ j + 1 \in 1 .. L
      <3>1. j + 1 \in 1 .. L /\ L - (j + 1) < y
        BY <2>3, <2>4, <1>1
      <3>2. j + 1 \in X => L - (j + 1) \in Y
        OBVIOUS
      <3>3. L - (j + 1) \in Y => y <= L - (j + 1)
        BY <2>2
      <3> HIDE DEF X, Y
      <3>4. y \in Int /\ L \in Int /\ j \in Int
        BY <3>1, <2>1, <2>2, <1>1, <2>4
      <3> QED
        BY <3>1, <3>2, <3>3, <3>4
    <2>6. o(L) \in Below(e, o(j + 1))
      BY <2>5
    <2>7. o(j + 1) \in e[o(j)] /\ o(j) \in Nat
      BY <2>4, <1>1
    <2>8. o(L) \in Below(e, o(j))
      BY <2>6, <2>7, <1>2, BelowChild
    <2> QED
      BY <2>8
  <1>4. ASSUME NEW j \in 1 .. L - 1, o(j) \in Below(e, o(L)) PROVE FALSE
    <2>1. o(j + 1) \in e[o(j)] /\ o(j) \in Nat /\ o(j + 1) \in Nat /\ o(L) \in Nat /\ j + 1 \in 1 .. L
      BY <1>1
    <2>2. o(L) \in Below(e, o(j + 1))
      BY <1>3, <2>1
    <2>3. o(j) \notin Below(e, o(j + 1))
      BY <2>1, <1>2, NotBelowChild
    <2>4. Below(e, o(L)) \subseteq Below(e, o(j + 1))
      BY <2>1, <2>2, <1>2, BelowLeast, BelowFacts
    <2> QED
      BY <1>4, <2>3, <2>4
  <1> QED
    BY <1>1, <1>4 DEF e, L, o

\* A handler changes lists below the node the last pass is over, and that pass.
StaysOf(N, li, sc, ps, N2, li2, sc2, kd2, p) ==
    /\ N \subseteq N2
    /\ \A n \in {0} \cup N : n \notin Below(Joint(li, sc), ps[Len(ps)].over) =>
            li2[n] = li[n] /\ sc2[n] = sc[n]
    /\ p.over = ps[Len(ps)].over /\ PassIn(N2, li2[p.over], kd2, p)

\* When a handler changes lists only below the node its pass is over, the passes that
\* wait still fit.
LEMMA LowerStays ==
    ASSUME NEW N, NEW li, NEW sc, NEW kd, NEW ps, Trees(N, li, sc), Fits(N, li, sc, kd, ps),
           NEW N2, NEW li2, NEW sc2, NEW kd2, NEW p, StaysOf(N, li, sc, ps, N2, li2, sc2, kd2, p)
    PROVE  Fits(N2, li2, sc2, kd2, Append(Front(ps), p))
  <1> DEFINE e == Joint(li, sc)
             L == Len(ps)
             qs == Append(Front(ps), p)
  <1>1. /\ L \in Nat /\ L >= 1 /\ ps \in Seq(PassOf(N)) /\ N \subseteq Nat /\ N \subseteq N2
        /\ \A j \in 1 .. L : ps[j] \in PassOf(N) /\ ps[j].over \in {0} \cup N /\ ps[j].over \in Nat
    BY FitsFacts DEF StaysOf
  <1>2. /\ p \in PassOf(N2)
        /\ p.over = ps[L].over /\ PassIn(N2, li2[p.over], kd2, p)
    BY DEF StaysOf, PassIn
  <1>3. PassOf(N) \subseteq PassOf(N2)
    <2>1. \A s \in Seq(N) : s \in Seq(N2)
      BY <1>1, SeqMore
    <2> QED
      BY <1>1, <2>1 DEF PassOf
  <1>4. \A j \in 1 .. L - 1 : li2[ps[j].over] = li[ps[j].over] /\ sc2[ps[j].over] = sc[ps[j].over]
    <2>1. \A j \in 1 .. L - 1 : ps[j].over \notin Below(e, ps[L].over) /\ ps[j].over \in {0} \cup N
      <3>1. \A j \in 1 .. L - 1 : ps[j].over \in {0} \cup N
        BY <1>1
      <3> QED
        BY <3>1, LastOver
    <2> QED
      BY <2>1 DEF StaysOf
  <1>5. qs \in Seq(PassOf(N2)) /\ Len(qs) = L /\ qs[L] = p /\ \A j \in 1 .. L - 1 : qs[j] = ps[j]
    <2> DEFINE f == Front(ps)
               P == PassOf(N2)
    <2>1. f \in Seq(P) /\ Len(f) = L - 1 /\ \A j \in 1 .. L - 1 : f[j] = ps[j]
      <3>1. ps \in Seq(P) /\ ps # <<>>
        BY <1>1, <1>3, SeqMore
      <3> QED
        BY <3>1, FrontOf
    <2>2. p \in P
      BY <1>2
    <2> HIDE DEF f, P
    <2>3. /\ Append(f, p) \in Seq(P) /\ Len(Append(f, p)) = L /\ Append(f, p)[L] = p
          /\ \A j \in 1 .. L - 1 : Append(f, p)[j] = f[j]
      BY <1>1, <2>1, <2>2, AppendOf
    <2> QED
      BY <2>1, <2>3 DEF f, P
  <1> HIDE DEF qs
  <1>6. ASSUME NEW j \in 1 .. L - 1
        PROVE  Within(li, e, ps[j], ps[j + 1]) /\ PassIn(N, li[ps[j].over], kd, ps[j])
               /\ PassIn(N, li[ps[L].over], kd, ps[L])
    BY <1>1 DEF Fits
  <1>7. ASSUME NEW j \in 1 .. L PROVE PassIn(N2, li2[qs[j].over], kd2, qs[j])
    <2>1. CASE j = L
      BY <2>1, <1>2, <1>5
    <2>2. CASE j # L
      <3> DEFINE r == ps[j]
                 l == li[r.over]
      <3>1. qs[j] = r /\ li2[r.over] = l /\ PassIn(N, l, kd, r) /\ r \in PassOf(N2) /\ r \in PassOf(N)
        BY <2>2, <1>1, <1>3, <1>4, <1>5, <1>6
      <3>2. r.at <= Len(l) => r.step = "inner"
        BY <2>2, <1>1, <1>6 DEF Within
      <3> HIDE DEF r, l
      <3>3. r.step = "begun" => r.held = <<>>
        BY <3>1, <3>2 DEF PassIn
      <3>4. PassIn(N2, l, kd2, r)
        BY <3>1, <3>3 DEF PassIn
      <3> QED
        BY <3>1, <3>4
    <2> QED
      BY <2>1, <2>2
  <1>8. ASSUME NEW j \in 1 .. L - 1 PROVE Within(li2, Joint(li2, sc2), qs[j], qs[j + 1])
    <2> DEFINE m == ps[j].over
    <2>1. m \in Nat /\ qs[j] = ps[j] /\ qs[j + 1].over = ps[j + 1].over
      <3>1. m \in Nat
        BY <1>1
      <3>2. qs[j + 1].over = ps[j + 1].over
        <4>1. CASE j + 1 = L
          BY <4>1, <1>1, <1>2, <1>5
        <4>2. CASE j + 1 # L
          <5>1. j + 1 \in 1 .. L - 1
            BY <4>2, <1>1
          <5> QED
            BY <5>1, <1>5
        <4> QED
          BY <4>1, <4>2
      <3> HIDE DEF m
      <3> QED
        BY <3>1, <3>2, <1>5
    <2>2. Joint(li2, sc2)[m] = Joint(li, sc)[m] /\ li2[m] = li[m]
      BY <2>1, <1>4 DEF Joint
    <2> QED
      BY <2>1, <2>2, <1>6 DEF Within
  <1> QED
    BY <1>1, <1>5, <1>7, <1>8 DEF Fits, qs

\* A pass over a child or a scope begins.
LEMMA PushFits ==
    ASSUME NEW N, NEW li, NEW sc, NEW kd, NEW ps, Fits(N, li, sc, kd, ps), NEW q,
           PassIn(N, li[q.over], kd, q), Within(li, Joint(li, sc), ps[Len(ps)], q)
    PROVE  Fits(N, li, sc, kd, Append(ps, q))
  <1> DEFINE L == Len(ps)
             qs == Append(ps, q)
  <1>1. L \in Nat /\ L >= 1 /\ ps \in Seq(PassOf(N)) /\ q \in PassOf(N)
    BY DEF Fits, PassIn
  <1>2. qs \in Seq(PassOf(N)) /\ Len(qs) = L + 1 /\ qs[L + 1] = q /\ \A j \in 1 .. L : qs[j] = ps[j]
    BY <1>1, AppendOf
  <1> HIDE DEF qs
  <1>3. ASSUME NEW j \in 1 .. L + 1 PROVE PassIn(N, li[qs[j].over], kd, qs[j])
    <2>1. CASE j = L + 1
      BY <2>1, <1>2
    <2>2. CASE j # L + 1
      <3>1. j \in 1 .. L
        BY <2>2, <1>1
      <3> QED
        BY <3>1, <1>2 DEF Fits
    <2> QED
      BY <2>1, <2>2
  <1>4. ASSUME NEW j \in 1 .. L PROVE Within(li, Joint(li, sc), qs[j], qs[j + 1])
    <2>1. CASE j = L
      BY <2>1, <1>1, <1>2
    <2>2. CASE j # L
      <3>1. j \in 1 .. L - 1 /\ j + 1 \in 1 .. L
        BY <2>2, <1>1
      <3> QED
        BY <3>1, <1>2 DEF Fits
    <2> QED
      BY <2>1, <2>2
  <1>5. Len(qs) >= 1 /\ Len(qs) - 1 = L
    BY <1>1, <1>2
  <1> QED
    BY <1>2, <1>3, <1>4, <1>5 DEF Fits, qs

\* The last pass ends.
LEMMA PopFits ==
    ASSUME NEW N, NEW li, NEW sc, NEW kd, NEW ps, Fits(N, li, sc, kd, ps), Front(ps) # <<>>
    PROVE  Fits(N, li, sc, kd, Front(ps))
  <1> DEFINE L == Len(ps)
             qs == Front(ps)
  <1>1. L \in Nat /\ L >= 1 /\ ps \in Seq(PassOf(N)) /\ ps # <<>>
    BY DEF Fits
  <1>2. qs \in Seq(PassOf(N)) /\ Len(qs) = L - 1 /\ \A j \in 1 .. L - 1 : qs[j] = ps[j]
    BY <1>1, FrontOf
  <1>3. Len(qs) >= 1
    BY <1>2
  <1> HIDE DEF qs
  <1>4. \A j \in 1 .. Len(qs) : PassIn(N, li[qs[j].over], kd, qs[j])
    BY <1>1, <1>2 DEF Fits
  <1>5. ASSUME NEW j \in 1 .. Len(qs) - 1 PROVE Within(li, Joint(li, sc), qs[j], qs[j + 1])
    <2>1. j \in 1 .. L - 1 /\ j + 1 \in 1 .. L - 1
      BY <1>1, <1>2
    <2>2. Within(li, Joint(li, sc), ps[j], ps[j + 1])
      BY <2>1 DEF Fits
    <2> QED
      BY <2>1, <2>2, <1>2
  <1> QED
    BY <1>2, <1>3, <1>4, <1>5 DEF Fits, qs

\* A handler replaces the list of the pass, after it has made of the others ch.
RewrittenOf(N2, li2, s2, new, ch) ==
    /\ Rewrite(new, ch) /\ Node' = N2 /\ Trees(N2, li2, s2)
    /\ Top.over \in {0} \cup N2 /\ li2[Top.over] = new
    /\ DOMAIN ch = N2 /\ ch = [n \in N2 |-> ch[n]] /\ (\A n \in N2 : n # Top.over => ch[n] = li2[n])
    /\ (Top.over # 0 => li2[0] = result)
    /\ DOMAIN scopes' = {0} \cup N2 /\ scopes' = [n \in {0} \cup N2 |-> scopes'[n]]
    /\ \A n \in {0} \cup N2 : scopes'[n] = s2[n]

\* What is known of the state then.
RewrittenGives(li2, s2) == TreesInv' /\ Lists' = li2 /\ Scps' = s2

\* The lists of the state after a handler has replaced the one of its pass.
LEMMA Rewritten ==
    ASSUME NEW N2, NEW li2, NEW s2, NEW new, NEW ch, RewrittenOf(N2, li2, s2, new, ch)
    PROVE  RewrittenGives(li2, s2)
  <1> USE DEF RewrittenOf, RewrittenGives
  <1> DEFINE o == Top.over
             r2 == result'
             c2 == kids'
             z2 == scopes'
  <1>0. 0 \notin N2
    BY DEF Trees
  <1>1. o = 0 => r2 = new /\ c2 = ch
    BY DEF Rewrite, Root
  <1>2. o # 0 => c2 = [ch EXCEPT ![o] = new] /\ r2 = result
    BY DEF Rewrite, Root
  <1> HIDE DEF o, r2, c2, z2
  <1>3. r2 = li2[0]
    BY <1>1, <1>2 DEF o
  <1>4. DOMAIN c2 = N2 /\ c2 = [n \in N2 |-> c2[n]] /\ \A n \in N2 : c2[n] = li2[n]
    <2>1. CASE o = 0
      BY <2>1, <1>1, <1>0 DEF o
    <2>2. CASE o # 0
      <3>1. c2 = [ch EXCEPT ![o] = new] /\ o \in N2 /\ li2[o] = new
        BY <2>2, <1>2 DEF o
      <3>2. \A n \in N2 : n # o => ch[n] = li2[n]
        BY DEF o
      <3> QED
        BY <3>1, <3>2
    <2> QED
      BY <2>1, <2>2
  <1>5. DOMAIN z2 = {0} \cup N2 /\ z2 = [n \in {0} \cup N2 |-> z2[n]] /\ \A n \in {0} \cup N2 : z2[n] = s2[n]
    BY DEF z2
  <1>6. Forested(N2, r2, c2, z2) /\ ListsOf(N2, r2, c2) = li2 /\ ScopesOf(N2, z2) = s2
    BY SMTT(60), <1>3, <1>4, <1>5, Unlist
  <1>7. TreesInv'
    BY <1>6 DEF TreesInv, r2, c2, z2
  <1> QED
    BY <1>6, <1>7 DEF Lists, Scps, r2, c2, z2

\* A pass with some fields replaced is the record of all its fields.
LEMMA RecordSet ==
    ASSUME NEW A, NEW B, NEW C, NEW D, NEW E, NEW p \in [over : A, at : B, step : C, held : D, sub : E],
           NEW a \in B, NEW s \in C, NEW h \in D, NEW u \in E
    PROVE  /\ p.over \in A /\ p.at \in B /\ p.step \in C /\ p.held \in D /\ p.sub \in E
           /\ p = [over |-> p.over, at |-> p.at, step |-> p.step, held |-> p.held, sub |-> p.sub]
           /\ [over |-> p.over, at |-> a, step |-> s, held |-> h, sub |-> u]
                  \in [over : A, at : B, step : C, held : D, sub : E]
  OBVIOUS

\* A pass with other fields.
Fields(p, a, s, h, u) == [over |-> p.over, at |-> a, step |-> s, held |-> h, sub |-> u]

\* Values for its fields.
PassSetOf(N, p, a, s, h, u) ==
    /\ p \in PassOf(N) /\ a \in Nat \ {0} /\ s \in {"begun", "inner", "held", "second"}
    /\ h \in Seq(N) /\ u \in Nat

\* The fields of a pass that has been replaced.
LEMMA PassSet ==
    ASSUME NEW N, NEW p, NEW a, NEW s, NEW h, NEW u, PassSetOf(N, p, a, s, h, u),
           NEW q, q = Fields(p, a, s, h, u)
    PROVE  /\ q \in PassOf(N) /\ q.over = p.over /\ q.at = a /\ q.step = s /\ q.held = h /\ q.sub = u
           /\ p = Fields(p, p.at, p.step, p.held, p.sub)
           /\ p.over \in {0} \cup N /\ p.at \in Nat \ {0} /\ p.step \in {"begun", "inner", "held", "second"}
           /\ p.held \in Seq(N) /\ p.sub \in Nat
  <1> DEFINE A == {0} \cup N
             B == Nat \ {0}
             C == {"begun", "inner", "held", "second"}
             D == Seq(N)
  <1>1. p \in [over : A, at : B, step : C, held : D, sub : Nat] /\ a \in B /\ s \in C /\ h \in D /\ u \in Nat
    BY DEF PassOf, PassSetOf
  <1> HIDE DEF A, B, C, D
  <1>2. /\ p.over \in A /\ p.at \in B /\ p.step \in C /\ p.held \in D /\ p.sub \in Nat
        /\ p = [over |-> p.over, at |-> p.at, step |-> p.step, held |-> p.held, sub |-> p.sub]
        /\ q \in [over : A, at : B, step : C, held : D, sub : Nat]
    BY <1>1, RecordSet DEF Fields
  <1>3. q.over = p.over /\ q.at = a /\ q.step = s /\ q.held = h /\ q.sub = u
    BY DEF Fields
  <1>4. q \in PassOf(N)
    BY <1>2 DEF PassOf, A, B, C, D
  <1> QED
    BY <1>2, <1>3, <1>4 DEF A, B, C, D, Fields

\* The fields of a pass.
LEMMA PassTyped ==
    ASSUME NEW N, NEW p \in PassOf(N)
    PROVE  /\ p = Fields(p, p.at, p.step, p.held, p.sub)
           /\ p.over \in {0} \cup N /\ p.at \in Nat \ {0} /\ p.step \in {"begun", "inner", "held", "second"}
           /\ p.held \in Seq(N) /\ p.sub \in Nat
  <1> DEFINE q == Fields(p, 1, "begun", <<>>, 0)
  <1>1. PassSetOf(N, p, 1, "begun", <<>>, 0)
    BY DEF PassSetOf
  <1> HIDE DEF q
  <1>2. q = Fields(p, 1, "begun", <<>>, 0)
    BY DEF q
  <1> QED
    BY <1>1, <1>2, PassSet

\* The last pass.
TopIs ==
    /\ Top = passes[Len(passes)] /\ Top \in PassOf(Node) /\ passes # <<>> /\ passes \in Seq(PassOf(Node))
    /\ Top.over \in {0} \cup Node /\ Top.over \in Nat /\ Top.at \in Nat /\ Top.at >= 1
    /\ Top.held \in Seq(Node) /\ Len(Top.held) \in Nat /\ Top.sub \in Nat
    /\ Lists[Top.over] = list /\ list \in Seq(Node) /\ Distinct(list) /\ Len(list) \in Nat
    /\ Range(list) \subseteq Edges[Top.over]
    /\ (\A i \in 1 .. Len(list) : list[i] \in Node /\ list[i] \in Range(list))
    /\ PassIn(Node, list, kind, Top)
    /\ (~Passed => Top.at \in 1 .. Len(list) /\ node \in Node /\ node \in Range(list) /\ node = list[Top.at])

\* What is known of the last pass and its list.
LEMMA TopFacts ==
    ASSUME TreesInv, Fits(Node, Lists, Scps, kind, passes)
    PROVE  TopIs
  <1>1. ForestOf
    BY ForestHas
  <1>2. Trees(Node, Lists, Scps)
    BY <1>1 DEF ForestOf
  <1>3. /\ passes # <<>> /\ passes \in Seq(PassOf(Node))
        /\ Top = passes[Len(passes)] /\ Top \in PassOf(Node) /\ Top.over \in {0} \cup Node /\ Top.over \in Nat
        /\ PassIn(Node, Lists[Top.over], kind, Top)
    <2>1. /\ passes # <<>> /\ passes \in Seq(PassOf(Node)) /\ Last(passes) = passes[Len(passes)]
          /\ Len(passes) \in 1 .. Len(passes)
          /\ \A j \in 1 .. Len(passes) : /\ passes[j] \in PassOf(Node) /\ passes[j].over \in {0} \cup Node
                                         /\ passes[j].over \in Nat
                                         /\ PassIn(Node, Lists[passes[j].over], kind, passes[j])
      BY <1>2, FitsFacts
    <2>2. Top = passes[Len(passes)]
      BY <2>1 DEF Top
    <2> QED
      BY <2>1, <2>2
  <1>4. /\ Top.at \in Nat /\ Top.at >= 1 /\ Top.held \in Seq(Node) /\ Top.sub \in Nat
    BY <1>3, PassTyped
  <1>5. Lists[Top.over] = list /\ list \in Seq(Node) /\ Distinct(list) /\ Range(list) \subseteq Edges[Top.over]
    BY <1>1, <1>3 DEF ForestOf, list
  <1>6. Len(list) \in Nat /\ \A i \in 1 .. Len(list) : list[i] \in Node /\ list[i] \in Range(list)
    BY <1>5, RangeOf
  <1>7. ~Passed => Top.at \in 1 .. Len(list) /\ node \in Node /\ node \in Range(list) /\ node = list[Top.at]
    BY <1>4, <1>6 DEF Passed, node
  <1>8. Len(Top.held) \in Nat
    BY <1>4
  <1>9. PassIn(Node, list, kind, Top)
    BY <1>3, <1>5
  <1> QED
    BY <1>3, <1>4, <1>5, <1>6, <1>7, <1>8, <1>9 DEF TopIs

\* What a pass must be for the handler of i to return to.
BackOf(N, l, p, i) ==
    /\ p \in PassOf(N) /\ i \in Nat /\ 1 <= i /\ i <= Len(l) /\ Len(l) \in Nat
    /\ p.held # <<>> => /\ Len(p.held) < i
                        /\ \A x \in 1 .. Len(p.held) : p.held[x] = l[i - Len(p.held) + x - 1]

\* A handler that returns leaves a pass as it must be: at the next node, or at a holder
\* that waits.
LEMMA ReturnedIn ==
    ASSUME NEW N, NEW l, NEW kd, NEW p, NEW i, BackOf(N, l, p, i)
    PROVE  PassIn(N, l, kd, Returned(p, i)) /\ Returned(p, i).over = p.over
  <1> DEFINE q == Returned(p, i)
  <1>0. p \in PassOf(N) /\ i \in Nat /\ 1 <= i /\ i <= Len(l) /\ Len(l) \in Nat
    BY DEF BackOf
  <1>1. /\ p = Fields(p, p.at, p.step, p.held, p.sub)
        /\ p.at \in Nat \ {0} /\ p.held \in Seq(N) /\ p.sub \in Nat /\ i \in Nat \ {0} /\ i + 1 \in Nat \ {0}
    BY <1>0, PassTyped
  <1>2. CASE p.held = <<>>
    <2>1. q = Fields(p, i + 1, "begun", p.held, p.sub)
      BY <1>1, <1>2 DEF Returned, Fields
    <2> HIDE DEF q
    <2>2. q \in PassOf(N) /\ q.at = i + 1 /\ q.step = "begun" /\ q.held = <<>> /\ q.over = p.over
      <3>1. PassSetOf(N, p, i + 1, "begun", p.held, p.sub)
        BY <1>0, <1>1 DEF PassSetOf
      <3> QED
        BY <2>1, <3>1, <1>2, PassSet
    <2>3. PassIn(N, l, kd, q)
      BY <2>2, <1>0 DEF PassIn
    <2> QED
      BY <2>2, <2>3 DEF q
  <1>3. CASE p.held # <<>>
    <2>1. q = Fields(p, i, "held", p.held, p.sub)
      BY <1>1, <1>3 DEF Returned, Fields
    <2> HIDE DEF q
    <2>2. q \in PassOf(N) /\ q.at = i /\ q.step = "held" /\ q.held = p.held /\ q.over = p.over
      <3>1. PassSetOf(N, p, i, "held", p.held, p.sub)
        BY <1>0, <1>1 DEF PassSetOf
      <3> QED
        BY <2>1, <3>1, PassSet
    <2>3. Len(p.held) < i /\ \A x \in 1 .. Len(p.held) : p.held[x] = l[i - Len(p.held) + x - 1]
      BY <1>3 DEF BackOf
    <2>4. \A x \in 1 .. Len(q.held) : q.held[x] = l[q.at - Len(q.held) + x - 1]
      BY <2>2, <2>3
    <2>5. Len(q.held) < q.at /\ q.at <= Len(l) /\ q.held # <<>> /\ q.step = "held" /\ q.at <= Len(l) + 1
      BY <2>2, <2>3, <1>0, <1>3
    <2>6. PassIn(N, l, kd, q)
      BY <2>2, <2>4, <2>5 DEF PassIn
    <2> QED
      BY <2>2, <2>6 DEF q
  <1> QED
    BY <1>2, <1>3

\* A pass is one over a larger set of nodes.
LEMMA PassMore ==
    ASSUME NEW N, NEW N2, N \subseteq N2, NEW p \in PassOf(N)
    PROVE  p \in PassOf(N2)
  <1>1. \A s \in Seq(N) : s \in Seq(N2)
    BY SeqMore
  <1> QED
    BY <1>1 DEF PassOf

\* The handler leaves the list up to i as it was, and returns there.
LEMMA BackHere ==
    ASSUME NEW N, NEW l, NEW kd, NEW p, PassIn(N, l, kd, p), NEW N2, N \subseteq N2, NEW l2,
           Len(l2) \in Nat, p.at <= Len(l2), \A i \in 1 .. p.at : l2[i] = l[i]
    PROVE  BackOf(N2, l2, p, p.at)
  <1>1. p \in PassOf(N)
    BY DEF PassIn
  <1>2. p \in PassOf(N2) /\ p.at \in Nat /\ p.at >= 1 /\ p.held \in Seq(N) /\ Len(p.held) \in Nat
    BY <1>1, PassMore, PassTyped
  <1>3. \A x \in 1 .. Len(p.held) : p.held[x] = l[p.at - Len(p.held) + x - 1]
    BY DEF PassIn
  <1>4. Len(p.held) < p.at
    BY DEF PassIn
  <1> DEFINE k == Len(p.held)
             a == p.at
  <1>5. \A x \in 1 .. k : a - k + x - 1 \in 1 .. a
    <2>1. k \in Nat /\ a \in Nat /\ k < a
      BY <1>2, <1>4
    <2> HIDE DEF k, a
    <2> QED
      BY <2>1
  <1> QED
    BY <1>2, <1>3, <1>4, <1>5 DEF BackOf

-----------------------------------------------------------------------------
(* The handlers of stage s that move nothing. *)

\* The stack of stage s: each pass is right for its list, and inside the one before it.
ScopingPasses == Fits(Node, Lists, Scps, kind, passes) /\ left = 0

\* The stack of stage t: the passes that wait have not begun, and left is a node the last
\* one has passed.
TypingPasses ==
    /\ passes \in Seq(PassOf(Node)) /\ passes # <<>>
    /\ \A j \in 1 .. Len(passes) : passes[j].step \in {"begun", "second"}
    /\ \A j \in 1 .. Len(passes) - 1 : passes[j].at = 1 /\ passes[j].step = "begun"
    /\ Top.at <= Len(list) + 1
    /\ Top.step = "begun" => left = 0 \/ \E i \in 1 .. Top.at - 1 : left = list[i]

\* The lists stay as they are.
ListsStay == Lists' = Lists /\ Scps' = Scps /\ Node' = Node /\ kind' = kind

\* A step that changes no list keeps the forest and the placement.
LEMMA SameLists ==
    ASSUME Typed, TreesInv, Placement, UNCHANGED vars, inScope' = inScope
    PROVE  Typed' /\ TreesInv' /\ Placement' /\ ListsStay /\ left' = left
  <1>1. /\ program' = program /\ kind' = kind /\ kids' = kids /\ scopes' = scopes /\ unary' = unary
        /\ parened' = parened /\ token' = token /\ result' = result /\ index' = index /\ left' = left
    BY DEF vars, trees
  <1>2. Node' = Node /\ Token' = Token /\ Home' = Home
    BY <1>1 DEF Node, Token, Home
  <1>3. ListsStay
    BY <1>1, <1>2 DEF ListsStay, Lists, Scps
  <1>4. Typed'
    BY <1>1, <1>2 DEF Typed
  <1>5. TreesInv'
    BY <1>1, <1>2 DEF TreesInv
  <1>6. Placement'
    BY <1>1, <1>2, <1>3 DEF Placement, ListsStay
  <1> QED
    BY <1>1, <1>3, <1>4, <1>5, <1>6

\* When the lists stay, a stack that fits is all there is to show.
LEMMA FitsStay ==
    ASSUME ListsStay, left' = left, left = 0, NEW ps, Fits(Node, Lists, Scps, kind, ps), passes' = ps
    PROVE  ScopingPasses'
  BY DEF ScopingPasses, ListsStay

\* The last pass, when it has been replaced.
LEMMA LastReplaced ==
    ASSUME NEW S, NEW s \in Seq(S), s # <<>>, NEW p
    PROVE  Append(Front(s), p)[Len(Append(Front(s), p))] = p
  <1> DEFINE f == Front(s)
  <1>1. f \in Seq(S) /\ Len(f) \in Nat
    BY FrontOf
  <1> HIDE DEF f
  <1>2. Append(f, p)[Len(Append(f, p))] = p
    BY <1>1
  <1> QED
    BY <1>2 DEF f

\* Two passes begun at once are one begun after the other.
LEMMA TwoMore ==
    ASSUME NEW S, NEW s \in Seq(S), NEW p, NEW q
    PROVE  s \o <<p, q>> = Append(Append(s, p), q)
  <1> DEFINE a == s \o <<p, q>>
             b == Append(Append(s, p), q)
             T == S \cup {p, q}
  <1>1. s \in Seq(T) /\ <<p, q>> \in Seq(T) /\ p \in T /\ q \in T
    BY SeqMore
  <1> HIDE DEF T
  <1>2. a \in Seq(T) /\ Len(a) = Len(s) + 2 /\ (\A i \in 1 .. Len(s) : a[i] = s[i])
        /\ a[Len(s) + 1] = p /\ a[Len(s) + 2] = q
    <2> DEFINE t == <<p, q>>
    <2>1. t \in Seq(T) /\ Len(t) = 2 /\ t[1] = p /\ t[2] = q
      BY <1>1
    <2> HIDE DEF t
    <2>2. a = s \o t
      BY DEF t
    <2> HIDE DEF a
    <2>3. /\ s \o t \in Seq(T) /\ Len(s \o t) = Len(s) + Len(t)
          /\ (\A i \in 1 .. Len(s) : (s \o t)[i] = s[i])
          /\ (\A i \in 1 .. Len(t) : (s \o t)[Len(s) + i] = t[i])
      <3>1. s \in Seq(T) /\ t \in Seq(T)
        BY <1>1, <2>1
      <3> QED
        BY ONLY <3>1, ConcatOf
    <2> QED
      BY <2>1, <2>2, <2>3
  <1>3. b \in Seq(T) /\ Len(b) = Len(s) + 2 /\ (\A i \in 1 .. Len(s) : b[i] = s[i])
        /\ b[Len(s) + 1] = p /\ b[Len(s) + 2] = q
    <2> DEFINE c == Append(s, p)
    <2>1. /\ c \in Seq(T) /\ Len(c) = Len(s) + 1 /\ (\A i \in 1 .. Len(s) : c[i] = s[i])
          /\ c[Len(s) + 1] = p
      BY <1>1, AppendOf
    <2> HIDE DEF c
    <2>4. c \in Seq(T) /\ q \in T
      BY <1>1, <2>1
    <2>2. /\ Append(c, q) \in Seq(T) /\ Len(Append(c, q)) = Len(c) + 1 /\ (\A i \in 1 .. Len(c) : Append(c, q)[i] = c[i])
          /\ Append(c, q)[Len(c) + 1] = q
      BY ONLY <2>4, AppendOf
    <2>3. Len(s) \in Nat
      OBVIOUS
    <2> QED
      BY <2>1, <2>2, <2>3 DEF c
  <1> HIDE DEF a, b
  <1>4. Len(s) \in Nat
    OBVIOUS
  <1>5. Len(a) = Len(b) /\ \A i \in 1 .. Len(a) : a[i] = b[i]
    BY <1>2, <1>3, <1>4
  <1>6. a = b
    BY <1>2, <1>3, <1>5
  <1> QED
    BY <1>6 DEF a, b

\* The last pass may go on over the same list.
LEMMA ContinueStay ==
    ASSUME TreesInv, Fits(Node, Lists, Scps, kind, passes), NEW p, p.over = Top.over,
           PassIn(Node, list, kind, p)
    PROVE  /\ Fits(Node, Lists, Scps, kind, Append(Front(passes), p))
           /\ Append(Front(passes), p)[Len(Append(Front(passes), p))] = p
  <1>1. TopIs
    BY TopFacts
  <1>2. Trees(Node, Lists, Scps)
    BY ForestHas DEF ForestOf
  <1>3. StaysOf(Node, Lists, Scps, passes, Node, Lists, Scps, kind, p)
    BY <1>1 DEF StaysOf, TopIs
  <1>4. Fits(Node, Lists, Scps, kind, Append(Front(passes), p))
    BY <1>2, <1>3, LowerStays
  <1>5. passes \in Seq(PassOf(Node)) /\ passes # <<>>
    BY <1>1 DEF TopIs
  <1> QED
    BY <1>4, <1>5, LastReplaced

\* Leaving an opening brace where it is keeps the stack.
LEMMA LeaveBraceStep ==
    ASSUME TreesInv, ScopingPasses, LeaveBrace
    PROVE  Fits(Node, Lists, Scps, kind, passes')
  <1>1. TopIs /\ Fits(Node, Lists, Scps, kind, passes)
    BY TopFacts DEF ScopingPasses
  <1> DEFINE p == Returned(Top, Top.at)
  <1>2. ~Passed /\ passes' = Append(Front(passes), p)
    BY DEF LeaveBrace, Scopes, Continue
  <1>3. BackOf(Node, list, Top, Top.at)
    <2>1. PassIn(Node, list, kind, Top) /\ Len(list) \in Nat /\ Top.at <= Len(list) /\ \A i \in 1 .. Top.at : list[i] = list[i]
      BY <1>1, <1>2 DEF TopIs
    <2> QED
      BY <2>1, BackHere
  <1>4. PassIn(Node, list, kind, p) /\ p.over = Top.over
    BY <1>3, ReturnedIn
  <1> HIDE DEF p
  <1> QED
    BY <1>1, <1>2, <1>4, ContinueStay

\* A new pass is as it must be.
LEMMA NewPass ==
    ASSUME NEW N, NEW n \in {0} \cup N, NEW l, NEW kd, Len(l) \in Nat
    PROVE  PassIn(N, l, kd, Pass(n)) /\ Pass(n).over = n
  <1>1. Pass(n) \in PassOf(N) /\ Pass(n).over = n /\ Pass(n).at = 1 /\ Pass(n).step = "begun" /\ Pass(n).held = <<>>
    BY DEF Pass, PassOf
  <1> QED
    BY <1>1 DEF PassIn

\* A pass over the children of a node keeps the stack: the one that waits knows where it
\* is.
LEMMA PassChildrenStep ==
    ASSUME TreesInv, ScopingPasses, PassChildren
    PROVE  Fits(Node, Lists, Scps, kind, passes')
  <1>1. TopIs /\ Fits(Node, Lists, Scps, kind, passes)
    BY TopFacts DEF ScopingPasses
  <1> DEFINE p == [Top EXCEPT !.step = "inner"]
             q == Pass(node)
             ps == Append(Front(passes), p)
  <1>2. ~Passed /\ passes' = Front(passes) \o <<p, q>> /\ Top.step = "begun"
    BY DEF PassChildren, Scopes
  <1>3. p.over = Top.over /\ PassIn(Node, list, kind, p) /\ p.step = "inner"
    <2>1. /\ Top \in PassOf(Node) /\ Top = Fields(Top, Top.at, Top.step, Top.held, Top.sub)
          /\ Top.at \in Nat \ {0} /\ Top.held \in Seq(Node) /\ Top.sub \in Nat
      BY <1>1, PassTyped DEF TopIs
    <2>2. p = Fields(Top, Top.at, "inner", Top.held, Top.sub)
      BY <2>1 DEF Fields
    <2>3. PassSetOf(Node, Top, Top.at, "inner", Top.held, Top.sub)
      BY <2>1 DEF PassSetOf
    <2> HIDE DEF p
    <2>4. p \in PassOf(Node) /\ p.over = Top.over /\ p.at = Top.at /\ p.step = "inner" /\ p.held = Top.held
      BY <2>2, <2>3, PassSet
    <2>5. PassIn(Node, list, kind, Top)
      BY <1>1 DEF TopIs
    <2>6. PassIn(Node, list, kind, p)
      BY <2>4, <2>5 DEF PassIn
    <2> QED
      BY <2>4, <2>6
  <1>4. passes' = Append(ps, q)
    <2>1. Front(passes) \in Seq(PassOf(Node))
      BY <1>1, FrontOf DEF TopIs
    <2> HIDE DEF p, q
    <2> QED
      BY <2>1, <1>2, TwoMore
  <1> HIDE DEF p
  <1>5. Fits(Node, Lists, Scps, kind, ps) /\ ps[Len(ps)] = p
    BY <1>1, <1>3, ContinueStay
  <1>6. PassIn(Node, Lists[q.over], kind, q) /\ q.over = node
    <2>1. node \in Node /\ Lists[node] \in Seq(Node)
      BY <1>1, <1>2, ForestHas DEF TopIs, ForestOf
    <2>2. Len(Lists[node]) \in Nat
      BY <2>1
    <2> QED
      BY <2>1, <2>2, NewPass
  <1>7. Within(Lists, Joint(Lists, Scps), ps[Len(ps)], q)
    <2>1. node \in Edges[Top.over]
      BY <1>1, <1>2 DEF TopIs
    <2> QED
      BY <2>1, <1>3, <1>5, <1>6 DEF Within, Edges
  <1> HIDE DEF q, ps
  <1>8. Fits(Node, Lists, Scps, kind, Append(ps, q))
    BY <1>5, <1>6, <1>7, PushFits
  <1> QED
    BY <1>4, <1>8

\* A pass with another place and other holders.
LEMMA ExceptAtHeld ==
    ASSUME NEW p, p = Fields(p, p.at, p.step, p.held, p.sub), NEW a, NEW h,
           NEW q, q = [p EXCEPT !.at = a, !.held = h]
    PROVE  q = Fields(p, a, p.step, h, p.sub)
  BY DEF Fields

\* A holder that waits for the node to the right keeps the stack.
LEMMA HoldNodeStep ==
    ASSUME TreesInv, ScopingPasses, HoldNode
    PROVE  Fits(Node, Lists, Scps, kind, passes')
  <1>1. TopIs /\ Fits(Node, Lists, Scps, kind, passes)
    BY TopFacts DEF ScopingPasses
  <1> DEFINE p == [Top EXCEPT !.at = @ + 1, !.held = Append(@, node)]
             h == Append(Top.held, node)
  <1>2. /\ ~Passed /\ passes' = Append(Front(passes), p) /\ Top.step = "begun"
        /\ Top.at < Len(list) /\ kind[list[Top.at + 1]] # "rbrace"
    BY DEF HoldNode, Scopes, Continue
  <1>3. /\ Top \in PassOf(Node) /\ Top = Fields(Top, Top.at, Top.step, Top.held, Top.sub)
        /\ Top.at \in Nat \ {0} /\ Top.held \in Seq(Node) /\ Top.sub \in Nat
    BY <1>1, PassTyped DEF TopIs
  <1>4. h \in Seq(Node) /\ Len(h) = Len(Top.held) + 1 /\ h[Len(Top.held) + 1] = node
        /\ \A i \in 1 .. Len(Top.held) : h[i] = Top.held[i]
    <2>1. node \in Node
      BY <1>1, <1>2 DEF TopIs
    <2> QED
      BY <2>1, <1>3, AppendOf
  <1>5. p = Fields(Top, Top.at + 1, "begun", h, Top.sub)
    <2> DEFINE t == Top
               a == Top.at + 1
    <2>1. p = [t EXCEPT !.at = a, !.held = h]
      OBVIOUS
    <2>2. t = Fields(t, t.at, t.step, t.held, t.sub) /\ t.step = "begun"
      BY <1>2, <1>3
    <2> HIDE DEF p, h, t, a
    <2>3. p = Fields(t, a, t.step, h, t.sub)
      BY ONLY Zenon, <2>1, <2>2, ExceptAtHeld
    <2> QED
      BY <2>2, <2>3 DEF t, a
  <1> HIDE DEF p, h
  <1>6. PassSetOf(Node, Top, Top.at + 1, "begun", h, Top.sub)
    BY <1>3, <1>4 DEF PassSetOf
  <1>7. p \in PassOf(Node) /\ p.over = Top.over /\ p.at = Top.at + 1 /\ p.step = "begun" /\ p.held = h
    BY <1>5, <1>6, PassSet
  <1>8. /\ Len(Top.held) < Top.at /\ Len(Top.held) \in Nat /\ Len(list) \in Nat
        /\ \A x \in 1 .. Len(Top.held) : Top.held[x] = list[Top.at - Len(Top.held) + x - 1]
        /\ node = list[Top.at]
    BY <1>1, <1>2 DEF TopIs, PassIn
  <1>9. \A x \in 1 .. Len(h) : h[x] = list[p.at - Len(h) + x - 1]
    <2> SUFFICES ASSUME NEW x \in 1 .. Len(h) PROVE h[x] = list[p.at - Len(h) + x - 1]
      OBVIOUS
    <2> DEFINE k == Len(Top.held)
               a == Top.at
    <2>1. k \in Nat /\ a \in Nat /\ Len(h) = k + 1 /\ p.at = a + 1 /\ x \in 1 .. k + 1
      BY <1>3, <1>4, <1>7, <1>8
    <2>2. p.at - Len(h) + x - 1 = a - k + x - 1
      BY SMTT(60), <2>1
    <2>3. CASE x = k + 1
      <3>1. h[x] = node
        BY <2>3, <1>4
      <3>2. a - k + x - 1 = a
        BY <2>1, <2>3
      <3>3. list[a - k + x - 1] = node
        BY <3>2, <1>8
      <3> QED
        BY <2>2, <3>1, <3>3
    <2>4. CASE x # k + 1
      <3>1. x \in 1 .. k
        BY <2>1, <2>4
      <3>2. h[x] = Top.held[x] /\ Top.held[x] = list[a - k + x - 1]
        BY <3>1, <1>4, <1>8
      <3> QED
        BY <2>2, <3>2
    <2> QED
      BY <2>3, <2>4
  <1>10. Len(h) < p.at /\ p.at <= Len(list) + 1 /\ p.at <= Len(list)
    BY SMTT(60), <1>2, <1>3, <1>4, <1>7, <1>8
  <1>11. kind[list[p.at]] # "rbrace"
    BY <1>2, <1>7
  <1>12. PassIn(Node, list, kind, p)
    BY <1>7, <1>9, <1>10, <1>11 DEF PassIn
  <1> QED
    BY <1>1, <1>2, <1>7, <1>12, ContinueStay

\* Passes of stage t that begin.
LEMMA TypingBegins ==
    ASSUME TreesInv, kids' = kids, result' = result, kind' = kind, left' = 0,
           passes' \in Seq(PassOf(Node)), passes' # <<>>,
           \A j \in 1 .. Len(passes') : passes'[j].at = 1 /\ passes'[j].step = "begun"
    PROVE  TypingPasses'
  <1> DEFINE ps == passes'
             t == ps[Len(ps)]
  <1>1. Len(ps) \in Nat /\ Len(ps) >= 1 /\ Last(ps) = t /\ t \in PassOf(Node)
    <2> DEFINE P == PassOf(Node)
    <2>1. ps \in Seq(P) /\ ps # <<>>
      OBVIOUS
    <2> HIDE DEF ps, P
    <2>2. Len(ps) \in Nat /\ Len(ps) >= 1 /\ ps[Len(ps)] \in P
      BY <2>1
    <2>3. Last(ps) = ps[Len(ps)]
      BY <2>1, FrontOf
    <2> QED
      BY <2>2, <2>3 DEF P
  <1>2. Top' = t /\ t.at = 1 /\ Node' = Node
    BY <1>1 DEF Top, Node
  <1>3. t.over \in {0} \cup Node
    BY <1>1, PassTyped
  <1>4. list' = ListOf(t.over)
    <2>2. list' = IF t.over = Root THEN result ELSE kids[t.over]
      BY <1>2 DEF list, ListOf
    <2> QED
      BY <2>2 DEF ListOf
  <1>5. Len(list') \in Nat
    <2> DEFINE z == t.over
    <2>1. /\ z \in {0} \cup Node
          /\ \A n \in {0} \cup Node : Lists[n] \in Seq(Node) /\ Lists[n] = ListOf(n)
      BY <1>3, ForestHas DEF ForestOf
    <2> HIDE DEF z
    <2>2. Lists[z] \in Seq(Node) /\ Lists[z] = ListOf(z)
      BY Zenon, <2>1
    <2>3. Len(ListOf(z)) \in Nat
      BY <2>2
    <2> QED
      BY <2>3, <1>4 DEF z
  <1>6. /\ ps \in Seq(PassOf(Node')) /\ ps # <<>>
        /\ (\A j \in 1 .. Len(ps) : ps[j].step \in {"begun", "second"})
        /\ (\A j \in 1 .. Len(ps) - 1 : ps[j].at = 1 /\ ps[j].step = "begun")
    BY <1>1, <1>2
  <1> HIDE DEF t
  <1>7. Top'.at <= Len(list') + 1 /\ (Top'.step = "begun" => left' = 0 \/ \E i \in 1 .. Top'.at - 1 : left' = list'[i])
    BY <1>2, <1>5
  <1> QED
    BY <1>6, <1>7 DEF TypingPasses

\* The end of a pass keeps the stack: the next scope, the pass before it, or the next
\* stage.
LEMMA EndPassStep ==
    ASSUME Typed, TreesInv, ScopingPasses, EndPass
    PROVE  \/ stage' = stage /\ Fits(Node, Lists, Scps, kind, passes')
           \/ stage' = "typing" /\ TypingPasses'
  <1>1. TopIs /\ Fits(Node, Lists, Scps, kind, passes)
    BY TopFacts DEF ScopingPasses
  <1>2. ForestOf
    BY ForestHas
  <1> DEFINE mine == scopes[Top.over]
             p == [Top EXCEPT !.sub = @ + 1]
             q == Pass(mine[Top.sub + 1])
             ps == Append(Front(passes), p)
  <1>3. CASE Top.sub < Len(mine)
    <2>1. passes' = Front(passes) \o <<p, q>> /\ stage' = stage /\ Passed
      BY <1>3 DEF EndPass
    <2>2. passes' = Append(ps, q)
      <3>1. Front(passes) \in Seq(PassOf(Node))
        BY <1>1, FrontOf DEF TopIs
      <3> HIDE DEF p, q
      <3> QED
        BY <3>1, <2>1, TwoMore
    <2>3. p.over = Top.over /\ p.at = Top.at /\ PassIn(Node, list, kind, p)
      <3>1. /\ Top \in PassOf(Node) /\ Top = Fields(Top, Top.at, Top.step, Top.held, Top.sub)
            /\ Top.at \in Nat \ {0} /\ Top.held \in Seq(Node) /\ Top.sub \in Nat
            /\ Top.step \in {"begun", "inner", "held", "second"}
        BY <1>1, PassTyped DEF TopIs
      <3>2. p = Fields(Top, Top.at, Top.step, Top.held, Top.sub + 1)
        BY <3>1 DEF Fields
      <3>3. PassSetOf(Node, Top, Top.at, Top.step, Top.held, Top.sub + 1)
        BY <3>1 DEF PassSetOf
      <3> HIDE DEF p
      <3>4. p \in PassOf(Node) /\ p.over = Top.over /\ p.at = Top.at /\ p.step = Top.step /\ p.held = Top.held
        BY <3>2, <3>3, PassSet
      <3>5. PassIn(Node, list, kind, Top)
        BY <1>1 DEF TopIs
      <3>6. PassIn(Node, list, kind, p)
        BY <3>4, <3>5 DEF PassIn
      <3> QED
        BY <3>4, <3>6
    <2> HIDE DEF p
    <2>4. Fits(Node, Lists, Scps, kind, ps) /\ ps[Len(ps)] = p
      BY <1>1, <2>3, ContinueStay
    <2> DEFINE s == mine[Top.sub + 1]
    <2>5. s \in Node /\ s \in Edges[Top.over]
      <3>1. mine = Scps[Top.over] /\ mine \in Seq(Node) /\ Range(mine) \subseteq Edges[Top.over]
        BY SMTT(60), <1>1, <1>2 DEF TopIs, ForestOf
      <3>2. Top.sub + 1 \in 1 .. Len(mine)
        BY <3>1, <1>1, <1>3 DEF TopIs
      <3> QED
        BY <3>1, <3>2, RangeOf
    <2> HIDE DEF s
    <2>6. PassIn(Node, Lists[q.over], kind, q) /\ q.over = s
      <3>1. Len(Lists[s]) \in Nat
        BY <2>5, <1>2 DEF ForestOf
      <3> QED
        BY ZenonT(60), <2>5, <3>1, NewPass DEF s
    <2> HIDE DEF q
    <2>7. Within(Lists, Joint(Lists, Scps), ps[Len(ps)], q)
      <3>1. ~(p.at <= Len(Lists[p.over]))
        BY <1>1, <2>1, <2>3 DEF TopIs, Passed
      <3> QED
        BY <3>1, <2>3, <2>4, <2>5, <2>6 DEF Within, Edges
    <2> HIDE DEF ps
    <2> QED
      BY <2>1, <2>2, <2>4, <2>6, <2>7, PushFits
  <1>4. CASE ~(Top.sub < Len(mine)) /\ Front(passes) # <<>>
    <2>1. passes' = Front(passes) /\ stage' = stage
      BY <1>4 DEF EndPass
    <2> QED
      BY <2>1, <1>1, <1>4, PopFits
  <1>5. CASE ~(Top.sub < Len(mine)) /\ Front(passes) = <<>>
    <2>1. passes' = <<Pass(Root)>> /\ stage' = "typing" /\ UNCHANGED vars
      BY <1>5 DEF EndPass
    <2> DEFINE r == Pass(Root)
    <2>2. r \in PassOf(Node) /\ r.at = 1 /\ r.step = "begun"
      BY DEF Pass, PassOf, Root
    <2> HIDE DEF r
    <2>3. /\ <<r>> \in Seq(PassOf(Node)) /\ <<r>> # <<>>
          /\ \A j \in 1 .. Len(<<r>>) : <<r>>[j].at = 1 /\ <<r>>[j].step = "begun"
      BY <2>2
    <2>4. kids' = kids /\ result' = result /\ kind' = kind /\ left' = 0
      BY <2>1 DEF vars, trees, ScopingPasses
    <2>5. TypingPasses'
      BY <2>1, <2>3, <2>4, TypingBegins DEF r
    <2> QED
      BY <2>1, <2>5
  <1> QED
    BY <1>3, <1>4, <1>5

-----------------------------------------------------------------------------
(* Those that take a brace, and a closing brace without an opening. *)

\* A node of the list moves to the end of another one's, of the same scope.
PlacedMoveOf(N, li, sc, kd, is, li2, p, q, x) ==
    /\ PlacementOf(N, li, sc, kd, is) /\ p \in {0} \cup N /\ x \in Range(li[p])
    /\ ForOf(kd, is, q) = ForOf(kd, is, p) /\ q # p
    /\ Range(li2[p]) \subseteq Range(li[p]) /\ Range(li2[q]) = Range(li[q]) \cup {x}
    /\ \A n \in {0} \cup N : n # p /\ n # q => li2[n] = li[n]

\* A node that moves to a list of the same scope is placed.
LEMMA PlacedMove ==
    ASSUME NEW N, NEW li, NEW sc, NEW kd, NEW is, NEW li2, NEW p, NEW q, NEW x,
           PlacedMoveOf(N, li, sc, kd, is, li2, p, q, x)
    PROVE  PlacementOf(N, li2, sc, kd, is)
  <1> USE DEF PlacedMoveOf
  <1> SUFFICES ASSUME NEW n \in {0} \cup N
               PROVE  /\ \A k \in Range(li2[n]) : kd[k] # "scope" /\ is[k] = ForOf(kd, is, n)
                      /\ \A k \in Range(sc[n]) : kd[k] = "scope"
    BY DEF PlacementOf
  <1>1. \A m \in {0} \cup N : /\ \A k \in Range(li[m]) : kd[k] # "scope" /\ is[k] = ForOf(kd, is, m)
                              /\ \A k \in Range(sc[m]) : kd[k] = "scope"
    BY DEF PlacementOf
  <1>2. CASE n = p
    BY <1>1, <1>2
  <1>3. CASE n = q
    BY <1>1, <1>3
  <1>4. CASE n # p /\ n # q
    BY <1>1, <1>4
  <1> QED
    BY <1>2, <1>3, <1>4

\* What the two handlers that take a brace have in common.
GivesTo(taker) ==
    /\ ~Passed /\ BraceNext /\ taker \in Node /\ taker \in Below(Edges, node)
    /\ ForOf(kind, inScope, taker) = ForOf(kind, inScope, Top.over)
    /\ Rewrite(RemoveAt(list, Top.at + 1), [kids EXCEPT ![taker] = Append(@, list[Top.at + 1])])
    /\ passes' = Append(Front(passes), Returned(Top, Top.at))
    /\ UNCHANGED <<program, kind, scopes, unary, parened, token, index, left, inScope>>

\* A node that takes the brace to the right keeps forest, placement and stack, whoever
\* takes it.
LEMMA GivesStep ==
    ASSUME TreesInv, Placement, ScopingPasses, NEW taker, GivesTo(taker)
    PROVE  TreesInv' /\ Placement' /\ ScopingPasses'
  <1>1. TopIs /\ Fits(Node, Lists, Scps, kind, passes)
    BY TopFacts DEF ScopingPasses
  <1>2. ForestOf
    BY ForestHas
  <1> DEFINE o == Top.over
             a == Top.at
             x == list[a + 1]
             v == RemoveAt(list, a + 1)
             li2 == [Lists EXCEPT ![o] = RemoveAt(Lists[o], a + 1), ![taker] = Append(Lists[taker], Lists[o][a + 1])]
             p == Returned(Top, a)
  <1>3. /\ ~Passed /\ taker \in Node /\ taker \in Below(Edges, node) /\ a < Len(list)
        /\ passes' = Append(Front(passes), p)
        /\ Node' = Node /\ kind' = kind /\ scopes' = scopes /\ inScope' = inScope /\ left' = left
        /\ Rewrite(v, [kids EXCEPT ![taker] = Append(@, x)])
        /\ ForOf(kind, inScope, taker) = ForOf(kind, inScope, o)
    BY DEF GivesTo, BraceNext, Node
  <1>4. /\ o \in {0} \cup Node /\ o \in Nat /\ a \in Nat /\ a >= 1 /\ a + 1 \in 1 .. Len(list) /\ a \in 1 .. Len(list)
        /\ list \in Seq(Node) /\ Len(list) \in Nat /\ Lists[o] = list /\ node = list[a] /\ x \in Node /\ x \in Range(list)
        /\ PassIn(Node, list, kind, Top) /\ passes # <<>> /\ passes \in Seq(PassOf(Node)) /\ Top = passes[Len(passes)]
        /\ node \in Edges[o]
    BY <1>1, <1>3 DEF TopIs
  <1>5. /\ Trees(Node, li2, Scps) /\ taker # o
        /\ li2[o] = v /\ li2[taker] = Append(Lists[taker], x) /\ Len(v) = Len(list) - 1
        /\ (\A k \in 1 .. Len(list) - 1 : v[k] = IF k < a + 1 THEN list[k] ELSE list[k + 1])
        /\ (\A n \in Nat : n # o /\ n # taker => li2[n] = Lists[n])
        /\ Range(li2[taker]) = Range(Lists[taker]) \cup {x}
    <2>1. OneOf(Node, Lists, Scps, li2, o, taker, a + 1, a)
      BY <1>3, <1>4 DEF OneOf, Edges
    <2>2. Trees(Node, Lists, Scps)
      BY <1>2 DEF ForestOf
    <2> HIDE DEF li2, v, x, a, o
    <2>3. /\ Trees(Node, li2, Scps) /\ taker # o
          /\ li2[o] = RemoveAt(Lists[o], a + 1) /\ li2[taker] = Append(Lists[taker], Lists[o][a + 1])
          /\ Len(li2[o]) = Len(Lists[o]) - 1
          /\ (\A k \in 1 .. Len(Lists[o]) - 1 : li2[o][k] = IF k < a + 1 THEN Lists[o][k] ELSE Lists[o][k + 1])
          /\ (\A n \in Nat : n # o /\ n # taker => li2[n] = Lists[n])
          /\ Range(li2[taker]) = Range(Lists[taker]) \cup {Lists[o][a + 1]}
      <3> DEFINE i == a + 1
      <3>1. OneOf(Node, Lists, Scps, li2, o, taker, i, a)
        BY <2>1
      <3> HIDE DEF i
      <3>2. TakeOneGives(Node, Lists, Scps, li2, o, taker, i)
        BY <3>1, <2>2, TakeOne
      <3> QED
        BY <3>2 DEF TakeOneGives, i
    <2>4. v = RemoveAt(Lists[o], a + 1) /\ x = Lists[o][a + 1] /\ Lists[o] = list
      BY <1>4 DEF v, x
    <2> QED
      BY <2>3, <2>4
  <1>6. Range(v) \subseteq Range(list)
    BY <1>4, RemoveOf
  <1> HIDE DEF li2, v, x, p, a
  <1>7. TreesInv' /\ Lists' = li2 /\ Scps' = Scps
    <2> DEFINE ch == [kids EXCEPT ![taker] = Append(@, x)]
    <2>1. kids \in [Node -> Seq(Node)] /\ (\A n \in Node : Lists[n] = kids[n]) /\ Lists[0] = result
          /\ scopes \in [{0} \cup Node -> Seq(Node)] /\ (\A n \in {0} \cup Node : Scps[n] = scopes[n])
          /\ 0 \notin Node /\ Node \subseteq Nat
      BY <1>2 DEF ForestOf
    <2>2. DOMAIN ch = Node /\ ch = [n \in Node |-> ch[n]]
      BY <2>1
    <2>3. \A n \in Node : n # o => ch[n] = li2[n]
      BY <2>1, <1>3, <1>5
    <2>4. o # 0 => li2[0] = result
      BY <2>1, <1>3, <1>5
    <2>5. DOMAIN scopes' = {0} \cup Node /\ scopes' = [n \in {0} \cup Node |-> scopes'[n]]
          /\ \A n \in {0} \cup Node : scopes'[n] = Scps[n]
      BY <2>1, <1>3
    <2>6. Rewrite(v, ch)
      BY <1>3
    <2> HIDE DEF ch
    <2> QED
      <3>1. RewrittenOf(Node, li2, Scps, v, ch)
        BY <1>3, <1>4, <1>5, <2>2, <2>3, <2>4, <2>5, <2>6 DEF RewrittenOf
      <3> QED
        BY <3>1, Rewritten DEF RewrittenGives
  <1>8. Placement'
    <2>1. PlacementOf(Node, Lists, Scps, kind, inScope)
      BY DEF Placement
    <2>2. Range(li2[o]) \subseteq Range(Lists[o]) /\ x \in Range(Lists[o])
      BY <1>4, <1>5, <1>6
    <2>3. \A n \in {0} \cup Node : n # o /\ n # taker => li2[n] = Lists[n]
      BY <1>2, <1>5 DEF ForestOf
    <2>4. PlacementOf(Node, li2, Scps, kind, inScope)
      <3>1. PlacedMoveOf(Node, Lists, Scps, kind, inScope, li2, o, taker, x)
        BY <1>3, <1>4, <1>5, <2>1, <2>2, <2>3 DEF PlacedMoveOf
      <3> QED
        BY <3>1, PlacedMove
    <2> QED
      BY <1>3, <1>7, <2>4 DEF Placement
  <1>9. ScopingPasses'
    <2>1. BackOf(Node, v, Top, Top.at)
      <3>1. /\ Len(v) \in Nat /\ Top.at <= Len(v)
        BY <1>4, <1>5 DEF a
      <3>2. \A i \in 1 .. a : i \in 1 .. Len(list) - 1 /\ i < a + 1
        BY <1>4
      <3>3. \A i \in 1 .. Top.at : v[i] = list[i]
        BY <3>2, <1>5 DEF a
      <3> QED
        BY ZenonT(60), <1>4, <3>1, <3>3, BackHere
    <2>2. PassIn(Node, v, kind, p) /\ p.over = o
      BY <2>1, ReturnedIn DEF p, a
    <2>3. \A n \in {0} \cup Node : n \notin Below(Edges, o) => li2[n] = Lists[n]
      <3>1. o \in Below(Edges, o) /\ Below(Edges, node) \subseteq Below(Edges, o)
        BY <1>2, <1>4, BelowFacts, BelowChild DEF ForestOf
      <3>2. \A n \in {0} \cup Node : n \in Nat
        BY <1>2 DEF ForestOf
      <3> QED
        BY <1>3, <1>5, <3>1, <3>2
    <2>4. StaysOf(Node, Lists, Scps, passes, Node, li2, Scps, kind, p)
      BY <1>4, <1>5, <2>2, <2>3 DEF StaysOf, Edges
    <2>5. Trees(Node, Lists, Scps)
      BY <1>2 DEF ForestOf
    <2>6. Fits(Node, li2, Scps, kind, Append(Front(passes), p))
      BY <1>1, <2>4, <2>5, LowerStays
    <2> QED
      BY <1>3, <1>7, <2>6 DEF ScopingPasses
  <1> QED
    BY <1>7, <1>8, <1>9

\* A step that moves nodes only keeps the types.
LEMMA TypedStays ==
    ASSUME Typed, UNCHANGED <<program, kind, unary, parened, token, index, inScope>>, left' \in {0} \cup Node
    PROVE  Typed'
  BY DEF Typed, Node, Token

\* A handler that does no more than return keeps the stack.
LEMMA ReturnStep ==
    ASSUME TreesInv, ScopingPasses, ~Passed, passes' = Append(Front(passes), Returned(Top, Top.at))
    PROVE  Fits(Node, Lists, Scps, kind, passes')
  <1>1. TopIs /\ Fits(Node, Lists, Scps, kind, passes)
    BY TopFacts DEF ScopingPasses
  <1> DEFINE p == Returned(Top, Top.at)
  <1>2. passes' = Append(Front(passes), p)
    OBVIOUS
  <1>3. BackOf(Node, list, Top, Top.at)
    <2>1. PassIn(Node, list, kind, Top) /\ Len(list) \in Nat /\ Top.at <= Len(list) /\ \A i \in 1 .. Top.at : list[i] = list[i]
      BY <1>1 DEF TopIs
    <2> QED
      BY <2>1, BackHere
  <1>4. PassIn(Node, list, kind, p) /\ p.over = Top.over
    BY <1>3, ReturnedIn
  <1> HIDE DEF p
  <1> QED
    BY <1>1, <1>2, <1>4, ContinueStay

\* The node of the pass, and its last child, are of the scope the pass is in.
LEMMA TakerFacts ==
    ASSUME TreesInv, Placement, ScopingPasses, ~Passed, NEW t,
           t = node \/ (kids[node] # <<>> /\ t = Last(kids[node]))
    PROVE  t \in Node /\ t \in Below(Edges, node) /\ ForOf(kind, inScope, t) = ForOf(kind, inScope, Top.over)
  <1>1. TopIs
    BY TopFacts DEF ScopingPasses
  <1>2. ForestOf
    BY ForestHas
  <1> DEFINE n == node
             o == Top.over
  <1>3. n \in Node /\ n \in Range(Lists[o]) /\ o \in {0} \cup Node
    BY <1>1 DEF TopIs
  <1>4. /\ Node \subseteq Nat /\ 0 \notin Node /\ Edges \in Edges0 /\ kids[n] \in Seq(Node) /\ Lists[n] = kids[n]
        /\ Range(kids[n]) \subseteq Edges[n]
    BY <1>2, <1>3 DEF ForestOf
  <1>5. /\ \A k \in Range(Lists[o]) : kind[k] # "scope" /\ inScope[k] = ForOf(kind, inScope, o)
        /\ \A k \in Range(Lists[n]) : kind[k] # "scope" /\ inScope[k] = ForOf(kind, inScope, n)
    BY <1>3 DEF Placement, PlacementOf
  <1> HIDE DEF n, o
  <1>6. kind[n] # "scope" /\ inScope[n] = ForOf(kind, inScope, o) /\ ForOf(kind, inScope, n) = inScope[n]
    BY <1>3, <1>4, <1>5 DEF ForOf
  <1>7. n \in Below(Edges, n)
    BY <1>3, <1>4, BelowFacts
  <1>8. CASE t = n
    BY <1>3, <1>6, <1>7, <1>8 DEF n, o
  <1>9. CASE kids[n] # <<>> /\ t = Last(kids[n])
    <2>1. t \in Range(kids[n]) /\ t \in Node
      BY <1>4, <1>9, FrontOf
    <2>2. t \in Below(Edges, n)
      <3>1. t \in Edges[n] /\ n \in Nat
        BY <2>1, <1>3, <1>4
      <3> QED
        BY <3>1, <1>4, BelowChild
    <2>3. kind[t] # "scope" /\ inScope[t] = ForOf(kind, inScope, n) /\ t # 0
      BY <2>1, <1>4, <1>5
    <2> QED
      BY <2>1, <2>2, <2>3, <1>6 DEF ForOf, n, o
  <1> QED
    BY <1>8, <1>9 DEF n

\* A node, or the last operand of an operator, that takes a brace keeps the invariant.
LEMMA TakeBraceStep ==
    ASSUME Typed, TreesInv, Placement, ScopingPasses, TakeBrace
    PROVE  Typed' /\ TreesInv' /\ Placement' /\ ScopingPasses'
  <1> DEFINE t == IF kind[node] \in Operators /\ kids[node] # <<>> THEN Last(kids[node]) ELSE node
  <1>1. /\ ~Passed /\ passes' = Append(Front(passes), Returned(Top, Top.at))
        /\ UNCHANGED <<program, kind, scopes, unary, parened, token, index, left, inScope>>
    BY DEF TakeBrace, Scopes, Continue
  <1>2. Typed'
    <2>1. left' \in {0} \cup Node
      BY <1>1 DEF Typed
    <2> QED
      BY <1>1, <2>1, TypedStays
  <1>3. CASE BraceNext
    <2>1. Rewrite(RemoveAt(list, Top.at + 1), [kids EXCEPT ![t] = Append(@, list[Top.at + 1])])
      BY <1>3 DEF TakeBrace
    <2>2. t = node \/ (kids[node] # <<>> /\ t = Last(kids[node]))
      OBVIOUS
    <2> HIDE DEF t
    <2>3. GivesTo(t)
      BY <1>1, <1>3, <2>1, <2>2, TakerFacts DEF GivesTo
    <2> QED
      BY <1>2, <2>3, GivesStep
  <1>4. CASE ~BraceNext
    <2>1. UNCHANGED vars
      BY <1>1, <1>4 DEF TakeBrace, vars, trees
    <2>2. TreesInv' /\ Placement' /\ ListsStay /\ left' = left
      BY <1>1, <2>1, SameLists
    <2>3. left = 0 /\ Fits(Node, Lists, Scps, kind, passes')
      BY <1>1, ReturnStep DEF ScopingPasses
    <2>4. ScopingPasses'
      BY <2>2, <2>3, FitsStay
    <2> QED
      BY <1>2, <2>2, <2>4
  <1> QED
    BY <1>3, <1>4

\* A holder that takes a brace keeps the invariant.
LEMMA HoldBraceStep ==
    ASSUME Typed, TreesInv, Placement, ScopingPasses, HoldBrace
    PROVE  Typed' /\ TreesInv' /\ Placement' /\ ScopingPasses'
  <1> DEFINE t == node
  <1>1. /\ ~Passed /\ passes' = Append(Front(passes), Returned(Top, Top.at))
        /\ UNCHANGED <<program, kind, scopes, unary, parened, token, index, left, inScope>>
    BY DEF HoldBrace, Scopes, Continue
  <1>2. Typed'
    <2>1. left' \in {0} \cup Node
      BY <1>1 DEF Typed
    <2> QED
      BY <1>1, <2>1, TypedStays
  <1>3. CASE BraceNext
    <2>1. Rewrite(RemoveAt(list, Top.at + 1), [kids EXCEPT ![t] = Append(@, list[Top.at + 1])])
      BY <1>3 DEF HoldBrace
    <2>2. t = node
      OBVIOUS
    <2> HIDE DEF t
    <2>3. GivesTo(t)
      BY <1>1, <1>3, <2>1, <2>2, TakerFacts DEF GivesTo
    <2> QED
      BY <1>2, <2>3, GivesStep
  <1>4. CASE ~BraceNext
    <2>1. UNCHANGED vars
      BY <1>1, <1>4 DEF HoldBrace, vars, trees
    <2>2. TreesInv' /\ Placement' /\ ListsStay /\ left' = left
      BY <1>1, <2>1, SameLists
    <2>3. left = 0 /\ Fits(Node, Lists, Scps, kind, passes')
      BY <1>1, ReturnStep DEF ScopingPasses
    <2>4. ScopingPasses'
      BY <2>2, <2>3, FitsStay
    <2> QED
      BY <1>2, <2>2, <2>4
  <1> QED
    BY <1>3, <1>4

\* The list of p loses nodes.
PlacedLessOf(N, li, sc, kd, is, li2, p) ==
    /\ PlacementOf(N, li, sc, kd, is)
    /\ Range(li2[p]) \subseteq Range(li[p]) /\ \A n \in {0} \cup N : n # p => li2[n] = li[n]

\* Nodes that leave a list leave the others placed.
LEMMA PlacedLess ==
    ASSUME NEW N, NEW li, NEW sc, NEW kd, NEW is, NEW li2, NEW p,
           PlacedLessOf(N, li, sc, kd, is, li2, p)
    PROVE  PlacementOf(N, li2, sc, kd, is)
  BY DEF PlacedLessOf, PlacementOf

\* The list of the pass loses nodes.
LosesTo(v) ==
    /\ Top.over \in {0} \cup Node /\ Lists[Top.over] = list
    /\ v \in Seq(Node) /\ Distinct(v) /\ Range(v) \subseteq Range(list)
    /\ Rewrite(v, kids) /\ UNCHANGED <<kind, scopes, inScope>>

\* A list that loses nodes keeps forest and placement, and no other list changes.
LEMMA LosesStep ==
    ASSUME TreesInv, Placement, NEW v, LosesTo(v)
    PROVE  /\ TreesInv' /\ Placement' /\ Lists' = [Lists EXCEPT ![Top.over] = v] /\ Scps' = Scps
           /\ Node' = Node /\ kind' = kind
           /\ [Lists EXCEPT ![Top.over] = v][Top.over] = v
           /\ \A n \in {0} \cup Node : n # Top.over => [Lists EXCEPT ![Top.over] = v][n] = Lists[n]
  <1> DEFINE o == Top.over
             li2 == [Lists EXCEPT ![o] = v]
  <1>1. ForestOf
    BY ForestHas
  <1>2. /\ o \in {0} \cup Node /\ Lists[o] = list /\ v \in Seq(Node) /\ Distinct(v) /\ Range(v) \subseteq Range(list)
        /\ Rewrite(v, kids) /\ kind' = kind /\ scopes' = scopes /\ inScope' = inScope
    BY DEF LosesTo
  <1>3. /\ Node' = Node /\ Node \subseteq Nat /\ 0 \notin Node /\ Trees(Node, Lists, Scps)
        /\ kids \in [Node -> Seq(Node)] /\ (\A n \in Node : Lists[n] = kids[n]) /\ Lists[0] = result
        /\ scopes \in [{0} \cup Node -> Seq(Node)] /\ (\A n \in {0} \cup Node : Scps[n] = scopes[n])
    BY <1>1, <1>2 DEF ForestOf, Node
  <1> HIDE DEF o
  <1>4. o \in Nat /\ (o \notin Node /\ o # 0 => v = <<>>)
    BY <1>2, <1>3
  <1>5. Trees(Node, li2, Scps)
    BY <1>2, <1>3, <1>4, DropFrom
  <1>6. li2[o] = v /\ (\A n \in Nat : n # o => li2[n] = Lists[n])
    <2>1. Lists \in [Nat -> Seq(Node)]
      BY <1>3 DEF Trees
    <2> QED
      BY <2>1, <1>4
  <1>10. \A n \in {0} \cup Node : n # o => li2[n] = Lists[n]
    BY <1>3, <1>6
  <1> HIDE DEF li2
  <1>7. TreesInv' /\ Lists' = li2 /\ Scps' = Scps
    <2>1. DOMAIN kids = Node /\ kids = [n \in Node |-> kids[n]] /\ (\A n \in Node : n # o => kids[n] = li2[n])
      BY <1>3, <1>6
    <2>2. o # 0 => li2[0] = result
      BY <1>3, <1>6
    <2>3. DOMAIN scopes' = {0} \cup Node /\ scopes' = [n \in {0} \cup Node |-> scopes'[n]]
          /\ \A n \in {0} \cup Node : scopes'[n] = Scps[n]
      BY <1>2, <1>3
    <2>4. RewrittenOf(Node, li2, Scps, v, kids)
      BY <1>2, <1>3, <1>5, <1>6, <2>1, <2>2, <2>3 DEF RewrittenOf, o
    <2> QED
      BY <2>4, Rewritten DEF RewrittenGives
  <1>8. Placement'
    <2>1. PlacedLessOf(Node, Lists, Scps, kind, inScope, li2, o)
      BY <1>2, <1>6, <1>10 DEF Placement, PlacedLessOf
    <2>2. PlacementOf(Node, li2, Scps, kind, inScope)
      BY <2>1, PlacedLess
    <2> QED
      BY <1>2, <1>3, <1>7, <2>2 DEF Placement
  <1> QED
    BY <1>2, <1>3, <1>6, <1>7, <1>8, <1>10 DEF li2, o

\* The end of a list and what was before it.
LEMMA RestOf ==
    ASSUME NEW S, NEW s \in Seq(S), Distinct(s), NEW c \in 1 .. Len(s), NEW r,
           r = Append(SubSeq(s, c + 1, Len(s)), s[c])
    PROVE  r \in Seq(S) /\ Distinct(r) /\ Range(r) \subseteq Range(s) /\ Len(r) \in Nat
  <1> DEFINE a == c + 1
             b == Len(s)
             t == SubSeq(s, a, b)
             x == s[c]
  <1>1. a \in Nat /\ b \in Nat /\ a >= 1 /\ b <= Len(s) /\ c \in 1 .. b /\ c < a
    OBVIOUS
  <1>2. x \in S /\ x \in Range(s)
    BY RangeOf
  <1>d. \A i, j \in 1 .. b : s[i] = s[j] => i = j
    BY DEF Distinct
  <1>r. r = Append(t, x)
    OBVIOUS
  <1> HIDE DEF a, b, x
  <1>3. t \in Seq(S) /\ Range(t) = {s[i] : i \in a .. b} /\ Range(t) \subseteq Range(s) /\ Distinct(t)
    <2>1. SubSeq(s, a, b) \in Seq(S) /\ Distinct(SubSeq(s, a, b))
          /\ Range(SubSeq(s, a, b)) = {s[k] : k \in a .. b} /\ Range(SubSeq(s, a, b)) \subseteq Range(s)
      BY ONLY s \in Seq(S), Distinct(s), <1>1, SubSeqOf
    <2> QED
      BY <2>1
  <1>4. x \notin Range(t)
    <2>1. \A i \in a .. b : i \in 1 .. b /\ i # c
      BY <1>1
    <2>2. \A i \in a .. b : s[i] # x
      BY <2>1, <1>1, <1>d DEF x
    <2> QED
      BY <2>2, <1>3
  <1> HIDE DEF t
  <1>5. Append(t, x) \in Seq(S) /\ Range(Append(t, x)) = Range(t) \cup {x} /\ Distinct(Append(t, x))
    BY <1>2, <1>3, <1>4, AppendOf
  <1>6. Len(r) \in Nat
    BY <1>5, <1>r
  <1> QED
    BY <1>2, <1>3, <1>5, <1>6, <1>r

\* A closing brace without an opening keeps the invariant where the compiler goes on.
LEMMA UnmatchedStep ==
    ASSUME Typed, TreesInv, Placement, ScopingPasses, Unmatched
    PROVE  /\ Typed' /\ TreesInv' /\ Placement'
           /\ stage' = stage => ScopingPasses'
           /\ stage' \in {stage, "failed"}
  <1>1. TopIs /\ Fits(Node, Lists, Scps, kind, passes)
    BY TopFacts DEF ScopingPasses
  <1>2. ForestOf
    BY ForestHas
  <1> DEFINE o == Top.over
             rest == Append(SubSeq(list, Top.at + 1, Len(list)), node)
             p == Returned(Top, Top.at)
             li2 == [Lists EXCEPT ![o] = rest]
  <1>3. /\ ~Passed /\ Top.step = "begun" /\ kind[node] = "rbrace" /\ stage = "scoping"
        /\ Rewrite(rest, kids) /\ passes' = Append(Front(passes), p)
        /\ stage' = (IF Top.at > Len(rest) THEN "failed" ELSE stage)
        /\ UNCHANGED <<program, kind, scopes, unary, parened, token, index, left, inScope>>
    BY DEF Unmatched, Scopes, Continue
  <1>4. /\ list \in Seq(Node) /\ Distinct(list) /\ Top.at \in 1 .. Len(list) /\ node = list[Top.at]
        /\ o \in {0} \cup Node /\ Lists[o] = list
        /\ passes # <<>> /\ passes \in Seq(PassOf(Node)) /\ Top = passes[Len(passes)] /\ Top \in PassOf(Node)
        /\ Top.at \in Nat /\ Top.at >= 1 /\ PassIn(Node, list, kind, Top)
    BY <1>1, <1>3 DEF TopIs
  <1>5. rest \in Seq(Node) /\ Distinct(rest) /\ Range(rest) \subseteq Range(list) /\ Len(rest) \in Nat
    <2> DEFINE c == Top.at
    <2>1. rest = Append(SubSeq(list, c + 1, Len(list)), list[c]) /\ c \in 1 .. Len(list)
      BY <1>4
    <2> HIDE DEF rest, c
    <2> QED
      BY ZenonT(60), <1>4, <2>1, RestOf
  <1>6. Typed'
    <2>1. left' \in {0} \cup Node
      BY <1>3 DEF Typed
    <2> QED
      BY <1>3, <2>1, TypedStays
  <1> HIDE DEF rest
  <1>7. LosesTo(rest)
    BY <1>3, <1>4, <1>5 DEF LosesTo
  <1>8. /\ TreesInv' /\ Placement' /\ Lists' = li2 /\ Scps' = Scps /\ Node' = Node /\ kind' = kind
        /\ li2[o] = rest /\ \A n \in {0} \cup Node : n # o => li2[n] = Lists[n]
    BY <1>7, LosesStep
  <1>9. ASSUME stage' = stage PROVE ScopingPasses'
    <2>1. Top.held = <<>> /\ Top.at <= Len(rest)
      <3>1. Top.at <= Len(rest)
        BY <1>3, <1>4, <1>5, <1>9
      <3>2. Top.held = <<>>
        BY <1>3, <1>4 DEF PassIn
      <3> QED
        BY <3>1, <3>2
    <2>2. BackOf(Node, rest, Top, Top.at)
      BY <2>1, <1>4, <1>5 DEF BackOf
    <2>3. PassIn(Node, rest, kind, p) /\ p.over = o
      BY <2>2, ReturnedIn
    <2> HIDE DEF p, li2, o
    <2>4. \A n \in {0} \cup Node : n \notin Below(Edges, o) => li2[n] = Lists[n]
      <3>1. o \in Below(Edges, o)
        BY <1>2, <1>4, BelowFacts DEF ForestOf
      <3> QED
        BY <1>8, <3>1
    <2>5. StaysOf(Node, Lists, Scps, passes, Node, li2, Scps, kind, p)
      BY <1>4, <1>8, <2>3, <2>4 DEF StaysOf, Edges, o
    <2>6. Trees(Node, Lists, Scps)
      BY <1>2 DEF ForestOf
    <2>7. Fits(Node, li2, Scps, kind, Append(Front(passes), p))
      BY <1>1, <2>5, <2>6, LowerStays
    <2>8. left' = 0
      BY <1>3 DEF ScopingPasses
    <2> QED
      BY <1>3, <1>8, <2>7, <2>8 DEF ScopingPasses
  <1> QED
    BY <1>3, <1>6, <1>8, <1>9

-----------------------------------------------------------------------------
(* place_node_in_scope, and the scope around the node of a holder. *)

\* All the trees that have their roots in M.
Grove(M) == UNION {Below(Kid, k) : k \in M}

\* The trees place_node_in_scope walks are closed, have no scope among them, and hang in
\* lists by their roots only.
LEMMA GroveFacts ==
    ASSUME TreesInv, Placement, NEW M \in SUBSET Node, \A k \in M : kind[k] # "scope"
    PROVE  /\ Grove(M) \subseteq Node /\ M \subseteq Grove(M) /\ 0 \notin Grove(M)
           /\ \A m \in Grove(M) : kind[m] # "scope" /\ Range(Lists[m]) \subseteq Grove(M)
           /\ \A n \in {0} \cup Node, x \in Node :
                  n \notin Grove(M) /\ x \in Range(Lists[n]) /\ x \in Grove(M) => x \in M
  <1> DEFINE G == Grove(M)
             S == {m \in Node : kind[m] # "scope"}
  <1>1. /\ Kid \in Edges0 /\ OneParent(Kid) /\ Node \subseteq Nat /\ 0 \notin Node
        /\ \A n \in {0} \cup Node : Kid[n] = Range(Lists[n]) /\ Kid[n] \subseteq Node
        /\ \A n \in Node : Below(Kid, n) \subseteq Node /\ n \in Below(Kid, n)
    BY KidFacts, ForestHas DEF ForestOf
  <1>2. G \subseteq Node /\ M \subseteq G
    BY <1>1 DEF Grove
  <1>3. DownClosed(Kid, G)
    <2>1. M \in SUBSET Nat
      BY <1>1
    <2> QED
      BY <1>1, <2>1, UnionClosed DEF Grove
  <1>4. DownClosed(Kid, S)
    BY <1>1 DEF DownClosed, Placement, PlacementOf
  <1>5. \A k \in M : Below(Kid, k) \subseteq S
    <2> SUFFICES ASSUME NEW k \in M PROVE Below(Kid, k) \subseteq S
      OBVIOUS
    <2>1. k \in Nat /\ k \in S /\ S \in SUBSET Nat
      BY <1>1
    <2> HIDE DEF S
    <2> QED
      BY <1>1, <1>4, <2>1, BelowLeast
  <1>6. \A m \in G : kind[m] # "scope"
    BY <1>5 DEF Grove
  <1>7. \A m \in G : Range(Lists[m]) \subseteq G
    BY <1>1, <1>2, <1>3 DEF DownClosed
  <1>8. ASSUME NEW n \in {0} \cup Node, NEW x \in Node, n \notin G, x \in Range(Lists[n]), x \in G
        PROVE  x \in M
    <2>1. PICK k \in M : x \in Below(Kid, k)
      BY <1>8 DEF Grove
    <2>2. n \in Nat /\ k \in Nat /\ x \in Kid[n]
      BY <1>1, <1>8
    <2>3. x # k => n \in Below(Kid, k)
      BY <1>1, <2>1, <2>2, BelowParent
    <2>4. n \notin Below(Kid, k)
      BY <1>8 DEF Grove
    <2> QED
      BY <2>1, <2>3, <2>4
  <1> HIDE DEF G
  <1>9. 0 \notin G
    BY <1>1, <1>2
  <1> QED
    BY <1>2, <1>6, <1>7, <1>8, <1>9 DEF G

\* The trees get the scope s.
LEMMA PlacedIs ==
    ASSUME TreesInv, Placement, inScope \in [Node -> {Root} \cup Node],
           NEW M \in SUBSET Node, \A k \in M : kind[k] # "scope", NEW s
    PROVE  /\ DOMAIN Placed(M, s) = Node
           /\ \A m \in Node : Placed(M, s)[m] = IF m \in Grove(M) THEN s ELSE inScope[m]
  <1> DEFINE T == UNION {Tree(m) : m \in M}
  <1>1. T = Grove(M)
    <2>1. \A m \in M : Tree(m) = Below(Kid, m)
      BY TreeIs
    <2> QED
      BY <2>1 DEF Grove
  <1>2. Grove(M) \subseteq Node
    BY GroveFacts
  <1>4. Placed(M, s) = [n \in Node |-> IF n \in T THEN s ELSE inScope[n]]
    BY DEF Placed
  <1> QED
    BY <1>1, <1>4

\* The trees G, the list of s among them, get the scope s, and nothing else does.
PlacedTreesOf(N, li, sc, kd, is, s, G, is2) ==
    /\ s \in N /\ kd[s] = "scope" /\ s # 0
    /\ Range(li[s]) \subseteq G /\ (\A m \in G : Range(li[m]) \subseteq G /\ kd[m] # "scope" /\ m # 0)
    /\ (\A n \in {0} \cup N : n \notin G /\ n # s => Range(li[n]) \cap G = {})
    /\ (\A n \in {0} \cup N : n # s => \A k \in Range(li[n]) : kd[k] # "scope" /\ is[k] = ForOf(kd, is, n))
    /\ (\A n \in {0} \cup N : \A k \in Range(sc[n]) : kd[k] = "scope")
    /\ (\A n \in {0} \cup N : Range(li[n]) \subseteq N)
    /\ (\A m \in N : is2[m] = IF m \in G THEN s ELSE is[m])

\* When whole trees are placed in the scope whose list they are in, every node is in the
\* scope it is under.
LEMMA PlacedTrees ==
    ASSUME NEW N, NEW li, NEW sc, NEW kd, NEW is, NEW s, NEW G, NEW is2,
           PlacedTreesOf(N, li, sc, kd, is, s, G, is2)
    PROVE  PlacementOf(N, li, sc, kd, is2)
  <1> USE DEF PlacedTreesOf
  <1> SUFFICES ASSUME NEW n \in {0} \cup N
               PROVE  /\ \A k \in Range(li[n]) : kd[k] # "scope" /\ is2[k] = ForOf(kd, is2, n)
                      /\ \A k \in Range(sc[n]) : kd[k] = "scope"
    BY DEF PlacementOf
  <1>1. \A k \in Range(sc[n]) : kd[k] = "scope"
    OBVIOUS
  <1>2. ASSUME NEW k \in Range(li[n]) PROVE kd[k] # "scope" /\ is2[k] = ForOf(kd, is2, n)
    <2>1. k \in N
      OBVIOUS
    <2>2. CASE n = s
      BY <2>1, <2>2 DEF ForOf
    <2>3. CASE n # s /\ n \in G
      <3>1. k \in G /\ n \in N /\ n # 0 /\ kd[n] # "scope"
        BY <2>3
      <3> QED
        BY <2>1, <3>1 DEF ForOf
    <2>4. CASE n # s /\ n \notin G
      <3>1. k \notin G
        BY <2>4
      <3>2. kd[k] # "scope" /\ is[k] = ForOf(kd, is, n) /\ is2[k] = is[k]
        BY <2>1, <2>4, <3>1
      <3>3. ForOf(kd, is2, n) = ForOf(kd, is, n)
        BY <2>4 DEF ForOf
      <3> QED
        BY <3>2, <3>3
    <2> QED
      BY <2>2, <2>3, <2>4
  <1> QED
    BY <1>1, <1>2

\* A function with a value for one more node.
LEMMA WithIn ==
    ASSUME NEW D, NEW R, NEW f \in [D -> R], NEW n, NEW S, NEW v \in S, R \subseteq S
    PROVE  With(f, n, v) \in [D \cup {n} -> S]
  BY DEF With

\* What Wrap does, with the node, the holder and the new node named.
WrapIs(o, a, l, h, x, new, v) ==
    /\ o = Top.over /\ a = Top.at /\ l = list /\ h = Last(Top.held) /\ x = node
    /\ new = Len(kind) + 1 /\ v = RemoveAt(l, a)

\* What is known of them.
WrapHas(o, a, l, h, x, new, v) ==
    /\ o \in {0} \cup Node /\ o \in Nat /\ a \in Nat /\ a - 1 \in Nat /\ a - 1 \in 1 .. Len(l) /\ a \in 1 .. Len(l)
    /\ l \in Seq(Node) /\ Len(l) \in Nat /\ Distinct(l) /\ Lists[o] = l
    /\ h \in Range(l) /\ h = l[a - 1] /\ x = l[a] /\ x \in Range(l) /\ h # x /\ h \in Node /\ x \in Node
    /\ new \in Nat /\ new # 0 /\ new \notin Node /\ 1 .. new = Node \cup {new}
    /\ v \in Seq(Node) /\ Distinct(v) /\ Range(v) \subseteq Range(l) \ {x} /\ Len(v) = Len(l) - 1
    /\ \A j \in 1 .. Len(l) - 1 : v[j] = IF j < a THEN l[j] ELSE l[j + 1]

\* What is known of the holder, its node and the new scope.
LEMMA WrapFacts ==
    ASSUME Typed, TreesInv, ScopingPasses, ~Passed, Top.step = "held",
           NEW o, NEW a, NEW l, NEW h, NEW x, NEW new, NEW v, WrapIs(o, a, l, h, x, new, v)
    PROVE  WrapHas(o, a, l, h, x, new, v)
  <1>1. TopIs
    BY TopFacts DEF ScopingPasses
  <1>2. o = Top.over /\ a = Top.at /\ l = list /\ h = Last(Top.held) /\ x = node
        /\ new = Len(kind) + 1 /\ v = RemoveAt(l, a)
    BY DEF WrapIs
  <1> DEFINE hs == Top.held
             k == Len(hs)
  <1>3. /\ o \in {0} \cup Node /\ o \in Nat /\ a \in Nat /\ a \in 1 .. Len(l)
        /\ l \in Seq(Node) /\ Len(l) \in Nat /\ Distinct(l) /\ Lists[o] = l
        /\ x = l[a] /\ x \in Range(l) /\ x \in Node
    BY <1>1, <1>2 DEF TopIs
  <1>4. hs \in Seq(Node) /\ hs # <<>> /\ k < a /\ \A y \in 1 .. k : hs[y] = l[a - k + y - 1]
    BY <1>1, <1>2 DEF TopIs, PassIn
  <1>5. h = hs[k] /\ k \in Nat /\ k >= 1 /\ h \in Node
    <2>1. hs \in Seq(Node) /\ hs # <<>> /\ h = Last(hs)
      BY <1>2, <1>4
    <2> HIDE DEF hs
    <2>2. Last(hs) = hs[Len(hs)] /\ Last(hs) \in Node /\ Len(hs) >= 1 /\ Len(hs) \in Nat
      BY <2>1, FrontOf
    <2> QED
      BY <2>1, <2>2
  <1> HIDE DEF hs, k
  <1>6. h = l[a - 1] /\ a - 1 \in 1 .. Len(l) /\ a - 1 \in Nat
    <2>1. k \in 1 .. k /\ a - k + k - 1 = a - 1
      BY <1>3, <1>5
    <2>2. h = l[a - k + k - 1]
      BY <2>1, <1>4, <1>5
    <2> QED
      <3>1. k < a
        BY <1>4
      <3>2. a - 1 \in 1 .. Len(l) /\ a - 1 \in Nat
        BY ONLY <3>1, <1>3, <1>5
      <3> QED
        BY <2>1, <2>2, <3>2
  <1>7. h # x /\ h \in Range(l)
    <2>1. h \in Range(l)
      BY <1>6, <1>3, RangeOf
    <2>2. \A i, j \in 1 .. Len(l) : l[i] = l[j] => i = j
      BY <1>3 DEF Distinct
    <2> QED
      BY <2>1, <2>2, <1>6, <1>3
  <1>8. new \in Nat /\ new # 0 /\ new \notin Node /\ 1 .. new = Node \cup {new}
    <2>1. Len(kind) \in Nat
      BY DEF Typed
    <2> QED
      BY <2>1, <1>2 DEF Node
  <1>9. /\ v \in Seq(Node) /\ Distinct(v) /\ Range(v) \subseteq Range(l) /\ x \notin Range(v) /\ Len(v) = Len(l) - 1
        /\ \A j \in 1 .. Len(l) - 1 : v[j] = IF j < a THEN l[j] ELSE l[j + 1]
    <2>1. v = RemoveAt(l, a) /\ l \in Seq(Node) /\ a \in 1 .. Len(l) /\ Distinct(l) /\ x = l[a]
      BY <1>2, <1>3
    <2>2. /\ RemoveAt(l, a) \in Seq(Node) /\ Distinct(RemoveAt(l, a)) /\ Range(RemoveAt(l, a)) \subseteq Range(l)
          /\ l[a] \notin Range(RemoveAt(l, a)) /\ Len(RemoveAt(l, a)) = Len(l) - 1
          /\ \A j \in 1 .. Len(l) - 1 : RemoveAt(l, a)[j] = IF j < a THEN l[j] ELSE l[j + 1]
      BY ONLY <2>1, RemoveOf
    <2> QED
      BY ONLY <2>1, <2>2
  <1> QED
    BY Zenon, <1>3, <1>5, <1>6, <1>7, <1>8, <1>9 DEF WrapHas

\* The lists after that.
WrapLists(o, x, new, v) == [Lists EXCEPT ![o] = v, ![new] = <<x>>]

\* The scopes after that.
WrapScps(h, new) == [Scps EXCEPT ![h] = Append(Scps[h], new)]

\* What is known of both.
WrapNew(o, h, x, new, v, li, sc) ==
    /\ Trees(Node \cup {new}, li, sc) /\ h # o /\ o # new /\ li[o] = v /\ li[new] = <<x>>
    /\ (\A n \in {0} \cup Node : n # o => li[n] = Lists[n])
    /\ Range(sc[h]) = Range(Scps[h]) \cup {new} /\ sc[h] = Append(Scps[h], new) /\ sc[new] = <<>>
    /\ (\A n \in {0} \cup Node : n # h => sc[n] = Scps[n])

\* The lists with the new scope are a forest.
LEMMA WrapTrees ==
    ASSUME TreesInv, NEW o, NEW a, NEW l, NEW h, NEW x, NEW new, NEW v, WrapHas(o, a, l, h, x, new, v),
           NEW li, li = WrapLists(o, x, new, v), NEW sc, sc = WrapScps(h, new)
    PROVE  WrapNew(o, h, x, new, v, li, sc)
  <1>1. ForestOf
    BY ForestHas
  <1>2. Trees(Node, Lists, Scps) /\ Node \subseteq Nat
    BY <1>1 DEF ForestOf
  <1>3. WrapOf(Node, Lists, Scps, li, sc, o, h, x, new, v)
    BY DEF WrapHas, WrapOf, WrapLists, WrapScps
  <1>4. /\ Trees(Node \cup {new}, li, sc) /\ h \in Node /\ x \in Node /\ h # o
        /\ li[o] = v /\ li[new] = <<x>> /\ (\A n \in Nat : n # o /\ n # new => li[n] = Lists[n])
        /\ sc[h] = Append(Scps[h], new) /\ Range(sc[h]) = Range(Scps[h]) \cup {new}
        /\ (\A n \in Nat : n # h => sc[n] = Scps[n])
    <2>1. WrapGives(Node, Lists, Scps, li, sc, o, h, x, new, v)
      BY <1>2, <1>3, WrapTree
    <2> QED
      BY <2>1 DEF WrapGives
  <1>5. new \in Nat /\ new \notin Node /\ new # 0 /\ o \in {0} \cup Node
    BY DEF WrapHas
  <1>6. sc[new] = <<>>
    <2>1. Scps[new] = <<>>
      BY <1>2, <1>5 DEF Trees
    <2> QED
      BY <2>1, <1>4, <1>5
  <1>7. \A n \in {0} \cup Node : n \in Nat /\ n # new
    BY <1>2, <1>5
  <1> QED
    BY <1>4, <1>5, <1>6, <1>7 DEF WrapNew

\* The lists become what they are after that.
LEMMA WrapState ==
    ASSUME TreesInv, NEW o, NEW a, NEW l, NEW h, NEW x, NEW new, NEW v, WrapHas(o, a, l, h, x, new, v),
           o = Top.over, NEW li, NEW sc, WrapNew(o, h, x, new, v, li, sc),
           Rewrite(v, With(kids, new, <<x>>)), Node' = Node \cup {new},
           scopes' = With([scopes EXCEPT ![h] = Append(@, new)], new, <<>>)
    PROVE  TreesInv' /\ Lists' = li /\ Scps' = sc
  <1>1. ForestOf
    BY ForestHas
  <1> DEFINE N2 == Node \cup {new}
             ch == With(kids, new, <<x>>)
             s1 == [scopes EXCEPT ![h] = Append(@, new)]
             s2 == scopes'
  <1>2. /\ kids \in [Node -> Seq(Node)] /\ (\A n \in Node : Lists[n] = kids[n]) /\ Lists[0] = result
        /\ scopes \in [{0} \cup Node -> Seq(Node)] /\ (\A n \in {0} \cup Node : Scps[n] = scopes[n])
    BY <1>1 DEF ForestOf
  <1>3. new \in Nat /\ new # 0 /\ new \notin Node /\ o \in {0} \cup Node /\ h \in Node
    BY DEF WrapHas
  <1>4. /\ Trees(N2, li, sc) /\ h # o /\ o # new /\ li[o] = v /\ li[new] = <<x>>
        /\ (\A n \in {0} \cup Node : n # o => li[n] = Lists[n])
        /\ sc[h] = Append(Scps[h], new) /\ sc[new] = <<>>
        /\ (\A n \in {0} \cup Node : n # h => sc[n] = Scps[n])
    BY DEF WrapNew
  <1>5. DOMAIN ch = N2 /\ ch = [n \in N2 |-> ch[n]] /\ ch[new] = <<x>> /\ \A n \in Node : n # new => ch[n] = kids[n]
    <2>1. DOMAIN kids = Node
      BY <1>2
    <2> QED
      BY <2>1 DEF With
  <1>6. /\ DOMAIN s2 = {0} \cup N2 /\ s2 = [n \in {0} \cup N2 |-> s2[n]]
        /\ s2[new] = <<>> /\ \A n \in {0} \cup Node : s2[n] = IF n = h THEN Append(scopes[h], new) ELSE scopes[n]
    <2>1. DOMAIN s1 = {0} \cup Node /\ \A n \in {0} \cup Node : s1[n] = IF n = h THEN Append(scopes[h], new) ELSE scopes[n]
      BY <1>2, <1>3
    <2>2. s2 = With(s1, new, <<>>)
      OBVIOUS
    <2> HIDE DEF s1, s2
    <2>3. /\ DOMAIN s2 = ({0} \cup Node) \cup {new} /\ s2 = [n \in ({0} \cup Node) \cup {new} |-> s2[n]]
          /\ s2[new] = <<>> /\ \A n \in {0} \cup Node : n # new => s2[n] = s1[n]
      BY <2>1, <2>2 DEF With
    <2>4. ({0} \cup Node) \cup {new} = {0} \cup N2
      OBVIOUS
    <2>5. \A n \in {0} \cup Node : n # new
      BY <1>3
    <2> HIDE DEF N2
    <2>6. DOMAIN s2 = {0} \cup N2 /\ s2 = [n \in {0} \cup N2 |-> s2[n]]
      BY <2>3, <2>4
    <2> QED
      BY <2>1, <2>3, <2>5, <2>6
  <1> HIDE DEF ch, s2
  <1>7. \A n \in N2 : n # o => ch[n] = li[n]
    <2> SUFFICES ASSUME NEW n \in N2, n # o PROVE ch[n] = li[n]
      OBVIOUS
    <2>1. CASE n = new
      BY <2>1, <1>4, <1>5
    <2>2. CASE n # new
      <3>1. n \in Node
        BY <2>2
      <3> QED
        BY <2>2, <3>1, <1>2, <1>4, <1>5
    <2> QED
      BY <2>1, <2>2
  <1>8. \A n \in {0} \cup N2 : s2[n] = sc[n]
    <2> SUFFICES ASSUME NEW n \in {0} \cup N2 PROVE s2[n] = sc[n]
      OBVIOUS
    <2>1. CASE n = new
      BY <2>1, <1>4, <1>6
    <2>2. CASE n # new
      <3>1. n \in {0} \cup Node
        BY <2>2
      <3>2. Scps[n] = scopes[n] /\ Scps[h] = scopes[h]
        BY <3>1, <1>2, <1>3
      <3> QED
        BY <3>1, <3>2, <1>4, <1>6
    <2> QED
      BY <2>1, <2>2
  <1>9. o # 0 => li[0] = result
    BY <1>2, <1>4
  <1>10. RewrittenOf(N2, li, sc, v, ch)
    <2>1. Rewrite(v, ch) /\ Node' = N2
      BY DEF ch
    <2>2. Top.over \in {0} \cup N2 /\ li[Top.over] = v
      BY <1>3, <1>4
    <2>3. DOMAIN scopes' = {0} \cup N2 /\ scopes' = [n \in {0} \cup N2 |-> scopes'[n]]
      BY <1>6 DEF s2
    <2>4. \A n \in {0} \cup N2 : scopes'[n] = sc[n]
      BY <1>8 DEF s2
    <2> HIDE DEF N2
    <2> QED
      BY <1>4, <1>5, <1>7, <1>9, <2>1, <2>2, <2>3, <2>4 DEF RewrittenOf
  <1> QED
    BY <1>10, Rewritten DEF RewrittenGives

\* The body and what is below it are in the new scope.
LEMMA WrapPlaced ==
    ASSUME TreesInv, Placement, inScope \in [Node -> {Root} \cup Node],
           NEW o, NEW a, NEW l, NEW h, NEW x, NEW new, NEW v, WrapHas(o, a, l, h, x, new, v),
           NEW li, NEW sc, WrapNew(o, h, x, new, v, li, sc), NEW kd, kd[new] = "scope",
           \A n \in Node : kd[n] = kind[n],
           NEW is, is = With(Placed({x}, new), new, Root)
    PROVE  PlacementOf(Node \cup {new}, li, sc, kd, is)
  <1> DEFINE G == Grove({x})
             N2 == Node \cup {new}
             pl == Placed({x}, new)
  <1>1. /\ o \in {0} \cup Node /\ Lists[o] = l /\ x \in Range(l) /\ x \in Node /\ h \in Node
        /\ new \in Nat /\ new # 0 /\ new \notin Node /\ Range(v) \subseteq Range(l) \ {x}
    BY DEF WrapHas
  <1>2. /\ h # o /\ o # new /\ li[o] = v /\ li[new] = <<x>>
        /\ (\A n \in {0} \cup Node : n # o => li[n] = Lists[n])
        /\ Range(sc[h]) = Range(Scps[h]) \cup {new} /\ sc[new] = <<>>
        /\ (\A n \in {0} \cup Node : n # h => sc[n] = Scps[n])
    BY DEF WrapNew
  <1>3. \A n \in {0} \cup Node : /\ \A k \in Range(Lists[n]) : kind[k] # "scope" /\ inScope[k] = ForOf(kind, inScope, n)
                                 /\ \A k \in Range(Scps[n]) : kind[k] = "scope"
    BY DEF Placement, PlacementOf
  <1>4. /\ G \subseteq Node /\ x \in G /\ 0 \notin G
        /\ \A m \in G : kind[m] # "scope" /\ Range(Lists[m]) \subseteq G
        /\ \A n \in {0} \cup Node, y \in Node : n \notin G /\ y \in Range(Lists[n]) /\ y \in G => y = x
    <2>1. {x} \in SUBSET Node /\ \A k \in {x} : kind[k] # "scope"
      BY <1>1, <1>3
    <2> QED
      BY <2>1, GroveFacts
  <1>5. DOMAIN pl = Node /\ \A m \in Node : pl[m] = IF m \in G THEN new ELSE inScope[m]
    <2>1. {x} \in SUBSET Node /\ \A k \in {x} : kind[k] # "scope"
      BY <1>1, <1>3
    <2> QED
      BY <2>1, PlacedIs
  <1>6. ForestOf
    BY ForestHas
  <1>7. \A n \in {0} \cup Node : Range(Lists[n]) \subseteq Node /\ Range(Scps[n]) \subseteq Node /\ Distinct(Lists[n])
    BY <1>6 DEF ForestOf
  <1> HIDE DEF G
  <1>8. is[new] = 0 /\ \A m \in Node : is[m] = IF m \in G THEN new ELSE inScope[m]
    <2> HIDE DEF pl
    <2>1. is = With(pl, new, Root)
      BY DEF pl
    <2>2. is[new] = Root /\ \A m \in Node : m # new => is[m] = pl[m]
      BY Zenon, <1>5, <2>1 DEF With
    <2> QED
      BY <2>2, <1>5, <1>1 DEF Root
  <1> HIDE DEF pl
  <1>9. Range(li[new]) = {x} /\ Range(sc[new]) = {}
    <2>1. Range(<<x>>) = {x}
      BY DEF Range
    <2> QED
      BY <2>1, <1>2, EmptyOf
  <1>10. \A n \in {0} \cup Node : Range(li[n]) \subseteq Range(Lists[n])
    BY <1>1, <1>2
  <1>11. o \notin G
    \* the parent of x is not below it
    <2>1. x \in Range(Lists[o]) /\ o \in Nat /\ x \in Nat /\ Kid \in Edges0 /\ Acyclic(Kid) /\ x \in Kid[o]
      BY <1>1, <1>6, KidFacts DEF ForestOf
    <2>2. o \notin Below(Kid, x)
      BY <2>1, NotBelowChild
    <2>3. G = Below(Kid, x)
      BY DEF G, Grove
    <2> QED
      BY <2>2, <2>3
  <1>12. \A n \in {0} \cup Node : n \notin G => Range(li[n]) \cap G = {}
    <2> SUFFICES ASSUME NEW n \in {0} \cup Node, n \notin G, NEW y \in Range(li[n]), y \in G PROVE FALSE
      OBVIOUS
    <2>1. y \in Range(Lists[n]) /\ y \in Node
      BY <1>7, <1>10
    <2>2. y = x
      BY <2>1, <1>4
    <2>3. n = o
      <3>1. OneParent(Kid) /\ Kid[n] = Range(Lists[n]) /\ Kid[o] = Range(Lists[o])
        BY <1>1, KidFacts
      <3>2. n \in Nat /\ o \in Nat
        BY <1>1, <1>6 DEF ForestOf
      <3> QED
        BY <3>1, <3>2, <2>1, <2>2, <1>1 DEF OneParent
    <2> QED
      BY <2>2, <2>3, <1>1, <1>2
  <1> DEFINE is0 == [m \in N2 |-> IF m = new THEN 0 ELSE inScope[m]]
  <1>13. \A n \in {0} \cup N2 : n # new => n \in {0} \cup Node
    OBVIOUS
  <1>14. \A n \in {0} \cup Node : ForOf(kd, is0, n) = ForOf(kind, inScope, n)
    BY <1>1 DEF ForOf
  <1>15. \A n \in {0} \cup Node : \A k \in Range(li[n]) : kd[k] # "scope" /\ is0[k] = ForOf(kd, is0, n)
    <2> SUFFICES ASSUME NEW n \in {0} \cup Node, NEW k \in Range(li[n]) PROVE kd[k] # "scope" /\ is0[k] = ForOf(kd, is0, n)
      OBVIOUS
    <2>1. k \in Range(Lists[n]) /\ k \in Node
      BY <1>7, <1>10
    <2>2. kind[k] # "scope" /\ inScope[k] = ForOf(kind, inScope, n)
      BY <2>1, <1>3
    <2> QED
      BY <2>1, <2>2, <1>1, <1>14
  <1>16. \A n \in {0} \cup N2 : \A k \in Range(sc[n]) : kd[k] = "scope"
    <2> SUFFICES ASSUME NEW n \in {0} \cup N2, NEW k \in Range(sc[n]) PROVE kd[k] = "scope"
      OBVIOUS
    <2>1. n \in {0} \cup Node
      BY <1>9, <1>13
    <2>2. k = new \/ k \in Range(Scps[n])
      BY <2>1, <1>2
    <2>3. k \in Range(Scps[n]) => kd[k] = "scope"
      BY <2>1, <1>3, <1>7
    <2> QED
      BY <2>2, <2>3
  <1>17. \A n \in {0} \cup N2 : Range(li[n]) \subseteq N2
    <2> SUFFICES ASSUME NEW n \in {0} \cup N2 PROVE Range(li[n]) \subseteq N2
      OBVIOUS
    <2>1. CASE n = new
      BY <2>1, <1>9, <1>1
    <2>2. CASE n # new
      BY <2>2, <1>13, <1>10, <1>7
    <2> QED
      BY <2>1, <2>2
  <1>18. \A m \in N2 : is[m] = IF m \in G THEN new ELSE is0[m]
    <2> SUFFICES ASSUME NEW m \in N2 PROVE is[m] = IF m \in G THEN new ELSE is0[m]
      OBVIOUS
    <2>1. new \notin G
      BY <1>1, <1>4
    <2> QED
      BY <2>1, <1>8, <1>1
  <1>19. \A m \in G : Range(li[m]) \subseteq G /\ kd[m] # "scope" /\ m # 0
    <2> SUFFICES ASSUME NEW m \in G PROVE Range(li[m]) \subseteq G /\ kd[m] # "scope" /\ m # 0
      OBVIOUS
    <2>1. m \in Node /\ m # 0
      BY <1>4
    <2> QED
      BY <2>1, <1>4, <1>10
  <1>20. PlacedTreesOf(N2, li, sc, kd, is0, new, G, is)
    <2>1. new \in N2 /\ kd[new] = "scope" /\ new # 0 /\ Range(li[new]) \subseteq G
      BY <1>1, <1>4, <1>9
    <2>2. \A n \in {0} \cup N2 : n \notin G /\ n # new => Range(li[n]) \cap G = {}
      BY <1>12, <1>13
    <2>3. \A n \in {0} \cup N2 : n # new => \A k \in Range(li[n]) : kd[k] # "scope" /\ is0[k] = ForOf(kd, is0, n)
      BY <1>13, <1>15
    <2> HIDE DEF N2, is0
    <2> QED
      BY <2>1, <2>2, <2>3, <1>16, <1>17, <1>18, <1>19 DEF PlacedTreesOf
  <1> QED
    BY <1>20, PlacedTrees

\* The list v is l without the node of the pass t, and q is t without its last holder.
HeldOf(N, N2, t, a, l, v, q) ==
    /\ N \subseteq N2 /\ PassIn(N, l, <<>>, t) /\ t.held # <<>> /\ a = t.at
    /\ Len(l) \in Nat /\ Len(v) = Len(l) - 1 /\ a <= Len(l)
    /\ (\A j \in 1 .. Len(l) - 1 : j < a => v[j] = l[j])
    /\ q = [t EXCEPT !.held = Front(@)]

\* The pass without its last holder can return to where that is.
LEMMA HeldLess ==
    ASSUME NEW N, NEW N2, NEW t, NEW a, NEW l, NEW v, NEW q, HeldOf(N, N2, t, a, l, v, q)
    PROVE  BackOf(N2, v, q, a - 1) /\ q.over = t.over
  <1> USE DEF HeldOf
  <1> DEFINE hs == t.held
             g == Front(hs)
             k == Len(hs)
  <1>1. t \in PassOf(N) /\ Len(hs) < a /\ \A y \in 1 .. k : hs[y] = l[a - k + y - 1]
    BY DEF PassIn
  <1>2. /\ t = Fields(t, t.at, t.step, t.held, t.sub) /\ t.over \in {0} \cup N /\ t.at \in Nat \ {0}
        /\ t.step \in {"begun", "inner", "held", "second"} /\ t.held \in Seq(N) /\ t.sub \in Nat
    BY <1>1, PassTyped
  <1>3. hs \in Seq(N) /\ hs # <<>>
    BY <1>2
  <1>4. g \in Seq(N) /\ Len(g) = k - 1 /\ k >= 1 /\ k \in Nat /\ \A i \in 1 .. k - 1 : g[i] = hs[i]
    <2> HIDE DEF hs
    <2> QED
      BY SMTT(60), <1>3, FrontOf
  <1>5. q = Fields(t, a, t.step, g, t.sub)
    <2>1. q = [t EXCEPT !.held = g]
      OBVIOUS
    <2> HIDE DEF g
    <2> QED
      BY <2>1, <1>2 DEF Fields
  <1> HIDE DEF hs, g, k
  <1>6. PassSetOf(N, t, a, t.step, g, t.sub)
    BY <1>1, <1>2, <1>4 DEF PassSetOf
  <1>7. q \in PassOf(N) /\ q.over = t.over /\ q.held = g
    <2> DEFINE ts == t.step
               tu == t.sub
    <2>1. q = Fields(t, a, ts, g, tu) /\ PassSetOf(N, t, a, ts, g, tu)
      BY <1>5, <1>6
    <2> HIDE DEF ts, tu, HeldOf
    <2> QED
      BY <2>1, PassSet
  <1>8. q \in PassOf(N2)
    BY <1>7, PassMore
  <1>9. a \in Nat /\ k < a
    BY <1>1, <1>2 DEF k
  <1>10. a - 1 \in Nat /\ 1 <= a - 1 /\ a - 1 <= Len(v) /\ Len(v) \in Nat /\ Len(g) < a - 1
    BY <1>4, <1>9
  <1>11. \A y \in 1 .. Len(g) : g[y] = v[(a - 1) - Len(g) + y - 1]
    <2> SUFFICES ASSUME NEW y \in 1 .. Len(g) PROVE g[y] = v[(a - 1) - Len(g) + y - 1]
      OBVIOUS
    <2> DEFINE j == a - k + y - 1
    <2>1. y \in 1 .. k - 1 /\ y \in 1 .. k /\ j \in 1 .. Len(l) - 1 /\ j < a /\ (a - 1) - Len(g) + y - 1 = j
      BY SMTT(60), <1>4, <1>9
    <2>2. g[y] = hs[y] /\ hs[y] = l[j]
      BY <2>1, <1>1, <1>4
    <2>3. v[j] = l[j]
      BY <2>1
    <2> QED
      BY <2>1, <2>2, <2>3
  <1> QED
    BY <1>7, <1>8, <1>10, <1>11 DEF BackOf

\* A new scope around the node of a holder keeps the invariant.
LEMMA WrapStep ==
    ASSUME Typed, TreesInv, Placement, ScopingPasses, Wrap
    PROVE  Typed' /\ TreesInv' /\ Placement' /\ ScopingPasses'
  <1> DEFINE o == Top.over
             a == Top.at
             l == list
             h == Last(Top.held)
             x == node
             new == Len(kind) + 1
             v == RemoveAt(list, Top.at)
             li == WrapLists(o, x, new, v)
             sc == WrapScps(h, new)
             N2 == Node \cup {new}
             t == [Top EXCEPT !.held = Front(@)]
             p == Returned(t, a - 1)
  <1>1. TopIs /\ Fits(Node, Lists, Scps, kind, passes) /\ left = 0
    BY TopFacts DEF ScopingPasses
  <1>2. ForestOf
    BY ForestHas
  <1>3. /\ ~Passed /\ Top.step = "held"
        /\ Rewrite(v, With(kids, new, <<x>>))
        /\ kind' = Append(kind, "scope") /\ token' = With(token, new, 0)
        /\ scopes' = With([scopes EXCEPT ![h] = Append(@, new)], new, <<>>)
        /\ inScope' = With(Placed({x}, new), new, Root)
        /\ passes' = Append(Front(passes), p)
        /\ UNCHANGED <<program, unary, parened, index, left, stage>>
    BY DEF Wrap, Scopes, Continue
  <1>4. WrapIs(o, a, l, h, x, new, v)
    BY DEF WrapIs
  <1>5. WrapHas(o, a, l, h, x, new, v)
    <2> HIDE DEF o, a, l, h, x, new, v
    <2> QED
      BY <1>3, <1>4, WrapFacts
  <1>6. Len(kind) \in Nat /\ kind \in Seq(Kinds) /\ "scope" \in Kinds
    BY DEF Typed, Kinds
  <1>7. /\ kind' \in Seq(Kinds) /\ Len(kind') = new /\ kind'[new] = "scope" /\ \A n \in Node : kind'[n] = kind[n]
    <2>1. /\ Append(kind, "scope") \in Seq(Kinds) /\ Len(Append(kind, "scope")) = Len(kind) + 1
          /\ Append(kind, "scope")[Len(kind) + 1] = "scope"
          /\ \A i \in 1 .. Len(kind) : Append(kind, "scope")[i] = kind[i]
      BY <1>6, AppendOf
    <2> QED
      BY <2>1, <1>3 DEF Node
  <1>8. Node' = N2 /\ new \notin Node
    <2>1. Node' = 1 .. new
      BY <1>7 DEF Node
    <2> HIDE DEF o, a, l, h, x, new, v
    <2> QED
      BY <2>1, <1>5 DEF WrapHas
  <1> HIDE DEF o, a, l, h, x, new, v
  <1>9. WrapNew(o, h, x, new, v, li, sc)
    <2> DEFINE y == li
               z == sc
    <2>1. y = WrapLists(o, x, new, v) /\ z = WrapScps(h, new)
      OBVIOUS
    <2> HIDE DEF y, z
    <2>2. WrapNew(o, h, x, new, v, y, z)
      BY <1>5, <2>1, WrapTrees
    <2> QED
      BY <2>2 DEF y, z
  <1> HIDE DEF li, sc
  <1>10. TreesInv' /\ Lists' = li /\ Scps' = sc
    <2>1. o = Top.over
      BY DEF o
    <2> QED
      BY <2>1, <1>3, <1>5, <1>8, <1>9, WrapState
  <1>11. inScope \in [Node -> {Root} \cup Node] /\ token \in [Node -> {0} \cup Token]
    BY DEF Typed
  <1>12. Placement'
    <2> DEFINE k2 == kind'
               is2 == inScope'
    <2>1. k2[new] = "scope" /\ (\A n \in Node : k2[n] = kind[n]) /\ is2 = With(Placed({x}, new), new, Root)
      BY <1>3, <1>7
    <2> HIDE DEF k2, is2
    <2>2. PlacementOf(N2, li, sc, k2, is2)
      BY <2>1, <1>5, <1>9, <1>11, WrapPlaced
    <2> QED
      BY <2>2, <1>8, <1>10 DEF Placement, k2, is2
  <1>13. Typed'
    <2>1. Token' = Token
      BY <1>3 DEF Token
    <2>2. token' \in [N2 -> {0} \cup Token]
      <3>1. With(token, new, 0) \in [N2 -> {0} \cup Token]
        BY ZenonT(60), <1>11, WithIn
      <3> QED
        BY <3>1, <1>3
    <2>3. inScope' \in [N2 -> {Root} \cup N2]
      <3> DEFINE pl == Placed({x}, new)
      <3>1. pl \in [Node -> {Root} \cup N2]
        <4>1. pl = [n \in Node |-> IF n \in UNION {Tree(m) : m \in {x}} THEN new ELSE inScope[n]]
          BY DEF Placed
        <4> HIDE DEF pl
        <4> QED
          BY <4>1, <1>11
      <3> HIDE DEF pl
      <3>2. With(pl, new, Root) \in [N2 -> {Root} \cup N2]
        BY ZenonT(60), <3>1, WithIn
      <3> QED
        BY <3>2, <1>3 DEF pl
    <2>4. Node \subseteq N2
      OBVIOUS
    <2> HIDE DEF N2
    <2> QED
      BY <2>1, <2>2, <2>3, <2>4, <1>3, <1>7, <1>8 DEF Typed
  <1>14. ScopingPasses'
    <2> DEFINE k2 == kind'
    <2>1. PassIn(Node, l, kind, Top) /\ Top.held # <<>> /\ Len(l) \in Nat /\ a = Top.at
      BY <1>1, <1>3 DEF TopIs, PassIn, l, a
    <2>2. PassIn(Node, l, <<>>, Top)
      <3>1. Top.step # "begun"
        BY <1>3
      <3> QED
        BY <2>1, <3>1 DEF PassIn
    <2>3. Len(v) = Len(l) - 1 /\ a <= Len(l) /\ \A j \in 1 .. Len(l) - 1 : j < a => v[j] = l[j]
      BY <1>5 DEF WrapHas
    <2>4. BackOf(N2, v, t, a - 1) /\ t.over = o
      <3> DEFINE tt == Top
      <3>1. t = [tt EXCEPT !.held = Front(@)] /\ Node \subseteq N2
        OBVIOUS
      <3>2. PassIn(Node, l, <<>>, tt) /\ tt.held # <<>> /\ a = tt.at /\ tt.over = o
        BY <2>1, <2>2 DEF o
      <3>3. Len(l) \in Nat
        BY <2>1
      <3> HIDE DEF t, tt, N2
      <3>4. HeldOf(Node, N2, tt, a, l, v, t)
        BY <3>1, <3>2, <3>3, <2>3 DEF HeldOf
      <3> QED
        BY <3>2, <3>4, HeldLess
    <2> HIDE DEF t
    <2>5. PassIn(N2, v, k2, p) /\ p.over = o
      BY <2>4, ReturnedIn
    <2> HIDE DEF p, k2
    <2>6. /\ li[o] = v /\ h \in Edges[o] /\ o \in Nat /\ h \in Nat
          /\ (\A n \in {0} \cup Node : n # o => li[n] = Lists[n])
          /\ (\A n \in {0} \cup Node : n # h => sc[n] = Scps[n])
      <3>1. h \in Range(l) /\ Lists[o] = l /\ o \in {0} \cup Node /\ o \in Nat /\ h \in Node
        BY <1>5 DEF WrapHas
      <3> QED
        BY <3>1, <1>2, <1>9 DEF WrapNew, ForestOf
    <2>7. \A n \in {0} \cup Node : n \notin Below(Edges, o) => li[n] = Lists[n] /\ sc[n] = Scps[n]
      <3>1. Edges \in Edges0
        BY <1>2 DEF ForestOf
      <3>2. o \in Below(Edges, o) /\ h \in Below(Edges, o)
        BY <3>1, <2>6, BelowFacts, BelowChild
      <3> QED
        BY <2>6, <3>2
    <2>8. Trees(Node, Lists, Scps) /\ Top = passes[Len(passes)]
      BY <1>1, <1>2 DEF ForestOf, TopIs
    <2>9. Top.over = o
      BY DEF o
    <2>10. StaysOf(Node, Lists, Scps, passes, N2, li, sc, k2, p)
      BY <2>5, <2>6, <2>7, <2>8, <2>9 DEF StaysOf, Edges
    <2>11. Fits(N2, li, sc, k2, Append(Front(passes), p))
      BY <1>1, <2>8, <2>10, LowerStays
    <2>12. left' = 0
      BY <1>1, <1>3
    <2> QED
      BY <1>3, <1>8, <1>10, <2>11, <2>12 DEF ScopingPasses, k2
  <1> QED
    BY <1>10, <1>12, <1>13, <1>14

-----------------------------------------------------------------------------
(* The handler of a closing brace. *)

\* TakeSome, with what it gives named.
LEMMA TakeSomeGives ==
    ASSUME NEW N, NEW li, NEW sc, Trees(N, li, sc), NEW p, NEW r, NEW q, NEW g, NEW v, NEW li2,
           TakeOf(N, li, sc, li2, p, q, r, g, v)
    PROVE  TakeGives(N, li, sc, li2, p, q, g, v)
  <1>1. /\ Trees(N, li2, sc) /\ q \in N /\ q # p
        /\ li2[p] = v /\ li2[q] = li[q] \o g /\ li2[q] \in Seq(N)
        /\ \A n \in Nat : n # p /\ n # q => li2[n] = li[n]
        /\ Range(li2[q]) = Range(li[q]) \cup Range(g)
    BY TakeSome
  <1> QED
    BY <1>1 DEF TakeGives

\* Where the opening brace is that a search from the node r of a list finds.
OpensAt(o, r, on) ==
    /\ o \in {0} \cup Node /\ r \in Range(Lists[o]) /\ r \in Node
    /\ on = Opening(r) /\ kind[on] = "lbrace"

\* What is known of the brace on and the node h that has it.
Opens(o, r, on, h) ==
    /\ on \in Node /\ on \in Below(Edges, r) /\ h \in {0} \cup Node /\ h \in Below(Edges, o)
    /\ on \in Range(Lists[h]) /\ (h = o <=> on = r)
    /\ (h # o => h \in Node /\ Lists[h] # <<>> /\ on = Last(Lists[h]))
    /\ on # o /\ on # h

\* The node that has an opening brace as its child is found: the one passed over, or one
\* of which the brace is the last child.
LEMMA HolderFacts ==
    ASSUME Typed, TreesInv, Placement, NEW o, NEW r, NEW on, OpensAt(o, r, on)
    PROVE  Opens(o, r, on, HolderOf(on))
  <1> DEFINE h == HolderOf(on)
             H == {m \in Node : on \in Range(kids[m])}
  <1>1. ForestOf
    BY ForestHas
  <1>2. /\ Node \subseteq Nat /\ 0 \notin Node /\ Edges \in Edges0 /\ Forest(Edges) /\ Acyclic(Edges) /\ OneParent(Edges)
        /\ kids \in [Node -> Seq(Node)] /\ (\A n \in Node : Lists[n] = kids[n])
        /\ (\A n \in {0} \cup Node : Scps[n] = scopes[n])
        /\ (\A n \in {0} \cup Node : Edges[n] = Range(Lists[n]) \cup Range(Scps[n]))
        /\ (\A n \in Node : Below(Edges, n) \subseteq Node)
    BY <1>1 DEF ForestOf
  <1>3. /\ o \in {0} \cup Node /\ r \in Range(Lists[o]) /\ r \in Node
        /\ on = Opening(r) /\ kind[on] = "lbrace" /\ o \in Nat /\ r \in Nat /\ r \in Edges[o]
    BY <1>2 DEF OpensAt
  <1>4. on \in Node /\ on \in Below(Edges, r)
        /\ (\/ on = OnEdge("lbrace")[r]
            \/ \E m \in Node : \E w \in Range(scopes[m]) : on = OnEdge("lbrace")[w])
    BY <1>3, OpeningFacts
  <1>5. \A n \in {0} \cup Node : \A k \in Range(scopes[n]) : kind[k] = "scope" /\ k \in Node
    BY <1>1, <1>2 DEF Placement, PlacementOf, ForestOf
  <1>6. on # r => \E m \in Node : kids[m] # <<>> /\ on = Last(kids[m])
    <2>1. CASE on = OnEdge("lbrace")[r]
      BY <2>1, <1>3, EdgeFacts
    <2>2. CASE \E m \in Node : \E w \in Range(scopes[m]) : on = OnEdge("lbrace")[w]
      <3>1. PICK m \in Node : \E w \in Range(scopes[m]) : on = OnEdge("lbrace")[w]
        BY <2>2
      <3>2. PICK w \in Range(scopes[m]) : on = OnEdge("lbrace")[w]
        BY <3>1
      <3>3. w \in Node /\ kind[w] = "scope"
        BY <1>5
      <3>4. on # w
        BY <3>3, <1>3
      <3> QED
        BY <3>2, <3>3, <3>4, EdgeFacts
    <2> QED
      BY <2>1, <2>2, <1>4
  <1>7. o \notin Below(Edges, r)
    BY <1>2, <1>3, NotBelowChild
  <1>8. on # o
    BY <1>4, <1>7
  <1>9. CASE on = r
    <2>1. \A m \in Node : on \in Range(kids[m]) => m = o
      <3> SUFFICES ASSUME NEW m \in Node, on \in Range(kids[m]) PROVE m = o
        OBVIOUS
      <3>1. on \in Edges[m] /\ on \in Edges[o] /\ m \in Nat
        BY <1>2, <1>3, <1>9
      <3> QED
        BY <3>1, <1>2, <1>3 DEF OneParent
    <2>2. h = o
      <3>1. CASE o = 0
        <4>1. H = {}
          BY <3>1, <2>1, <1>2
        <4> QED
          BY <4>1, <3>1 DEF HolderOf, Root
      <3>2. CASE o # 0
        <4>1. o \in H
          BY <3>2, <1>2, <1>3, <1>9
        <4>2. H = {o}
          BY <4>1, <2>1
        <4> HIDE DEF H
        <4>3. h = IF H = {} THEN Root ELSE CHOOSE m \in H : TRUE
          BY DEF HolderOf, H
        <4> QED
          BY <4>2, <4>3
      <3> QED
        BY <3>1, <3>2
    <2>3. o \in Below(Edges, o)
      BY <1>2, <1>3, BelowFacts
    <2> HIDE DEF h
    <2> QED
      BY <2>2, <2>3, <1>3, <1>4, <1>8, <1>9 DEF Opens, h
  <1>10. CASE on # r
    <2>1. PICK m \in Node : kids[m] # <<>> /\ on = Last(kids[m])
      BY <1>6, <1>10
    <2>2. on \in Range(kids[m])
      <3>1. kids[m] \in Seq(Node)
        BY <1>2
      <3> QED
        BY <3>1, <2>1, FrontOf
    <2>3. on \in Edges[m] /\ m \in Nat
      BY <2>2, <1>2
    <2>4. m \in Below(Edges, r)
      BY <2>3, <1>2, <1>3, <1>4, <1>10, BelowParent
    <2>5. m # o
      BY <2>4, <1>7
    <2>6. \A k \in Node : on \in Range(kids[k]) => k = m
      <3> SUFFICES ASSUME NEW k \in Node, on \in Range(kids[k]) PROVE k = m
        OBVIOUS
      <3>1. on \in Edges[k] /\ k \in Nat
        BY <1>2
      <3> QED
        BY <3>1, <2>3, <1>2 DEF OneParent
    <2>7. h = m
      <3>1. H = {m}
        BY <2>2, <2>6
      <3> HIDE DEF H
      <3>2. h = IF H = {} THEN Root ELSE CHOOSE k \in H : TRUE
        BY DEF HolderOf, H
      <3> QED
        BY <3>1, <3>2
    <2>8. m \in Below(Edges, o)
      BY <2>4, <1>2, <1>3, BelowChild
    <2>9. on # m
      <3>1. on \notin Below(Edges, on) \/ on # m
        BY <2>3, <1>2, NotBelowChild
      <3>2. on \in Nat
        BY <1>2, <1>4
      <3> QED
        BY <3>1, <3>2, <1>2, BelowFacts
    <2> HIDE DEF h
    <2> QED
      BY <2>1, <2>2, <2>5, <2>7, <2>8, <2>9, <1>2, <1>4, <1>8, <1>10 DEF Opens, h
  <1> QED
    BY <1>9, <1>10

\* What is left of a list s from a closing at a back to its opening at i, when the
\* opening stays
RestFrom(s, i, a) == SubSeq(s, 1, i) \o SubSeq(s, a + 1, Len(s))

\* and when it becomes a scope.
RestWithout(s, i, a) == Front(SubSeq(s, 1, i)) \o SubSeq(s, a + 1, Len(s))

\* What is known of the latter.
RestGives(S, s, i, a) ==
    /\ RestWithout(s, i, a) \in Seq(S) /\ Distinct(RestWithout(s, i, a)) /\ Len(RestWithout(s, i, a)) \in Nat
    /\ Range(RestWithout(s, i, a)) \subseteq Range(RestFrom(s, i, a))
    /\ s[i] \notin Range(RestWithout(s, i, a))

\* What is left of the list after its opening brace has become a scope.
LEMMA RestIs ==
    ASSUME NEW S, NEW s \in Seq(S), Distinct(s), NEW a \in 1 .. Len(s), NEW i \in 1 .. a - 1
    PROVE  RestGives(S, s, i, a)
  <1> DEFINE L == Len(s)
             b == SubSeq(s, 1, i)
             c == SubSeq(s, a + 1, L)
             f == Front(b)
  <1>n. L \in Nat /\ a \in Nat /\ i \in Nat /\ 1 <= i /\ i < a /\ a <= L /\ i <= L /\ a + 1 \in Nat /\ 1 \in Nat /\ a + 1 >= 1 /\ 1 >= 1
    OBVIOUS
  <1>d. \A j, k \in 1 .. L : s[j] = s[k] => j = k
    BY DEF Distinct
  <1> DEFINE a1 == a + 1
  <1>m. a1 \in Nat /\ a1 >= 1 /\ i < a1 /\ L <= Len(s) /\ L = Len(s) /\ i <= Len(s)
    BY <1>n
  <1>r. RestWithout(s, i, a) = f \o c /\ RestFrom(s, i, a) = b \o c /\ c = SubSeq(s, a1, L) /\ b = SubSeq(s, 1, i)
    BY DEF RestWithout, RestFrom
  <1> HIDE DEF b, c, a1, L
  <1>1. b \in Seq(S) /\ Distinct(b) /\ Range(b) = {s[k] : k \in 1 .. i} /\ Len(b) = i /\ b[i] = s[i]
    <2>1. /\ SubSeq(s, 1, i) \in Seq(S) /\ Distinct(SubSeq(s, 1, i))
          /\ Range(SubSeq(s, 1, i)) = {s[k] : k \in 1 .. i}
          /\ Len(SubSeq(s, 1, i)) = (IF 1 <= i THEN i - 1 + 1 ELSE 0)
          /\ \A k \in 1 .. Len(SubSeq(s, 1, i)) : SubSeq(s, 1, i)[k] = s[1 + k - 1]
      BY <1>n, <1>m, SubSeqOf
    <2>2. Len(b) = i /\ \A k \in 1 .. Len(b) : b[k] = s[1 + k - 1]
      BY <2>1, <1>r, <1>n
    <2>3. i \in 1 .. Len(b) /\ 1 + i - 1 = i
      BY <2>2, <1>n
    <2>4. b[i] = s[i]
      BY <2>2, <2>3
    <2> QED
      BY <2>1, <2>2, <2>4, <1>r
  <1>2. c \in Seq(S) /\ Distinct(c) /\ Range(c) = {s[k] : k \in a1 .. L}
    <2>1. /\ SubSeq(s, a1, L) \in Seq(S) /\ Distinct(SubSeq(s, a1, L))
          /\ Range(SubSeq(s, a1, L)) = {s[k] : k \in a1 .. L}
      BY <1>n, <1>m, SubSeqOf
    <2> QED
      BY <2>1, <1>r
  <1>3. Range(b) \cap Range(c) = {}
    <2> SUFFICES ASSUME NEW x \in Range(b), x \in Range(c) PROVE FALSE
      OBVIOUS
    <2>1. PICK j \in 1 .. i : x = s[j]
      BY <1>1
    <2>2. PICK k \in a1 .. L : x = s[k]
      BY <1>2
    <2>3. j \in 1 .. L /\ k \in 1 .. L /\ j < k
      BY <1>n, <1>m, <2>1, <2>2
    <2>4. j = k
      BY <2>1, <2>2, <2>3, <1>d
    <2>5. j # k
      BY <2>3, <1>n, <1>m
    <2> QED
      BY <2>4, <2>5
  <1>4. /\ f \in Seq(S) /\ Distinct(f) /\ Range(f) \subseteq Range(b) /\ s[i] \notin Range(f) /\ s[i] \in Range(b)
    <2>1. b # <<>>
      BY <1>1, <1>n
    <2>2. /\ f \in Seq(S) /\ Distinct(f) /\ Range(f) \subseteq Range(b) /\ Last(b) \notin Range(f) /\ Last(b) = b[Len(b)]
          /\ Last(b) \in Range(b)
      BY <1>1, <2>1, FrontOf
    <2> QED
      BY <2>2, <1>1
  <1> HIDE DEF f
  <1>5. /\ f \o c \in Seq(S) /\ Distinct(f \o c) /\ Range(f \o c) = Range(f) \cup Range(c)
    <2>1. f \in Seq(S) /\ c \in Seq(S) /\ Distinct(f) /\ Distinct(c) /\ Range(f) \cap Range(c) = {}
      BY <1>2, <1>3, <1>4
    <2> QED
      BY ONLY <2>1, ConcatOf
  <1>6. Range(b \o c) = Range(b) \cup Range(c)
    <2>1. b \in Seq(S) /\ c \in Seq(S)
      BY <1>1, <1>2
    <2> QED
      BY ONLY <2>1, ConcatOf
  <1>7. Len(f \o c) \in Nat
    BY <1>5
  <1>8. s[i] \notin Range(c)
    BY <1>3, <1>4
  <1> QED
    BY <1>r, <1>4, <1>5, <1>6, <1>7, <1>8 DEF RestGives

\* What closing the brace at a makes of the lists: on has been opened below the node at i.
CloseIs(o, a, l, i, on, h, g, rest) ==
    /\ o \in {0} \cup Node /\ Lists[o] = l /\ l \in Seq(Node) /\ Distinct(l) /\ a \in 1 .. Len(l) /\ i \in 1 .. a - 1
    /\ Opens(o, l[i], on, h) /\ g = SubSeq(l, i + 1, a - 1)
    /\ rest = IF h = o THEN RestWithout(l, i, a) ELSE RestFrom(l, i, a)

\* The lists after that.
CloseLists(o, a, l, i, on, h, g, rest) ==
    [[Lists EXCEPT ![o] = RestFrom(l, i, a), ![on] = Lists[on] \o g]
        EXCEPT ![h] = IF h = o THEN rest ELSE Front(Lists[h])]

\* The scopes after that.
CloseScps(h, on) == [Scps EXCEPT ![h] = Append(Scps[h], on)]

\* What is known of both.
CloseNew(o, l, i, on, h, g, rest, li, sc) ==
    /\ Trees(Node, li, sc) /\ li[o] = rest /\ Len(rest) \in Nat
    /\ li[on] = Lists[on] \o g /\ Range(li[on]) = Range(Lists[on]) \cup Range(g)
    /\ g \in Seq(Node) /\ Range(g) \subseteq Range(l) /\ l[i] \notin Range(g)
    /\ (h # o => li[h] = Front(Lists[h])) /\ on \notin Range(li[h])
    /\ (\A n \in {0} \cup Node : n # o /\ n # on /\ n # h => li[n] = Lists[n])
    /\ (\A n \in {0} \cup Node : n # on => Range(li[n]) \subseteq Range(Lists[n]))
    /\ Range(li[o]) \cap Range(g) = {}
    /\ sc[h] = Append(Scps[h], on) /\ Range(sc[h]) = Range(Scps[h]) \cup {on}
    /\ (\A n \in {0} \cup Node : n # h => sc[n] = Scps[n])

\* The lists after a closing brace are a forest.
LEMMA CloseTrees ==
    ASSUME TreesInv, NEW o, NEW a, NEW l, NEW i, NEW on, NEW h, NEW g, NEW rest,
           CloseIs(o, a, l, i, on, h, g, rest),
           NEW li, li = CloseLists(o, a, l, i, on, h, g, rest), NEW sc, sc = CloseScps(h, on)
    PROVE  CloseNew(o, l, i, on, h, g, rest, li, sc)
  <1> DEFINE w == RestFrom(l, i, a)
             l1 == [Lists EXCEPT ![o] = w, ![on] = Lists[on] \o g]
             r == l[i]
             v == IF h = o THEN rest ELSE Front(Lists[h])
  <1>1. ForestOf
    BY ForestHas
  <1>2. /\ Node \subseteq Nat /\ 0 \notin Node /\ Trees(Node, Lists, Scps)
        /\ \A n \in {0} \cup Node : Lists[n] \in Seq(Node) /\ Distinct(Lists[n]) /\ n \in Nat
    BY <1>1 DEF ForestOf
  <1>3. /\ o \in {0} \cup Node /\ Lists[o] = l /\ l \in Seq(Node) /\ Distinct(l) /\ a \in 1 .. Len(l) /\ i \in 1 .. a - 1
        /\ Opens(o, r, on, h) /\ g = SubSeq(l, i + 1, a - 1)
        /\ rest = IF h = o THEN RestWithout(l, i, a) ELSE w
    BY DEF CloseIs
  <1>4. /\ on \in Node /\ on \in Below(Edges, r) /\ h \in {0} \cup Node
        /\ on \in Range(Lists[h]) /\ (h = o <=> on = r)
        /\ (h # o => h \in Node /\ Lists[h] # <<>> /\ on = Last(Lists[h]))
        /\ on # o /\ on # h
    BY <1>3 DEF Opens
  <1>5. /\ g \in Seq(Node) /\ Distinct(g) /\ w \in Seq(Node) /\ Distinct(w)
        /\ Range(g) \subseteq Range(l) /\ Range(w) \subseteq Range(l) \ Range(g)
        /\ r \in Range(l) /\ r \notin Range(g) /\ Len(w) \in Nat
    <2>1. Split(l, i, a, g, w)
      <3>1. i \in Nat /\ a \in Nat /\ 1 <= i /\ i < a /\ a <= Len(l) + 1
        BY <1>3
      <3>2. \E d \in {a, a + 1} : w = SubSeq(l, 1, i) \o SubSeq(l, d, Len(l))
        BY DEF RestFrom
      <3> QED
        BY <3>1, <3>2, <1>3 DEF Split
    <2> HIDE DEF w
    <2> QED
      BY <2>1, <1>3, SplitOf
  <1>6. RestGives(Node, l, i, a)
    BY <1>3, RestIs
  <1>w. w = RestFrom(l, i, a)
    OBVIOUS
  <1> HIDE DEF w
  <1>7. rest \in Seq(Node) /\ Distinct(rest) /\ Len(rest) \in Nat /\ Range(rest) \subseteq Range(w)
        /\ (h = o => r \notin Range(rest))
    <2>1. CASE h = o
      BY <2>1, <1>3, <1>6, <1>w DEF RestGives
    <2>2. CASE h # o
      BY <2>2, <1>3, <1>5
    <2> QED
      BY <2>1, <2>2
  <1>8. TakeGives(Node, Lists, Scps, l1, o, on, g, w)
    <2>1. Cut(Node, Lists, o, g, w)
      BY <1>3, <1>5 DEF Cut
    <2>2. r \in Range(Lists[o]) \ Range(g) /\ on \in Below(Joint(Lists, Scps), r)
      BY <1>3, <1>4, <1>5 DEF Edges
    <2>3. l1 = [Lists EXCEPT ![o] = w, ![on] = Lists[on] \o g]
      OBVIOUS
    <2> HIDE DEF l1, r
    <2>4. TakeOf(Node, Lists, Scps, l1, o, on, r, g, w)
      BY <1>3, <2>1, <2>2, <2>3 DEF TakeOf
    <2> QED
      BY <1>2, <2>4, TakeSomeGives
  <1>9. /\ Trees(Node, l1, Scps) /\ l1[o] = w /\ l1[on] = Lists[on] \o g
        /\ (\A n \in Nat : n # o /\ n # on => l1[n] = Lists[n])
        /\ Range(l1[on]) = Range(Lists[on]) \cup Range(g)
    BY <1>8 DEF TakeGives
  <1>l. li = [l1 EXCEPT ![h] = v] /\ sc = [Scps EXCEPT ![h] = Append(Scps[h], on)]
    BY <1>w DEF CloseLists, CloseScps
  <1> HIDE DEF l1, r
  <1>10. v \in Seq(Node) /\ Distinct(v) /\ Range(v) \subseteq Range(l1[h]) \ {on} /\ on \in Range(l1[h])
         /\ (h # o => l1[h] = Lists[h])
    <2>1. CASE h = o
      <3>1. on \in Range(w)
        <4>1. on = r /\ r = l[i]
          BY <2>1, <1>4 DEF r
        <4>2. RestFrom(l, i, a) = SubSeq(l, 1, i) \o SubSeq(l, a + 1, Len(l))
          BY DEF RestFrom
        <4> DEFINE b == SubSeq(l, 1, i)
                   a1 == a + 1
                   c == SubSeq(l, a1, Len(l))
        <4>3. 1 \in Nat /\ 1 >= 1 /\ i \in Nat /\ i <= Len(l) /\ 1 <= i /\ a1 \in Nat /\ a1 >= 1 /\ Len(l) \in Nat /\ Len(l) <= Len(l)
          BY <1>3
        <4>4. w = b \o c
          BY <4>2, <1>w
        <4> HIDE DEF a1
        <4>5. b \in Seq(Node) /\ Range(b) = {l[k] : k \in 1 .. i}
          BY <1>3, <4>3, SubSeqOf
        <4>6. c \in Seq(Node)
          BY <1>3, <4>3, SubSeqOf
        <4> HIDE DEF b, c
        <4>7. Range(b \o c) = Range(b) \cup Range(c)
          BY ONLY <4>5, <4>6, ConcatOf
        <4>8. i \in 1 .. i
          BY <4>3
        <4> QED
          BY <4>1, <4>4, <4>5, <4>7, <4>8
      <3> QED
        BY <2>1, <3>1, <1>4, <1>7, <1>9
    <2>2. CASE h # o
      <3>1. l1[h] = Lists[h]
        BY <2>2, <1>2, <1>4, <1>9
      <3>2. Front(Lists[h]) \in Seq(Node) /\ Distinct(Front(Lists[h])) /\ Range(Front(Lists[h])) \subseteq Range(Lists[h])
            /\ Last(Lists[h]) \notin Range(Front(Lists[h]))
        <4> DEFINE s == Lists[h]
        <4>1. s \in Seq(Node) /\ Distinct(s) /\ s # <<>>
          BY <2>2, <1>2, <1>4
        <4> HIDE DEF s
        <4>2. Front(s) \in Seq(Node) /\ Distinct(Front(s)) /\ Range(Front(s)) \subseteq Range(s) /\ Last(s) \notin Range(Front(s))
          BY <4>1, FrontOf
        <4> QED
          BY <4>2 DEF s
      <3> QED
        BY <2>2, <3>1, <3>2, <1>4
    <2> QED
      BY <2>1, <2>2
  <1>v. /\ (h = o => v = rest) /\ (h # o => v = Front(Lists[h]))
    OBVIOUS
  <1> HIDE DEF v
  <1>11. PromoteGives(Node, l1, Scps, li, sc, h, on, v)
    <2>1. PromoteOf(Node, l1, Scps, li, sc, h, on, v)
      BY <1>4, <1>10, <1>l DEF PromoteOf
    <2> QED
      BY <2>1, <1>9, PromoteTree
  <1>12. /\ Trees(Node, li, sc) /\ li[h] = v /\ sc[h] = Append(Scps[h], on) /\ Range(sc[h]) = Range(Scps[h]) \cup {on}
         /\ (\A n \in Nat : n # h => li[n] = l1[n] /\ sc[n] = Scps[n])
    BY <1>11 DEF PromoteGives
  <1>13. li[o] = rest
    <2>1. o \in Nat
      BY <1>2, <1>3
    <2>2. CASE h = o
      BY <2>2, <1>12, <1>v
    <2>3. CASE h # o
      BY <2>1, <2>3, <1>12, <1>9, <1>3
    <2> QED
      BY <2>2, <2>3
  <1>14. li[on] = Lists[on] \o g /\ Range(li[on]) = Range(Lists[on]) \cup Range(g)
    BY <1>2, <1>4, <1>9, <1>12
  <1>15. \A n \in {0} \cup Node : n # o /\ n # on /\ n # h => li[n] = Lists[n]
    BY <1>2, <1>9, <1>12
  <1>16. \A n \in {0} \cup Node : n # on => Range(li[n]) \subseteq Range(Lists[n])
    <2> SUFFICES ASSUME NEW n \in {0} \cup Node, n # on PROVE Range(li[n]) \subseteq Range(Lists[n])
      OBVIOUS
    <2>1. CASE n = o
      BY <2>1, <1>3, <1>5, <1>7, <1>13
    <2>2. CASE n # o /\ n = h
      BY <2>2, <1>10, <1>12
    <2>3. CASE n # o /\ n # h
      BY <2>3, <1>15
    <2> QED
      BY <2>1, <2>2, <2>3
  <1>17. Range(li[o]) \cap Range(g) = {}
    BY <1>5, <1>7, <1>13
  <1>18. on \notin Range(li[h])
    BY <1>10, <1>12
  <1>19. h # o => li[h] = Front(Lists[h])
    BY <1>12, <1>v
  <1>20. \A n \in {0} \cup Node : n # h => sc[n] = Scps[n]
    BY <1>2, <1>12
  <1>21. l[i] \notin Range(g)
    BY <1>5 DEF r
  <1> QED
    BY <1>5, <1>7, <1>12, <1>13, <1>14, <1>15, <1>16, <1>17, <1>18, <1>19, <1>20, <1>21 DEF CloseNew

\* All nodes of the brace are placed in it.
ClosedOf(o, a, l, i, on, h, g, rest, li, sc, kd, is) ==
    /\ CloseIs(o, a, l, i, on, h, g, rest) /\ CloseNew(o, l, i, on, h, g, rest, li, sc)
    /\ kd[on] = "scope" /\ (\A n \in Node : n # on => kd[n] = kind[n])
    /\ is = Placed(Range(kids[on] \o g), on)

\* After a closing brace every node is in the scope it is under, the ones between the
\* braces included.
LEMMA ClosePlaced ==
    ASSUME TreesInv, Placement, inScope \in [Node -> {Root} \cup Node],
           NEW o, NEW a, NEW l, NEW i, NEW on, NEW h, NEW g, NEW rest, NEW li, NEW sc, NEW kd, NEW is,
           ClosedOf(o, a, l, i, on, h, g, rest, li, sc, kd, is)
    PROVE  PlacementOf(Node, li, sc, kd, is)
  <1> DEFINE M == Range(kids[on] \o g)
             G == Grove(M)
             r == l[i]
  <1>1. ForestOf
    BY ForestHas
  <1>2. /\ Node \subseteq Nat /\ 0 \notin Node /\ Edges \in Edges0 /\ Forest(Edges) /\ Acyclic(Edges) /\ OneParent(Edges)
        /\ kids \in [Node -> Seq(Node)] /\ (\A n \in Node : Lists[n] = kids[n])
        /\ (\A n \in {0} \cup Node : /\ Range(Lists[n]) \subseteq Node /\ Range(Scps[n]) \subseteq Node /\ n \in Nat
                                     /\ Range(Lists[n]) \subseteq Edges[n])
    BY <1>1 DEF ForestOf
  <1>3. /\ o \in {0} \cup Node /\ Lists[o] = l /\ l \in Seq(Node) /\ i \in 1 .. Len(l)
        /\ Opens(o, r, on, h)
    BY DEF CloseIs, ClosedOf
  <1>4. /\ on \in Node /\ on \in Below(Edges, r) /\ h \in {0} \cup Node
        /\ on \in Range(Lists[h]) /\ on # o /\ on # h
    BY <1>3 DEF Opens
  <1>5. /\ Range(li[on]) = Range(Lists[on]) \cup Range(g)
        /\ g \in Seq(Node) /\ Range(g) \subseteq Range(l) /\ r \notin Range(g) /\ on \notin Range(li[h])
        /\ (\A n \in {0} \cup Node : n # on => Range(li[n]) \subseteq Range(Lists[n]))
        /\ Range(li[o]) \cap Range(g) = {}
        /\ Range(sc[h]) = Range(Scps[h]) \cup {on} /\ (\A n \in {0} \cup Node : n # h => sc[n] = Scps[n])
    BY DEF CloseNew, ClosedOf
  <1>6. kd[on] = "scope" /\ (\A n \in Node : n # on => kd[n] = kind[n]) /\ is = Placed(M, on)
    BY DEF ClosedOf
  <1>7. M = Range(Lists[on]) \cup Range(g) /\ M \subseteq Node
    <2>1. kids[on] \in Seq(Node) /\ g \in Seq(Node)
      BY <1>2, <1>4, <1>5
    <2> DEFINE s == kids[on]
    <2>2. s \in Seq(Node)
      BY <2>1
    <2> HIDE DEF s
    <2>3. Range(s \o g) = Range(s) \cup Range(g)
      BY ONLY <2>1, <2>2, ConcatOf
    <2> QED
      BY <2>3, <1>2, <1>3, <1>4, <1>5 DEF s
  <1>8. \A n \in {0} \cup Node : /\ \A k \in Range(Lists[n]) : kind[k] # "scope" /\ inScope[k] = ForOf(kind, inScope, n)
                                 /\ \A k \in Range(Scps[n]) : kind[k] = "scope"
    BY DEF Placement, PlacementOf
  <1>9. \A k \in M : kind[k] # "scope"
    BY <1>3, <1>4, <1>5, <1>7, <1>8
  <1> HIDE DEF M, r
  <1>10. /\ G \subseteq Node /\ M \subseteq G /\ 0 \notin G
         /\ \A m \in G : kind[m] # "scope" /\ Range(Lists[m]) \subseteq G
         /\ \A n \in {0} \cup Node, x \in Node : n \notin G /\ x \in Range(Lists[n]) /\ x \in G => x \in M
    BY ZenonT(60), <1>7, <1>9, GroveFacts
  <1>11. \A m \in Node : is[m] = IF m \in G THEN on ELSE inScope[m]
    BY <1>6, <1>7, <1>9, PlacedIs
  <1>12. on \notin G
    <2> SUFFICES ASSUME on \in G PROVE FALSE
      OBVIOUS
    <2>1. PICK k \in M : on \in Below(Kid, k)
      BY DEF Grove
    <2>2. k \in Node /\ k \in Nat
      BY <1>2, <1>7
    <2>3. CASE k \in Range(Lists[on])
      <3>1. Kid \in Edges0 /\ Acyclic(Kid) /\ k \in Kid[on] /\ on \in Nat
        BY <2>3, <1>2, <1>4, KidFacts
      <3> QED
        BY <2>1, <3>1, NotBelowChild
    <2>4. CASE k \in Range(g)
      <3>1. k \in Edges[o] /\ r \in Edges[o] /\ k # r /\ o \in Nat
        <4>1. r \in Range(l)
          BY <1>3, RangeOf DEF r
        <4> QED
          BY <4>1, <2>4, <1>2, <1>3, <1>5
      <3>2. Below(Edges, k) \cap Below(Edges, r) = {}
        BY <3>1, <1>2, SiblingsApart
      <3>3. Below(Kid, k) \subseteq Below(Edges, k)
        <4>1. Below(Edges, k) \in SUBSET Nat /\ k \in Below(Edges, k) /\ DownClosed(Edges, Below(Edges, k))
          BY <2>2, <1>2, BelowFacts
        <4>2. DownClosed(Kid, Below(Edges, k))
          <5>1. Below(Edges, k) \subseteq Node
            BY <2>2, <1>1 DEF ForestOf
          <5>2. \A n \in Node : Kid[n] \subseteq Edges[n]
            BY KidFacts
          <5> QED
            BY <4>1, <5>1, <5>2 DEF DownClosed
        <4>3. Kid \in Edges0
          BY KidFacts
        <4> QED
          BY <4>1, <4>2, <4>3, <2>2, BelowLeast
      <3> QED
        BY <2>1, <3>2, <3>3, <1>4
    <2> QED
      BY <2>1, <2>3, <2>4, <1>7
  <1> HIDE DEF G
  <1>13. \A n, m \in {0} \cup Node, x \in Node : x \in Range(Lists[n]) /\ x \in Range(Lists[m]) => n = m
    BY <1>2 DEF OneParent
  <1>14. on # 0 /\ Range(li[on]) \subseteq G
    BY <1>2, <1>4, <1>5, <1>7, <1>10
  <1>15. \A m \in G : Range(li[m]) \subseteq G /\ kd[m] # "scope" /\ m # 0
    <2> SUFFICES ASSUME NEW m \in G PROVE Range(li[m]) \subseteq G /\ kd[m] # "scope" /\ m # 0
      OBVIOUS
    <2>1. m # on /\ m \in Node /\ m # 0
      BY <1>10, <1>12
    <2> QED
      BY <2>1, <1>5, <1>6, <1>10
  <1>16. \A n \in {0} \cup Node : n \notin G /\ n # on => Range(li[n]) \cap G = {}
    <2> SUFFICES ASSUME NEW n \in {0} \cup Node, n \notin G, n # on, NEW x \in Range(li[n]), x \in G PROVE FALSE
      OBVIOUS
    <2>1. x \in Range(Lists[n]) /\ x \in Node
      BY <1>2, <1>5
    <2>2. x \in M
      BY <2>1, <1>10
    <2>3. CASE x \in Range(Lists[on])
      BY <2>1, <2>3, <1>4, <1>13
    <2>4. CASE x \in Range(g)
      <3>1. x \in Range(Lists[o])
        BY <2>4, <1>3, <1>5
      <3>2. n = o
        BY <2>1, <3>1, <1>3, <1>13
      <3> QED
        BY <3>2, <2>4, <1>5
    <2> QED
      BY <2>2, <2>3, <2>4, <1>7
  <1>17. \A n \in {0} \cup Node : n # on => \A k \in Range(li[n]) : kd[k] # "scope" /\ inScope[k] = ForOf(kd, inScope, n)
    <2> SUFFICES ASSUME NEW n \in {0} \cup Node, n # on, NEW k \in Range(li[n])
                 PROVE  kd[k] # "scope" /\ inScope[k] = ForOf(kd, inScope, n)
      OBVIOUS
    <2>1. k \in Range(Lists[n]) /\ k \in Node
      BY <1>2, <1>5
    <2>2. k # on
      BY <2>1, <1>4, <1>5, <1>13
    <2>3. kind[k] # "scope" /\ inScope[k] = ForOf(kind, inScope, n)
      BY <2>1, <1>8
    <2>4. ForOf(kd, inScope, n) = ForOf(kind, inScope, n)
      BY <1>6 DEF ForOf
    <2> QED
      BY <2>1, <2>2, <2>3, <2>4, <1>6
  <1>18. \A n \in {0} \cup Node : \A k \in Range(sc[n]) : kd[k] = "scope"
    <2> SUFFICES ASSUME NEW n \in {0} \cup Node, NEW k \in Range(sc[n]) PROVE kd[k] = "scope"
      OBVIOUS
    <2>1. k = on \/ k \in Range(Scps[n])
      BY <1>5
    <2>2. k \in Range(Scps[n]) => k \in Node /\ kind[k] = "scope"
      BY <1>2, <1>8
    <2> QED
      BY <2>1, <2>2, <1>6
  <1>19. \A n \in {0} \cup Node : Range(li[n]) \subseteq Node
    BY <1>2, <1>5, <1>7
  <1>20. PlacedTreesOf(Node, li, sc, kd, inScope, on, G, is)
    BY <1>4, <1>6, <1>11, <1>14, <1>15, <1>16, <1>17, <1>18, <1>19 DEF PlacedTreesOf
  <1> QED
    BY <1>20, PlacedTrees

\* The lists become what they are after that.
CloseStateOf(o, a, l, i, on, h, g, rest, li, sc, ch, given) ==
    /\ CloseIs(o, a, l, i, on, h, g, rest) /\ CloseNew(o, l, i, on, h, g, rest, li, sc)
    /\ o = Top.over /\ Node' = Node /\ Rewrite(rest, ch)
    /\ given = [kids EXCEPT ![on] = @ \o g]
    /\ ch = (IF h = o THEN given ELSE [given EXCEPT ![h] = Front(@)])
    /\ scopes' = [scopes EXCEPT ![h] = Append(@, on)]

\* The state after a closing brace has those lists.
LEMMA CloseState ==
    ASSUME TreesInv, NEW o, NEW a, NEW l, NEW i, NEW on, NEW h, NEW g, NEW rest, NEW li, NEW sc,
           NEW ch, NEW given, CloseStateOf(o, a, l, i, on, h, g, rest, li, sc, ch, given)
    PROVE  TreesInv' /\ Lists' = li /\ Scps' = sc
  <1>0. /\ CloseIs(o, a, l, i, on, h, g, rest) /\ CloseNew(o, l, i, on, h, g, rest, li, sc)
        /\ o = Top.over /\ Node' = Node /\ Rewrite(rest, ch)
        /\ given = [kids EXCEPT ![on] = @ \o g]
        /\ ch = (IF h = o THEN given ELSE [given EXCEPT ![h] = Front(@)])
        /\ scopes' = [scopes EXCEPT ![h] = Append(@, on)]
    BY DEF CloseStateOf
  <1>1. ForestOf
    BY ForestHas
  <1>2. /\ kids \in [Node -> Seq(Node)] /\ (\A n \in Node : Lists[n] = kids[n]) /\ Lists[0] = result
        /\ scopes \in [{0} \cup Node -> Seq(Node)] /\ (\A n \in {0} \cup Node : Scps[n] = scopes[n])
        /\ 0 \notin Node
    BY <1>1 DEF ForestOf
  <1>3. o \in {0} \cup Node /\ on \in Node /\ h \in {0} \cup Node /\ on # o /\ on # h /\ (h # o => h \in Node)
    BY <1>0 DEF CloseIs, Opens
  <1>4. /\ Trees(Node, li, sc) /\ li[o] = rest /\ li[on] = Lists[on] \o g
        /\ (h # o => li[h] = Front(Lists[h]))
        /\ (\A n \in {0} \cup Node : n # o /\ n # on /\ n # h => li[n] = Lists[n])
        /\ sc[h] = Append(Scps[h], on) /\ (\A n \in {0} \cup Node : n # h => sc[n] = Scps[n])
    BY <1>0 DEF CloseNew
  <1>5. DOMAIN given = Node /\ (\A n \in Node : given[n] = IF n = on THEN kids[n] \o g ELSE kids[n])
        /\ given = [n \in Node |-> given[n]]
    BY <1>0, <1>2, <1>3
  <1>6. DOMAIN ch = Node /\ ch = [n \in Node |-> ch[n]]
        /\ \A n \in Node : ch[n] = IF h # o /\ n = h THEN Front(given[h]) ELSE given[n]
    <2>1. CASE h = o
      BY <2>1, <1>0, <1>5
    <2>2. CASE h # o
      BY Zenon, <2>2, <1>0, <1>5, <1>3
    <2> QED
      BY <2>1, <2>2
  <1>7. \A n \in Node : n # o => ch[n] = li[n]
    <2> SUFFICES ASSUME NEW n \in Node, n # o PROVE ch[n] = li[n]
      OBVIOUS
    <2>1. CASE n = on
      BY Zenon, <2>1, <1>2, <1>3, <1>4, <1>5, <1>6
    <2>2. CASE n = h
      BY <2>2, <1>2, <1>3, <1>4, <1>5, <1>6
    <2>3. CASE n # on /\ n # h
      BY ZenonT(60), <2>3, <1>2, <1>3, <1>4, <1>5, <1>6
    <2> QED
      BY <2>1, <2>2, <2>3
  <1>8. o # 0 => li[0] = result
    <2> SUFFICES ASSUME o # 0 PROVE li[0] = result
      OBVIOUS
    <2>1. 0 # o /\ 0 # on /\ 0 # h
      BY <1>2, <1>3
    <2> QED
      BY <2>1, <1>2, <1>4
  <1> DEFINE s2 == scopes'
  <1>9. DOMAIN s2 = {0} \cup Node /\ s2 = [n \in {0} \cup Node |-> s2[n]] /\ \A n \in {0} \cup Node : s2[n] = sc[n]
    <2>1. s2 = [scopes EXCEPT ![h] = Append(scopes[h], on)]
      BY SMTT(60), <1>0
    <2> HIDE DEF s2
    <2>2. DOMAIN s2 = {0} \cup Node /\ s2 = [n \in {0} \cup Node |-> s2[n]]
          /\ \A n \in {0} \cup Node : s2[n] = IF n = h THEN Append(scopes[h], on) ELSE scopes[n]
      BY <2>1, <1>2
    <2> QED
      BY Zenon, <2>2, <1>2, <1>3, <1>4
  <1>10. RewrittenOf(Node, li, sc, rest, ch)
    <2>1. Top.over \in {0} \cup Node /\ li[Top.over] = rest
      BY <1>0, <1>3, <1>4
    <2> QED
      BY <2>1, <1>0, <1>4, <1>6, <1>7, <1>8, <1>9 DEF RewrittenOf, s2
  <1> QED
    BY <1>0, <1>10, Rewritten DEF RewrittenGives

\* What CloseBrace does, with its parts named.
ClosingOf(o, a, l, i, on, h, g, rest, given, ch) ==
    /\ o = Top.over /\ a = Top.at /\ l = list /\ h = HolderOf(on)
    /\ g = SubSeq(l, i + 1, a - 1)
    /\ rest = (IF h = o THEN RestWithout(l, i, a) ELSE RestFrom(l, i, a))
    /\ given = [kids EXCEPT ![on] = @ \o g]
    /\ ch = (IF h = o THEN given ELSE [given EXCEPT ![h] = Front(@)])
    /\ Rewrite(rest, ch)
    /\ kind' = [kind EXCEPT ![on] = "scope"]
    /\ scopes' = [scopes EXCEPT ![h] = Append(@, on)]
    /\ inScope' = Placed(Range(given[on]), on)
    /\ passes' = Append(Front(passes), Returned(Top, i))
    /\ stage' = (IF i > Len(rest) THEN "failed" ELSE stage)
    /\ ~Passed /\ Top.step = "begun" /\ kind[node] = "rbrace" /\ stage = "scoping"
    /\ i \in 1 .. a - 1 /\ on = Opening(l[i]) /\ kind[on] = "lbrace"
    /\ UNCHANGED <<program, unary, parened, token, index, left>>

\* What the handler of a closing brace does, with the nodes it works on named.
LEMMA ClosingIs ==
    ASSUME TreesInv, ScopingPasses, CloseBrace
    PROVE  \E o, a, l, i, on, h, g, rest, given, ch : ClosingOf(o, a, l, i, on, h, g, rest, given, ch)
  <1>1. TopIs
    BY TopFacts DEF ScopingPasses
  <1> DEFINE i == Max(Openings)
             on == Opening(list[i])
             h == HolderOf(on)
             g == SubSeq(list, i + 1, Top.at - 1)
             before == SubSeq(list, 1, i)
             rest == (IF h = Top.over THEN Front(before) ELSE before) \o SubSeq(list, Top.at + 1, Len(list))
             given == [kids EXCEPT ![on] = @ \o g]
             ch == IF h = Top.over THEN given ELSE [given EXCEPT ![h] = Front(@)]
             l == list
             a == Top.at
             o == Top.over
  <1>2. /\ Rewrite(rest, ch) /\ kind' = [kind EXCEPT ![on] = "scope"]
        /\ scopes' = [scopes EXCEPT ![h] = Append(@, on)]
        /\ inScope' = Placed(Range(given[on]), on)
        /\ passes' = Append(Front(passes), Returned(Top, i))
        /\ stage' = (IF i > Len(rest) THEN "failed" ELSE stage)
        /\ ~Passed /\ Top.step = "begun" /\ kind[node] = "rbrace" /\ Openings # {} /\ stage = "scoping"
        /\ UNCHANGED <<program, unary, parened, token, index, left>>
    BY ZenonT(60) DEF CloseBrace, Scopes, Continue
  <1>3. i \in Openings
    <2>1. Openings \in SUBSET (1 .. Top.at - 1) /\ Top.at - 1 \in Nat
      BY <1>1 DEF Openings, TopIs
    <2> HIDE DEF i
    <2> DEFINE n == Top.at - 1
               T == Openings
    <2>2. T \in SUBSET (1 .. n) /\ n \in Nat /\ T # {}
      BY <2>1, <1>2
    <2> HIDE DEF n, T
    <2>3. Max(T) \in T
      BY <2>2, MaxOf
    <2> QED
      BY <2>3 DEF T, i
  <1>4. i \in 1 .. a - 1 /\ on = Opening(l[i]) /\ kind[on] = "lbrace"
    BY SMTT(60), <1>3 DEF Openings
  <1>5. rest = IF h = o THEN RestWithout(l, i, a) ELSE RestFrom(l, i, a)
    BY DEF RestWithout, RestFrom
  <1> HIDE DEF i, on, h, g, rest, given, ch
  <1>6. ClosingOf(o, a, l, i, on, h, g, rest, given, ch)
    <2>1. h = HolderOf(on) /\ g = SubSeq(l, i + 1, a - 1)
      BY DEF h, g
    <2>2. given = [kids EXCEPT ![on] = @ \o g]
      BY DEF given
    <2>3. ch = IF h = o THEN given ELSE [given EXCEPT ![h] = Front(@)]
      BY DEF ch
    <2> QED
      BY Zenon, <1>2, <1>4, <1>5, <2>1, <2>2, <2>3 DEF ClosingOf
  <1> QED
    BY <1>6

\* A closing brace keeps the invariant where the compiler goes on.
LEMMA CloseStep ==
    ASSUME Typed, TreesInv, Placement, ScopingPasses, CloseBrace
    PROVE  /\ Typed' /\ TreesInv' /\ Placement'
           /\ stage' = stage => ScopingPasses'
           /\ stage' \in {stage, "failed"}
  <1>1. TopIs /\ Fits(Node, Lists, Scps, kind, passes) /\ left = 0
    BY TopFacts DEF ScopingPasses
  <1>2. ForestOf
    BY ForestHas
  <1>3. PICK o, a, l, i, on, h, g, rest, given, ch : ClosingOf(o, a, l, i, on, h, g, rest, given, ch)
    BY ClosingIs
  <1>4. /\ o = Top.over /\ a = Top.at /\ l = list /\ h = HolderOf(on)
        /\ ~Passed /\ Top.step = "begun" /\ kind[node] = "rbrace" /\ stage = "scoping"
        /\ i \in 1 .. a - 1 /\ on = Opening(l[i]) /\ kind[on] = "lbrace"
    BY Zenon, <1>3 DEF ClosingOf
  <1>a. /\ g = SubSeq(l, i + 1, a - 1)
        /\ rest = (IF h = o THEN RestWithout(l, i, a) ELSE RestFrom(l, i, a))
    BY Zenon, <1>3 DEF ClosingOf
  <1>b. /\ given = [kids EXCEPT ![on] = @ \o g]
        /\ ch = (IF h = o THEN given ELSE [given EXCEPT ![h] = Front(@)])
        /\ Rewrite(rest, ch)
        /\ scopes' = [scopes EXCEPT ![h] = Append(@, on)]
    BY Zenon, <1>3 DEF ClosingOf
  <1>c. kind' = [kind EXCEPT ![on] = "scope"] /\ inScope' = Placed(Range(given[on]), on)
    BY Zenon, <1>3 DEF ClosingOf
  <1>d. /\ passes' = Append(Front(passes), Returned(Top, i))
        /\ stage' = (IF i > Len(rest) THEN "failed" ELSE stage)
        /\ UNCHANGED <<program, unary, parened, token, index, left>>
    BY Zenon, <1>3 DEF ClosingOf
  <1>5. /\ o \in {0} \cup Node /\ o \in Nat /\ Lists[o] = l /\ l \in Seq(Node) /\ Distinct(l) /\ Len(l) \in Nat
        /\ a \in 1 .. Len(l) /\ i \in 1 .. Len(l) /\ l[i] \in Range(l) /\ l[i] \in Node
        /\ PassIn(Node, l, kind, Top) /\ passes # <<>> /\ passes \in Seq(PassOf(Node)) /\ Top = passes[Len(passes)]
        /\ Top \in PassOf(Node)
    <2>1. /\ o \in {0} \cup Node /\ o \in Nat /\ Lists[o] = l /\ l \in Seq(Node) /\ Distinct(l) /\ Len(l) \in Nat
          /\ a \in 1 .. Len(l)
          /\ PassIn(Node, l, kind, Top) /\ passes # <<>> /\ passes \in Seq(PassOf(Node)) /\ Top = passes[Len(passes)]
          /\ Top \in PassOf(Node) /\ (\A k \in 1 .. Len(l) : l[k] \in Node /\ l[k] \in Range(l))
      BY <1>1, <1>4 DEF TopIs
    <2>2. i \in 1 .. Len(l)
      BY <2>1, <1>4
    <2> QED
      BY <2>1, <2>2
  <1>6. Opens(o, l[i], on, h)
    <2>1. OpensAt(o, l[i], on)
      BY <1>4, <1>5 DEF OpensAt
    <2> QED
      BY <2>1, <1>4, HolderFacts
  <1>7. CloseIs(o, a, l, i, on, h, g, rest)
    BY Zenon, <1>4, <1>5, <1>6, <1>a DEF CloseIs
  <1> DEFINE li == CloseLists(o, a, l, i, on, h, g, rest)
             sc == CloseScps(h, on)
             k2 == kind'
             is2 == inScope'
             p == Returned(Top, i)
  <1>8. CloseNew(o, l, i, on, h, g, rest, li, sc)
    <2> DEFINE y == li
               z == sc
    <2>1. y = CloseLists(o, a, l, i, on, h, g, rest) /\ z = CloseScps(h, on)
      OBVIOUS
    <2> HIDE DEF y, z
    <2>2. CloseNew(o, l, i, on, h, g, rest, y, z)
      BY <1>7, <2>1, CloseTrees
    <2> QED
      BY <2>2 DEF y, z
  <1> HIDE DEF li, sc
  <1>9. on \in Node /\ h \in {0} \cup Node /\ on \in Below(Edges, l[i]) /\ h \in Below(Edges, o)
    BY <1>6 DEF Opens
  <1>10. /\ k2 \in Seq(Kinds) /\ Node' = Node /\ k2[on] = "scope" /\ (\A n \in Node : n # on => k2[n] = kind[n])
    <2>1. kind \in Seq(Kinds) /\ "scope" \in Kinds /\ on \in 1 .. Len(kind)
      BY <1>9 DEF Typed, Kinds, Node
    <2>2. /\ k2 \in Seq(Kinds) /\ Len(k2) = Len(kind) /\ k2[on] = "scope" /\ \A n \in 1 .. Len(kind) : n # on => k2[n] = kind[n]
      <3> DEFINE K == Kinds
      <3>1. kind \in Seq(K) /\ "scope" \in K /\ on \in 1 .. Len(kind) /\ k2 = [kind EXCEPT ![on] = "scope"]
        BY Zenon, <2>1, <1>c
      <3> HIDE DEF K, k2
      <3>2. k2 \in Seq(K) /\ Len(k2) = Len(kind)
        BY <3>1
      <3>3. k2[on] = "scope" /\ \A n \in 1 .. Len(kind) : n # on => k2[n] = kind[n]
        BY <3>1
      <3> QED
        BY <3>2, <3>3 DEF K
    <2> QED
      BY <2>2 DEF Node
  <1>11. TreesInv' /\ Lists' = li /\ Scps' = sc
    <2>1. CloseStateOf(o, a, l, i, on, h, g, rest, li, sc, ch, given)
      BY Zenon, <1>4, <1>b, <1>7, <1>8, <1>10 DEF CloseStateOf
    <2> QED
      BY <2>1, CloseState
  <1>12. given[on] = kids[on] \o g /\ inScope \in [Node -> {Root} \cup Node]
    <2>1. kids \in [Node -> Seq(Node)]
      BY <1>2 DEF ForestOf
    <2> QED
      BY ZenonT(60), <2>1, <1>b, <1>9 DEF Typed
  <1>13. Placement'
    <2>1. is2 = Placed(Range(kids[on] \o g), on)
      BY Zenon, <1>c, <1>12
    <2> HIDE DEF k2, is2
    <2>2. ClosedOf(o, a, l, i, on, h, g, rest, li, sc, k2, is2)
      BY <2>1, <1>7, <1>8, <1>10 DEF ClosedOf
    <2>3. PlacementOf(Node, li, sc, k2, is2)
      BY <2>2, <1>12, ClosePlaced
    <2> QED
      BY <2>3, <1>10, <1>11 DEF Placement, k2, is2
  <1>14. Typed'
    <2>1. Token' = Token
      BY <1>d DEF Token
    <2>2. is2 \in [Node -> {Root} \cup Node]
      <3>1. is2 = Placed(Range(kids[on] \o g), on)
        BY Zenon, <1>c, <1>12
      <3> DEFINE X == UNION {Tree(m) : m \in Range(kids[on] \o g)}
      <3>2. is2 = [n \in Node |-> IF n \in X THEN on ELSE inScope[n]]
        BY <3>1 DEF Placed
      <3> HIDE DEF X, is2
      <3> QED
        BY <3>2, <1>9, <1>12
    <2> HIDE DEF k2, is2
    <2>3. kind' \in Seq(Kinds) /\ inScope' \in [Node -> {Root} \cup Node]
      BY <1>10, <2>2 DEF k2, is2
    <2> QED
      BY <2>1, <2>3, <1>d, <1>10 DEF Typed
  <1>15. ASSUME stage' = stage PROVE ScopingPasses'
    <2> HIDE DEF k2, is2
    <2>1. li[o] = rest /\ Len(rest) \in Nat
          /\ (\A n \in {0} \cup Node : n # o /\ n # on /\ n # h => li[n] = Lists[n])
          /\ (\A n \in {0} \cup Node : n # h => sc[n] = Scps[n])
      BY <1>8 DEF CloseNew
    <2>2. Top.held = <<>> /\ i <= Len(rest) /\ i \in Nat /\ 1 <= i
      <3>1. i <= Len(rest)
        BY <1>d, <1>5, <1>15, <2>1, <1>4
      <3>2. Top.held = <<>>
        <4>1. Top.held # <<>> => Top.at <= Len(l) /\ (Top.step = "begun" => kind[l[Top.at]] # "rbrace")
          BY <1>5 DEF PassIn
        <4>2. kind[l[Top.at]] = "rbrace"
          BY <1>4 DEF node
        <4> QED
          BY <4>1, <4>2, <1>4
      <3> QED
        BY <3>1, <3>2, <1>5
    <2>3. BackOf(Node, rest, Top, i)
      BY <2>1, <2>2, <1>5 DEF BackOf
    <2>4. PassIn(Node, rest, k2, p) /\ p.over = o
      BY <2>3, <1>4, ReturnedIn
    <2> HIDE DEF p
    <2>5. \A n \in {0} \cup Node : n \notin Below(Edges, o) => li[n] = Lists[n] /\ sc[n] = Scps[n]
      <3>1. Edges \in Edges0 /\ l[i] \in Edges[o]
        BY <1>2, <1>5 DEF ForestOf
      <3>2. o \in Below(Edges, o) /\ Below(Edges, l[i]) \subseteq Below(Edges, o)
        BY <3>1, <1>5, BelowFacts, BelowChild
      <3>3. on \in Below(Edges, o)
        BY <3>2, <1>9
      <3> QED
        BY <2>1, <3>2, <3>3, <1>9
    <2>6. Trees(Node, Lists, Scps)
      BY <1>2 DEF ForestOf
    <2>7. StaysOf(Node, Lists, Scps, passes, Node, li, sc, k2, p)
      <3>1. p.over = passes[Len(passes)].over /\ li[p.over] = rest /\ passes[Len(passes)].over = o
        BY Zenon, <1>4, <1>5, <2>1, <2>4
      <3>2. PassIn(Node, li[p.over], k2, p)
        BY Zenon, <3>1, <2>4
      <3> QED
        BY Zenon, <3>1, <3>2, <2>5 DEF StaysOf, Edges
    <2>8. Fits(Node, li, sc, k2, Append(Front(passes), p))
      BY <1>1, <2>6, <2>7, LowerStays
    <2> QED
      BY <1>1, <1>d, <1>10, <1>11, <2>8 DEF ScopingPasses, k2, p
  <1>16. stage' \in {stage, "failed"}
    BY <1>d
  <1> QED
    BY <1>11, <1>13, <1>14, <1>15, <1>16

-----------------------------------------------------------------------------
(* The handlers of stage t. *)

\* The last pass of stage t.
TypeIs ==
    /\ Top = passes[Len(passes)] /\ Top \in PassOf(Node) /\ passes # <<>> /\ passes \in Seq(PassOf(Node))
    /\ Len(passes) \in Nat /\ Len(passes) >= 1 /\ Top.step \in {"begun", "second"}
    /\ Top.over \in {0} \cup Node /\ Top.over \in Nat /\ Top.at \in Nat /\ Top.at >= 1
    /\ Top.at <= Len(list) + 1
    /\ Lists[Top.over] = list /\ list \in Seq(Node) /\ Distinct(list) /\ Len(list) \in Nat
    /\ Range(list) \subseteq Edges[Top.over]
    /\ (\A i \in 1 .. Len(list) : list[i] \in Node /\ list[i] \in Range(list))
    /\ (Top.step = "begun" => left = 0 \/ \E i \in 1 .. Top.at - 1 : left = list[i])
    /\ (~Passed => Top.at \in 1 .. Len(list) /\ node \in Node /\ node \in Range(list) /\ node = list[Top.at])

\* What is known of the last pass of stage t and its list.
LEMMA TypeFacts ==
    ASSUME TreesInv, TypingPasses
    PROVE  TypeIs
  <1>1. ForestOf
    BY ForestHas
  <1>2. /\ passes # <<>> /\ passes \in Seq(PassOf(Node)) /\ Top.at <= Len(list) + 1
        /\ (Top.step = "begun" => left = 0 \/ \E i \in 1 .. Top.at - 1 : left = list[i])
        /\ \A j \in 1 .. Len(passes) : passes[j].step \in {"begun", "second"}
    BY DEF TypingPasses
  <1>3. Top = passes[Len(passes)] /\ Top \in PassOf(Node) /\ Len(passes) \in Nat /\ Len(passes) >= 1
    <2> DEFINE P == PassOf(Node)
    <2>1. passes # <<>> /\ passes \in Seq(P)
      BY <1>2
    <2> HIDE DEF P
    <2>2. Last(passes) = passes[Len(passes)] /\ Last(passes) \in P /\ Len(passes) >= 1
      BY <2>1, FrontOf
    <2>3. Len(passes) \in Nat
      BY <2>1
    <2> QED
      BY <2>2, <2>3 DEF Top, P
  <1>4. Top.step \in {"begun", "second"}
    <2>1. Len(passes) \in 1 .. Len(passes)
      BY <1>3
    <2> QED
      BY <2>1, <1>2, <1>3
  <1>5. Top.over \in {0} \cup Node /\ Top.at \in Nat /\ Top.at >= 1
    <2>1. Top.over \in {0} \cup Node /\ Top.at \in Nat \ {0}
      BY <1>3, PassTyped
    <2> QED
      BY <2>1
  <1>6. Top.over \in Nat
    <2>1. Node \subseteq Nat
      BY <1>1 DEF ForestOf
    <2> DEFINE o == Top.over
    <2>2. o \in {0} \cup Node
      BY <1>5
    <2> HIDE DEF o
    <2>3. o \in Nat
      BY <2>1, <2>2
    <2> QED
      BY <2>3 DEF o
  <1>7. Lists[Top.over] = list /\ list \in Seq(Node) /\ Distinct(list) /\ Range(list) \subseteq Edges[Top.over]
    BY SMTT(60), <1>1, <1>5 DEF ForestOf, list
  <1>8. Len(list) \in Nat /\ \A i \in 1 .. Len(list) : list[i] \in Node /\ list[i] \in Range(list)
    BY <1>7, RangeOf
  <1>9. ~Passed => Top.at \in 1 .. Len(list) /\ node \in Node /\ node \in Range(list) /\ node = list[Top.at]
    BY <1>5, <1>8 DEF Passed, node
  <1> QED
    BY <1>2, <1>3, <1>4, <1>5, <1>6, <1>7, <1>8, <1>9 DEF TypeIs

\* The pass goes on over the same list.
GoesOn(p) ==
    /\ passes' = Append(Front(passes), p)
    /\ kids' = kids /\ result' = result /\ kind' = kind
    /\ p \in PassOf(Node) /\ p.over = Top.over /\ p.step \in {"begun", "second"} /\ p.at <= Len(list) + 1
    /\ (p.step = "begun" => left' = 0 \/ \E i \in 1 .. p.at - 1 : left' = list[i])

\* A pass of stage t may go on over the same list.
LEMMA TypingGoes ==
    ASSUME TreesInv, TypingPasses, NEW p, GoesOn(p)
    PROVE  TypingPasses'
  <1> DEFINE P == PassOf(Node)
             qs == passes'
             f == Front(passes)
             L == Len(passes)
  <1>1. TypeIs
    BY TypeFacts
  <1>2. /\ qs = Append(f, p) /\ p \in P /\ p.over = Top.over
        /\ p.step \in {"begun", "second"} /\ p.at <= Len(list) + 1
        /\ (p.step = "begun" => left' = 0 \/ \E i \in 1 .. p.at - 1 : left' = list[i])
    BY DEF GoesOn
  <1>3. passes \in Seq(P) /\ passes # <<>> /\ L \in Nat /\ L >= 1
    BY <1>1 DEF TypeIs
  <1>4. /\ \A j \in 1 .. L : passes[j].step \in {"begun", "second"}
        /\ \A j \in 1 .. L - 1 : passes[j].at = 1 /\ passes[j].step = "begun"
    BY DEF TypingPasses
  <1>5. Node' = Node
    BY DEF Node, GoesOn
  <1> HIDE DEF P, qs
  <1>6. f \in Seq(P) /\ Len(f) = L - 1 /\ \A j \in 1 .. L - 1 : f[j] = passes[j]
    BY <1>3, FrontOf
  <1> HIDE DEF f, L
  <1>7. /\ qs \in Seq(P) /\ Len(qs) = L /\ qs[L] = p /\ \A j \in 1 .. L - 1 : qs[j] = passes[j]
    <2>1. /\ Append(f, p) \in Seq(P) /\ Len(Append(f, p)) = Len(f) + 1 /\ Append(f, p)[Len(f) + 1] = p
          /\ \A j \in 1 .. Len(f) : Append(f, p)[j] = f[j]
      BY <1>2, <1>6, AppendOf
    <2> QED
      BY <2>1, <1>2, <1>3, <1>6
  <1>8. qs # <<>> /\ Last(qs) = p
    <2>1. qs # <<>>
      BY <1>3, <1>7
    <2>2. Last(qs) = qs[Len(qs)]
      BY <2>1, <1>7, FrontOf
    <2> QED
      BY <2>1, <2>2, <1>7
  <1>9. \A j \in 1 .. Len(qs) : qs[j].step \in {"begun", "second"}
    <2> SUFFICES ASSUME NEW j \in 1 .. L PROVE qs[j].step \in {"begun", "second"}
      BY <1>7
    <2>1. CASE j = L
      BY <2>1, <1>2, <1>7
    <2>2. CASE j # L
      BY <2>2, <1>3, <1>4, <1>7 DEF L
    <2> QED
      BY <2>1, <2>2
  <1>10. \A j \in 1 .. Len(qs) - 1 : qs[j].at = 1 /\ qs[j].step = "begun"
    BY <1>4, <1>7 DEF L
  <1>11. Top' = p
    BY <1>8 DEF Top, qs
  <1>12. list' = list
    <2>1. list' = IF p.over = Root THEN result' ELSE kids'[p.over]
      BY <1>11 DEF list, ListOf
    <2> QED
      BY <2>1, <1>2 DEF GoesOn, list, ListOf
  <1>13. /\ Top'.at <= Len(list') + 1
         /\ Top'.step = "begun" => left' = 0 \/ \E i \in 1 .. Top'.at - 1 : left' = list'[i]
    BY <1>2, <1>11, <1>12
  <1> QED
    BY <1>5, <1>7, <1>8, <1>9, <1>10, <1>13 DEF TypingPasses, P, qs

\* Nothing but the stage is over.
LEMMA NothingMoves ==
    ASSUME Typed, TreesInv, Placement, UNCHANGED <<program, trees, result, index, inScope>>,
           left' \in {0} \cup Node
    PROVE  Typed' /\ TreesInv' /\ Placement' /\ ListsStay
  <1>1. /\ program' = program /\ kind' = kind /\ kids' = kids /\ scopes' = scopes /\ unary' = unary
        /\ parened' = parened /\ token' = token /\ result' = result /\ index' = index /\ inScope' = inScope
    BY DEF trees
  <1>2. Node' = Node /\ Token' = Token /\ Home' = Home
    BY <1>1 DEF Node, Token, Home
  <1>3. ListsStay
    BY <1>1, <1>2 DEF ListsStay, Lists, Scps
  <1>4. Typed'
    BY <1>1, <1>2 DEF Typed
  <1>5. TreesInv'
    BY <1>1, <1>2 DEF TreesInv
  <1>6. Placement'
    BY <1>1, <1>2, <1>3 DEF Placement, ListsStay
  <1> QED
    BY <1>3, <1>4, <1>5, <1>6

\* A node passed over keeps the invariant.
LEMMA PassOverStep ==
    ASSUME Typed, TreesInv, Placement, TypingPasses, PassOver
    PROVE  Typed' /\ TreesInv' /\ Placement' /\ TypingPasses'
  <1>1. TypeIs
    BY TypeFacts
  <1> DEFINE p == [Top EXCEPT !.at = @ + 1]
  <1>2. /\ ~Passed /\ left' = (IF Due THEN node ELSE left)
        /\ passes' = Append(Front(passes), p)
        /\ UNCHANGED <<program, trees, result, index, inScope>>
    BY DEF PassOver, Types, Continue
  <1>3. left' \in {0} \cup Node
    BY <1>1, <1>2 DEF TypeIs, Typed
  <1>4. Typed' /\ TreesInv' /\ Placement'
    BY <1>2, <1>3, NothingMoves
  <1>5. p \in PassOf(Node) /\ p.over = Top.over /\ p.at = Top.at + 1 /\ p.step = Top.step
    <2>1. /\ Top \in PassOf(Node) /\ Top = Fields(Top, Top.at, Top.step, Top.held, Top.sub)
          /\ Top.at \in Nat \ {0} /\ Top.held \in Seq(Node) /\ Top.sub \in Nat
          /\ Top.step \in {"begun", "inner", "held", "second"}
      BY <1>1, PassTyped DEF TypeIs
    <2>2. p = Fields(Top, Top.at + 1, Top.step, Top.held, Top.sub)
      BY <2>1 DEF Fields
    <2>3. PassSetOf(Node, Top, Top.at + 1, Top.step, Top.held, Top.sub)
      BY <2>1 DEF PassSetOf
    <2> HIDE DEF p
    <2> QED
      BY <2>2, <2>3, PassSet
  <1> HIDE DEF p
  <1>6. p.at <= Len(list) + 1 /\ p.step \in {"begun", "second"}
    BY <1>1, <1>2, <1>5 DEF TypeIs
  <1>7. p.step = "begun" => left' = 0 \/ \E i \in 1 .. p.at - 1 : left' = list[i]
    <2> DEFINE a == Top.at
    <2> SUFFICES ASSUME p.step = "begun" PROVE left' = 0 \/ \E i \in 1 .. p.at - 1 : left' = list[i]
      OBVIOUS
    <2>1. a \in Nat /\ a >= 1 /\ p.at = a + 1 /\ node = list[a]
      BY <1>1, <1>2, <1>5 DEF TypeIs
    <2>2. left = 0 \/ \E i \in 1 .. a - 1 : left = list[i]
      BY <1>1, <1>5 DEF TypeIs
    <2> HIDE DEF a
    <2>3. CASE Due
      <3>1. left' = list[a] /\ a \in 1 .. p.at - 1
        BY <2>1, <2>3, <1>2
      <3> QED
        BY <3>1
    <2>4. CASE ~Due
      <3>1. left' = left
        BY <2>4, <1>2
      <3> QED
        BY <2>1, <2>2, <3>1
    <2> QED
      BY <2>3, <2>4
  <1>8. kids' = kids /\ result' = result /\ kind' = kind
    BY <1>2 DEF trees
  <1>9. GoesOn(p)
    BY <1>2, <1>5, <1>6, <1>7, <1>8 DEF GoesOn
  <1> QED
    BY <1>4, <1>9, TypingGoes

\* A pass with another place and step.
LEMMA ExceptAtStep ==
    ASSUME NEW p, p = Fields(p, p.at, p.step, p.held, p.sub), NEW a, NEW s,
           NEW q, q = [p EXCEPT !.at = a, !.step = s]
    PROVE  q = Fields(p, a, s, p.held, p.sub)
  BY DEF Fields

\* The second time over a list keeps the invariant.
LEMMA PassAgainStep ==
    ASSUME Typed, TreesInv, Placement, TypingPasses, PassAgain
    PROVE  Typed' /\ TreesInv' /\ Placement' /\ TypingPasses'
  <1>1. TypeIs
    BY TypeFacts
  <1> DEFINE p == [Top EXCEPT !.at = 1, !.step = "second"]
  <1>2. /\ passes' = Append(Front(passes), p)
        /\ UNCHANGED vars /\ inScope' = inScope
    BY DEF PassAgain, Continue
  <1>3. Typed' /\ TreesInv' /\ Placement'
    BY <1>2, SameLists
  <1>5. p \in PassOf(Node) /\ p.over = Top.over /\ p.at = 1 /\ p.step = "second"
    <2>1. /\ Top \in PassOf(Node) /\ Top = Fields(Top, Top.at, Top.step, Top.held, Top.sub)
          /\ Top.held \in Seq(Node) /\ Top.sub \in Nat
      BY <1>1, PassTyped DEF TypeIs
    <2> DEFINE t == Top
    <2>4. t = Fields(t, t.at, t.step, t.held, t.sub) /\ p = [t EXCEPT !.at = 1, !.step = "second"]
      BY <2>1
    <2> HIDE DEF t, p
    <2>5. p = Fields(t, 1, "second", t.held, t.sub)
      BY Zenon, <2>4, ExceptAtStep
    <2>2. p = Fields(Top, 1, "second", Top.held, Top.sub)
      BY <2>5 DEF t
    <2>3. PassSetOf(Node, Top, 1, "second", Top.held, Top.sub)
      BY <2>1 DEF PassSetOf
    <2> HIDE DEF p
    <2> QED
      BY <2>2, <2>3, PassSet
  <1> HIDE DEF p
  <1>6. p.at <= Len(list) + 1 /\ p.step \in {"begun", "second"} /\ p.step # "begun"
    BY <1>1, <1>5 DEF TypeIs
  <1>8. kids' = kids /\ result' = result /\ kind' = kind
    BY <1>2 DEF vars, trees
  <1>9. GoesOn(p)
    BY <1>2, <1>5, <1>6, <1>8 DEF GoesOn
  <1> QED
    BY <1>3, <1>9, TypingGoes

\* The node of the pass leaves the list.
Leaves ==
    /\ ~Passed /\ passes' = passes /\ kind' = kind
    /\ Rewrite(RemoveAt(list, Top.at), kids)
    /\ left' = IF Top.at > 1 THEN list[Top.at - 1] ELSE 0

\* What is known of the list when its node has left it.
LEMMA LeavesIs ==
    ASSUME TreesInv, TypingPasses, Leaves
    PROVE  /\ RemoveAt(list, Top.at) \in Seq(Node) /\ Distinct(RemoveAt(list, Top.at))
           /\ Len(RemoveAt(list, Top.at)) \in Nat /\ Len(RemoveAt(list, Top.at)) = Len(list) - 1
           /\ Range(RemoveAt(list, Top.at)) \subseteq Range(list)
           /\ \A j \in 1 .. Top.at - 1 : RemoveAt(list, Top.at)[j] = list[j]
           /\ left' \in {0} \cup Node
  <1> DEFINE s == list
             a == Top.at
             v == RemoveAt(s, a)
  <1>1. TypeIs
    BY TypeFacts
  <1>2. s \in Seq(Node) /\ Distinct(s) /\ Len(s) \in Nat /\ a \in 1 .. Len(s) /\ a \in Nat
        /\ \A i \in 1 .. Len(s) : s[i] \in Node
    BY <1>1 DEF TypeIs, Leaves
  <1>3. left' = IF a > 1 THEN s[a - 1] ELSE 0
    BY DEF Leaves
  <1> HIDE DEF s, a
  <1>4. /\ v \in Seq(Node) /\ Len(v) = Len(s) - 1
        /\ \A j \in 1 .. Len(s) - 1 : v[j] = IF j < a THEN s[j] ELSE s[j + 1]
        /\ Range(v) \subseteq Range(s) /\ Distinct(v)
    BY <1>2, RemoveOf
  <1>5. Len(v) \in Nat
    BY <1>4
  <1>6. \A j \in 1 .. a - 1 : v[j] = s[j]
    BY <1>2, <1>4
  <1>7. left' \in {0} \cup Node
    BY <1>2, <1>3
  <1> QED
    BY <1>4, <1>5, <1>6, <1>7 DEF s, a

\* A pass of stage t may lose the node it is at.
LEMMA TypingLeaves ==
    ASSUME TreesInv, TypingPasses, Leaves
    PROVE  TypingPasses'
  <1> DEFINE s == list
             a == Top.at
             v == RemoveAt(list, Top.at)
             o == Top.over
  <1>1. TypeIs
    BY TypeFacts
  <1>2. /\ v \in Seq(Node) /\ Len(v) \in Nat /\ Len(v) = Len(s) - 1
        /\ \A j \in 1 .. a - 1 : v[j] = s[j]
    BY LeavesIs
  <1>3. /\ a \in Nat /\ a >= 1 /\ a <= Len(s) /\ Len(s) \in Nat /\ o \in {0} \cup Node
    BY <1>1 DEF TypeIs, Leaves
  <1>4. /\ passes' = passes /\ kind' = kind /\ Rewrite(v, kids)
        /\ left' = (IF a > 1 THEN s[a - 1] ELSE 0)
    BY DEF Leaves
  <1>5. Top' = Top /\ Node' = Node
    BY <1>4 DEF Top, Node
  <1>6. list' = v
    <2>1. list' = IF o = Root THEN result' ELSE kids'[o]
      BY <1>5 DEF list, ListOf
    <2>2. kids \in [Node -> Seq(Node)]
      BY ForestHas DEF ForestOf
    <2> HIDE DEF v, o
    <2>3. CASE o = Root
      BY <2>1, <2>3, <1>4 DEF Rewrite, o
    <2>4. CASE o # Root
      <3>1. kids' = [kids EXCEPT ![o] = v] /\ o \in Node
        BY <2>4, <1>3, <1>4 DEF Rewrite, Root, o
      <3> QED
        BY <2>1, <2>2, <2>4, <3>1
    <2> QED
      BY <2>3, <2>4
  <1> HIDE DEF v, s, a
  <1>7. a <= Len(v) + 1 /\ (left' = 0 \/ \E i \in 1 .. a - 1 : left' = v[i])
    <2>1. CASE a > 1
      <3>1. a - 1 \in 1 .. a - 1 /\ left' = v[a - 1]
        BY <2>1, <1>2, <1>3, <1>4
      <3> QED
        BY <3>1, <1>2, <1>3
    <2>2. CASE ~(a > 1)
      BY <2>2, <1>2, <1>3, <1>4
    <2> QED
      BY <2>1, <2>2
  <1>8. Top'.at <= Len(list') + 1 /\ (Top'.step = "begun" => left' = 0 \/ \E i \in 1 .. Top'.at - 1 : left' = list'[i])
    BY <1>5, <1>6, <1>7 DEF a
  <1> QED
    BY <1>4, <1>5, <1>8 DEF TypingPasses

\* A separator that is dropped keeps the invariant where the compiler goes on.
LEMMA DropStep ==
    ASSUME Typed, TreesInv, Placement, TypingPasses, Drop
    PROVE  Typed' /\ TreesInv' /\ Placement' /\ TypingPasses' /\ stage' \in {stage, "failed"}
  <1> DEFINE v == RemoveAt(list, Top.at)
  <1>1. TypeIs
    BY TypeFacts
  <1>2. Leaves /\ UNCHANGED <<program, kind, scopes, unary, parened, token, index, inScope>>
        /\ stage' \in {stage, "failed"}
    BY DEF Drop, Types, Leaves
  <1>3. v \in Seq(Node) /\ Distinct(v) /\ Range(v) \subseteq Range(list) /\ left' \in {0} \cup Node
    BY <1>2, LeavesIs
  <1>4. Typed'
    BY <1>2, <1>3, TypedStays
  <1>5. TypingPasses'
    BY <1>2, TypingLeaves
  <1>6. Rewrite(v, kids)
    BY <1>2 DEF Leaves
  <1> HIDE DEF v
  <1>7. LosesTo(v)
    BY <1>1, <1>2, <1>3, <1>6 DEF LosesTo, TypeIs
  <1>8. TreesInv' /\ Placement'
    BY <1>7, LosesStep
  <1> QED
    BY <1>2, <1>4, <1>5, <1>8

\* Passes over the scopes inside a list keep the invariant.
LEMMA PassScopesStep ==
    ASSUME Typed, TreesInv, Placement, TypingPasses, PassScopes
    PROVE  /\ Typed' /\ TreesInv' /\ Placement' /\ stage' \in {stage, "done"}
           /\ stage' = "done" \/ TypingPasses'
  <1> DEFINE P == PassOf(Node)
             L == Len(passes)
             f == Front(passes)
             inside == ScopesIn(list)
             new == [i \in 1 .. Len(inside) |-> Pass(inside[i])]
             r == Reverse(new)
             ps == f \o r
  <1>1. TypeIs
    BY TypeFacts
  <1>2. /\ left' = 0 /\ passes' = ps /\ stage' = (IF ps = <<>> THEN "done" ELSE stage)
        /\ UNCHANGED <<program, trees, result, index, inScope>>
    BY DEF PassScopes
  <1>3. Typed' /\ TreesInv' /\ Placement'
    BY <1>2, NothingMoves
  <1>4. inside \in Seq(Node)
    BY <1>1, ScopesInFacts DEF TypeIs
  <1>5. passes \in Seq(P) /\ passes # <<>> /\ L \in Nat /\ L >= 1
    BY <1>1 DEF TypeIs
  <1>6. \A j \in 1 .. L - 1 : passes[j].at = 1 /\ passes[j].step = "begun"
    BY DEF TypingPasses
  <1>7. \A n \in Node : Pass(n) \in P /\ Pass(n).at = 1 /\ Pass(n).step = "begun"
    BY DEF Pass, PassOf
  <1> HIDE DEF P, inside
  <1>8. f \in Seq(P) /\ Len(f) = L - 1 /\ \A j \in 1 .. L - 1 : f[j] = passes[j]
    BY <1>5, FrontOf
  <1>9. \A j \in 1 .. Len(f) : f[j].at = 1 /\ f[j].step = "begun"
    BY <1>6, <1>8
  <1> HIDE DEF f, L
  <1>10. r \in Seq(P) /\ \A j \in 1 .. Len(r) : r[j].at = 1 /\ r[j].step = "begun"
    <2> DEFINE M == Len(inside)
    <2>1. M \in Nat /\ \A i \in 1 .. M : inside[i] \in Node
      BY <1>4
    <2>2. new = [i \in 1 .. M |-> Pass(inside[i])] /\ Len(new) = M
      BY <2>1
    <2> HIDE DEF M
    <2>3. \A i \in 1 .. M : new[i] \in P /\ new[i].at = 1 /\ new[i].step = "begun"
      BY <2>1, <2>2, <1>7
    <2>4. r = [i \in 1 .. M |-> new[M - i + 1]]
      BY <2>2 DEF Reverse
    <2> HIDE DEF new, r
    <2>5. \A i \in 1 .. M : M - i + 1 \in 1 .. M
      BY <2>1
    <2>6. \A i \in 1 .. M : r[i] = new[M - i + 1]
      BY <2>4
    <2>7. \A i \in 1 .. M : r[i] \in P /\ r[i].at = 1 /\ r[i].step = "begun"
      BY <2>3, <2>5, <2>6
    <2>8. r = [i \in 1 .. M |-> r[i]]
      BY <2>4, <2>6
    <2>9. r \in Seq(P) /\ Len(r) = M
      BY <2>1, <2>7, <2>8
    <2> QED
      BY <2>7, <2>9
  <1> HIDE DEF r
  <1>11. /\ f \o r \in Seq(P)
         /\ Len(f \o r) = Len(f) + Len(r)
         /\ \A i \in 1 .. Len(f) : (f \o r)[i] = f[i]
         /\ \A i \in 1 .. Len(r) : (f \o r)[Len(f) + i] = r[i]
    <2>1. f \in Seq(P) /\ r \in Seq(P)
      BY <1>8, <1>10
    <2> QED
      BY ONLY <2>1, ConcatOf
  <1>12. \A j \in 1 .. Len(ps) : ps[j].at = 1 /\ ps[j].step = "begun"
    <2> SUFFICES ASSUME NEW j \in 1 .. Len(ps) PROVE ps[j].at = 1 /\ ps[j].step = "begun"
      OBVIOUS
    <2> DEFINE A == Len(f)
               B == Len(r)
    <2>1. A \in Nat /\ B \in Nat
      BY <1>8, <1>10
    <2>2. Len(ps) = A + B /\ (\A i \in 1 .. A : ps[i] = f[i]) /\ \A i \in 1 .. B : ps[A + i] = r[i]
      BY <1>11
    <2>3. j \in 1 .. A + B
      BY <2>2
    <2> HIDE DEF ps
    <2>4. CASE j <= A
      <3>1. j \in 1 .. A
        BY <2>1, <2>3, <2>4
      <3> QED
        BY <3>1, <2>2, <1>9
    <2>5. CASE j > A
      <3> DEFINE k == j - A
      <3>1. k \in 1 .. B /\ j = A + k
        BY <2>1, <2>3, <2>5
      <3> HIDE DEF k, A, B
      <3>2. ps[A + k] = r[k]
        BY <2>2, <3>1
      <3> QED
        BY <3>1, <3>2, <1>10 DEF B
    <2> QED
      BY <2>1, <2>3, <2>4, <2>5
  <1> HIDE DEF ps
  <1>13. ps \in Seq(P)
    BY <1>11 DEF ps
  <1>14. ASSUME ps # <<>> PROVE TypingPasses'
    <2>1. kids' = kids /\ result' = result /\ kind' = kind
      BY <1>2 DEF trees
    <2> QED
      BY <2>1, <1>2, <1>12, <1>13, <1>14, TypingBegins DEF P
  <1> QED
    BY <1>2, <1>3, <1>14

\* Lists lose nodes, and scopes change hands.
PlacedJoinOf(N, li, sc, kd, is, li2, sc2, f) ==
    /\ PlacementOf(N, li, sc, kd, is) /\ f \in {0} \cup N
    /\ \A n \in {0} \cup N : /\ Range(li2[n]) \subseteq Range(li[n])
                             /\ Range(sc2[n]) \subseteq Range(sc[n]) \cup Range(sc[f])

\* Scopes that change hands and nodes that leave lists keep the placement.
LEMMA PlacedJoin ==
    ASSUME NEW N, NEW li, NEW sc, NEW kd, NEW is, NEW li2, NEW sc2, NEW f,
           PlacedJoinOf(N, li, sc, kd, is, li2, sc2, f)
    PROVE  PlacementOf(N, li2, sc2, kd, is)
  <1> SUFFICES ASSUME NEW n \in {0} \cup N
               PROVE  /\ \A k \in Range(li2[n]) : kd[k] # "scope" /\ is[k] = ForOf(kd, is, n)
                      /\ \A k \in Range(sc2[n]) : kd[k] = "scope"
    BY DEF PlacementOf
  <1>1. /\ Range(li2[n]) \subseteq Range(li[n]) /\ Range(sc2[n]) \subseteq Range(sc[n]) \cup Range(sc[f])
        /\ (\A k \in Range(li[n]) : kd[k] # "scope" /\ is[k] = ForOf(kd, is, n))
        /\ (\A k \in Range(sc[n]) : kd[k] = "scope") /\ \A k \in Range(sc[f]) : kd[k] = "scope"
    BY DEF PlacedJoinOf, PlacementOf
  <1> QED
    BY <1>1

\* What Join does: the node f of the list o gives its scope to q, below the r before it.
JoinIs(o, l, f, r, q, v) ==
    /\ o \in {0} \cup Node /\ l = Lists[o] /\ f \in Node /\ r \in Node /\ q \in Node
    /\ f \in Range(l) /\ r \in Range(l) /\ r # f /\ scopes[f] # <<>> /\ q \in Below(Edges, r)
    /\ v \in Seq(Node) /\ Distinct(v) /\ Range(v) \subseteq Range(l)

\* The lists and the scopes after that.
JoinNew(o, f, q, v, li2, sc2) ==
    /\ li2 = [Lists EXCEPT ![o] = v]
    /\ sc2 = [Scps EXCEPT ![q] = Append(Scps[q], Head(Scps[f])), ![f] = Tail(Scps[f])]

\* The lists after an else has been joined are a forest.
LEMMA JoinForest ==
    ASSUME TreesInv, NEW o, NEW l, NEW f, NEW r, NEW q, NEW v, JoinIs(o, l, f, r, q, v),
           NEW li2, NEW sc2, JoinNew(o, f, q, v, li2, sc2)
    PROVE  JoinGives(Node, Lists, Scps, li2, sc2, o, f, q, v)
  <1>1. ForestOf
    BY ForestHas
  <1>2. Trees(Node, Lists, Scps) /\ (\A n \in {0} \cup Node : Scps[n] = scopes[n])
    BY <1>1 DEF ForestOf
  <1>3. Scps[f] # <<>>
    BY <1>2 DEF JoinIs
  <1>4. JoinOf(Node, Lists, Scps, li2, sc2, o, f, r, q, v)
    BY <1>2, <1>3 DEF JoinOf, JoinIs, JoinNew, Edges
  <1> QED
    BY <1>2, <1>4, JoinTree

\* The state becomes that.
JoinStateOf(o, f, q, v, li2, sc2) ==
    /\ JoinGives(Node, Lists, Scps, li2, sc2, o, f, q, v) /\ JoinNew(o, f, q, v, li2, sc2)
    /\ o \in {0} \cup Node /\ o = Top.over /\ Node' = Node /\ Rewrite(v, kids)
    /\ scopes' = [scopes EXCEPT ![q] = Append(@, Head(scopes[f])), ![f] = Tail(@)]

\* The state after that has those lists.
LEMMA JoinState ==
    ASSUME TreesInv, NEW o, NEW f, NEW q, NEW v, NEW li2, NEW sc2, JoinStateOf(o, f, q, v, li2, sc2)
    PROVE  TreesInv' /\ Lists' = li2 /\ Scps' = sc2
  <1>1. ForestOf
    BY ForestHas
  <1>2. /\ kids \in [Node -> Seq(Node)] /\ (\A n \in Node : Lists[n] = kids[n]) /\ Lists[0] = result
        /\ scopes \in [{0} \cup Node -> Seq(Node)] /\ (\A n \in {0} \cup Node : Scps[n] = scopes[n])
        /\ 0 \notin Node /\ Node \subseteq Nat
    BY <1>1 DEF ForestOf
  <1>3. /\ o \in {0} \cup Node /\ o = Top.over /\ Node' = Node /\ Rewrite(v, kids)
        /\ scopes' = [scopes EXCEPT ![q] = Append(@, Head(scopes[f])), ![f] = Tail(@)]
        /\ sc2 = [Scps EXCEPT ![q] = Append(Scps[q], Head(Scps[f])), ![f] = Tail(Scps[f])]
        /\ Trees(Node, li2, sc2) /\ q \in Node /\ f \in Node /\ q # f /\ li2[o] = v
        /\ \A n \in Nat : n # o => li2[n] = Lists[n]
    BY DEF JoinStateOf, JoinGives, JoinNew
  <1>4. DOMAIN kids = Node /\ kids = [n \in Node |-> kids[n]] /\ (\A n \in Node : n # o => kids[n] = li2[n])
    BY <1>2, <1>3
  <1>5. o # 0 => li2[0] = result
    BY <1>2, <1>3
  <1> DEFINE s2 == scopes'
             x == Head(scopes[f])
             t == Tail(scopes[f])
  <1>6. s2 = [scopes EXCEPT ![q] = Append(scopes[q], x), ![f] = t]
    BY <1>2, <1>3
  <1>7. sc2 = [Scps EXCEPT ![q] = Append(scopes[q], x), ![f] = t]
    BY <1>2, <1>3
  <1>8. Scps \in [Nat -> Seq(Node)]
    BY <1>1 DEF ForestOf, Trees
  <1> HIDE DEF s2, x, t
  <1>9. DOMAIN s2 = {0} \cup Node /\ s2 = [n \in {0} \cup Node |-> s2[n]]
        /\ \A n \in {0} \cup Node : s2[n] = IF n = f THEN t ELSE IF n = q THEN Append(scopes[q], x) ELSE scopes[n]
    BY <1>2, <1>3, <1>6
  <1>10. \A n \in Nat : sc2[n] = IF n = f THEN t ELSE IF n = q THEN Append(scopes[q], x) ELSE Scps[n]
    BY <1>3, <1>7, <1>8
  <1>11. \A n \in {0} \cup Node : s2[n] = sc2[n]
    BY ZenonT(60), <1>2, <1>9, <1>10
  <1>12. RewrittenOf(Node, li2, sc2, v, kids)
    BY <1>3, <1>4, <1>5, <1>9, <1>11 DEF RewrittenOf, s2
  <1> QED
    BY <1>12, Rewritten DEF RewrittenGives

\* An else that gives its block to the end of a chain of ifs keeps the invariant.
LEMMA JoinStep ==
    ASSUME Typed, TreesInv, Placement, TypingPasses, JoinElse
    PROVE  Typed' /\ TreesInv' /\ Placement' /\ TypingPasses' /\ stage' = stage
  <1> DEFINE o == Top.over
             l == list
             a == Top.at
             f == node
             r == left
             q == ChainEnd(left)
             v == RemoveAt(list, Top.at)
             li2 == [Lists EXCEPT ![o] = v]
             sc2 == [Scps EXCEPT ![q] = Append(Scps[q], Head(Scps[f])), ![f] = Tail(Scps[f])]
  <1>1. TypeIs
    BY TypeFacts
  <1>2. /\ ~Passed /\ Due /\ scopes[f] # <<>> /\ a > 1 /\ r # 0
        /\ scopes' = [scopes EXCEPT ![q] = Append(@, Head(scopes[f])), ![f] = Tail(@)]
        /\ Rewrite(v, kids) /\ left' = l[a - 1]
        /\ UNCHANGED <<program, kind, unary, parened, token, index, stage, passes, inScope>>
    BY DEF JoinElse, Join, Types, AfterIf
  <1>3. Leaves
    BY <1>2 DEF Leaves
  <1>4. v \in Seq(Node) /\ Distinct(v) /\ Range(v) \subseteq Range(l) /\ left' \in {0} \cup Node
    BY <1>3, LeavesIs
  <1>5. TypingPasses'
    BY <1>3, TypingLeaves
  <1>6. Typed'
    BY <1>2, <1>4, TypedStays
  <1>7. /\ o \in {0} \cup Node /\ l = Lists[o] /\ f \in Node /\ f \in Range(l) /\ f = l[a]
        /\ l \in Seq(Node) /\ Distinct(l) /\ a \in 1 .. Len(l) /\ Len(l) \in Nat
    BY <1>1, <1>2 DEF TypeIs
  <1>8. r \in Node /\ r \in Range(l) /\ r # f
    <2>1. Top.step = "begun"
      BY <1>2 DEF Due
    <2>2. PICK i \in 1 .. a - 1 : r = l[i]
      BY <2>1, <1>1, <1>2 DEF TypeIs
    <2> HIDE DEF l, a, r, f
    <2>3. i \in 1 .. Len(l) /\ i # a
      BY <1>7
    <2>4. l[i] \in Node /\ l[i] \in Range(l)
      BY <2>3, <1>7, RangeOf
    <2>5. l[i] # l[a]
      BY <2>3, <1>7 DEF Distinct
    <2> QED
      BY <2>2, <2>4, <2>5, <1>7
  <1>9. q \in Node /\ q \in Below(Edges, r)
    BY <1>8, ChainFacts
  <1> HIDE DEF o, l, f, r, q, v, li2, sc2, a
  <1>10. JoinIs(o, l, f, r, q, v)
    BY <1>2, <1>4, <1>7, <1>8, <1>9 DEF JoinIs
  <1>11. JoinNew(o, f, q, v, li2, sc2)
    BY DEF JoinNew, li2, sc2
  <1>12. JoinGives(Node, Lists, Scps, li2, sc2, o, f, q, v)
    BY <1>10, <1>11, JoinForest
  <1>13. Node' = Node /\ kind' = kind /\ inScope' = inScope
    BY <1>2 DEF Node
  <1>14. JoinStateOf(o, f, q, v, li2, sc2)
    BY <1>2, <1>7, <1>11, <1>12, <1>13 DEF JoinStateOf, o
  <1>15. TreesInv' /\ Lists' = li2 /\ Scps' = sc2
    BY <1>14, JoinState
  <1>16. Placement'
    <2>1. \A n \in {0} \cup Node : n \in Nat
      BY ForestHas DEF ForestOf
    <2>2. PlacedJoinOf(Node, Lists, Scps, kind, inScope, li2, sc2, f)
      BY <2>1, <1>7, <1>12 DEF PlacedJoinOf, Placement, JoinGives
    <2>3. PlacementOf(Node, li2, sc2, kind, inScope)
      BY <2>2, PlacedJoin
    <2> QED
      BY <2>3, <1>13, <1>15 DEF Placement
  <1> QED
    BY <1>2, <1>5, <1>6, <1>15, <1>16

-----------------------------------------------------------------------------
(* The inductive invariant. *)

\* Tokens in a list, with no children and no scopes, are a forest.
LEMMA InitTree ==
    ASSUME NEW N, N \in SUBSET (Nat \ {0}), NEW res, res \in Seq(N), Distinct(res),
           NEW li, NEW sc, li = [n \in Nat |-> IF n = 0 THEN res ELSE <<>>], sc = [n \in Nat |-> <<>>]
    PROVE  Trees(N, li, sc)
  <1> DEFINE e == Joint(li, sc)
  <1>1. \A n \in Nat : li[n] = (IF n = 0 THEN res ELSE <<>>) /\ sc[n] = <<>>
    OBVIOUS
  <1>2. <<>> \in Seq(N) /\ Range(<<>>) = {} /\ Distinct(<<>>)
    BY DEF Range, Distinct
  <1>3. li \in [Nat -> Seq(N)] /\ sc \in [Nat -> Seq(N)]
    BY <1>2
  <1>4. Range(res) \subseteq N
    BY RangeOf
  <1>5. \A n \in Nat : e[n] = IF n = 0 THEN Range(res) ELSE {}
    BY <1>1, <1>2 DEF Joint
  <1>6. e = [n \in Nat |-> e[n]]
    BY DEF Joint
  <1> HIDE DEF e
  <1>7. e \in Edges0 /\ (\A p \in Nat : 0 \notin e[p]) /\ OneParent(e)
    BY <1>4, <1>5, <1>6 DEF Edges0, OneParent
  <1>8. Acyclic(e)
    <2> SUFFICES ASSUME NEW X \in SUBSET Nat, X # {} PROVE \E x \in X : e[x] \cap X = {}
      BY DEF Acyclic
    <2>1. CASE \E x \in X : x # 0
      BY <2>1, <1>5
    <2>2. CASE \A x \in X : x = 0
      <3>1. 0 \in X /\ e[0] \cap X = {}
        BY <2>2, <1>4, <1>5
      <3> QED
        BY <3>1
    <2> QED
      BY <2>1, <2>2
  <1>9. Forest(e)
    BY <1>7, <1>8 DEF Forest
  <1>10. \A n \in Nat : Distinct(li[n]) /\ Distinct(sc[n]) /\ Range(li[n]) \cap Range(sc[n]) = {}
    <2> SUFFICES ASSUME NEW n \in Nat
                 PROVE  Distinct(li[n]) /\ Distinct(sc[n]) /\ Range(li[n]) \cap Range(sc[n]) = {}
      BY Zenon
    <2>1. sc[n] = <<>> /\ (li[n] = res \/ li[n] = <<>>)
      BY <1>1
    <2> QED
      BY <2>1, <1>2
  <1>11. \A n \in Nat \ ({0} \cup N) : li[n] = <<>> /\ sc[n] = <<>>
    BY <1>1
  <1> QED
    BY <1>3, <1>9, <1>10, <1>11 DEF Trees, e

\* The inductive invariant.  The lists of children and of scopes are a forest in all
\* stages, or a handler that moves a node could make a cycle of it; every node is placed
\* in the scope its list belongs to, or a node that moves would bring the wrong one with
\* it; and the stack of passes fits the lists, or a handler would go on at a place that
\* is not its own.
ParseInv ==
    /\ Typed /\ TreesInv
    /\ stage \in {"assembling", "scoping", "typing", "done", "failed"}
    /\ stage = "assembling" => Placing /\ Flat
    /\ stage \in {"scoping", "typing", "done"} => Placement
    /\ stage = "scoping" => ScopingPasses
    /\ stage = "typing" => TypingPasses

\* The tokens of every program satisfy the invariant.
LEMMA InitInv ==
    ASSUME ParseInit
    PROVE  ParseInv
  <1>1. /\ program \in Programs /\ kind = program /\ kids = [n \in Token |-> <<>>]
        /\ scopes = [n \in {Root} \cup Token |-> <<>>] /\ unary = {} /\ parened = {}
        /\ token = [n \in Token |-> n] /\ result = [n \in Token |-> n] /\ index = 1 /\ left = 0
        /\ stage = "assembling" /\ inScope = [n \in Token |-> Root]
    BY DEF ParseInit, Init
  <1>2. program \in Seq(TokenKind)
    BY <1>1, ProgramsAssumption
  <1>3. TokenKind \subseteq Kinds /\ "scope" \notin TokenKind
    BY DEF TokenKind, Kinds, Made
  <1> DEFINE K == TokenKind
             L == Len(program)
  <1>4. L \in Nat /\ Token = 1 .. L /\ Node = 1 .. L /\ \A n \in 1 .. L : program[n] \in K
    <2>1. program \in Seq(K)
      BY <1>2
    <2> HIDE DEF K
    <2> QED
      BY <2>1, <1>1 DEF Token, Node
  <1>5. program \in Seq(Kinds)
    BY <1>2, <1>3, SeqMore
  <1> HIDE DEF K, L
  <1>6. Node \in SUBSET (Nat \ {0}) /\ 0 \notin Node /\ Token = Node
    BY <1>4
  <1>7. result \in Seq(Node) /\ Distinct(result) /\ Len(result) = L
    <2>1. result = [n \in 1 .. L |-> n] /\ L \in Nat /\ Node = 1 .. L
      BY <1>1, <1>4
    <2>2. result \in Seq(Node) /\ Len(result) = L
      BY <2>1
    <2>3. \A i \in 1 .. L : result[i] = i
      BY <2>1
    <2> QED
      BY <2>2, <2>3 DEF Distinct
  <1>8. kids \in [Node -> Seq(Node)] /\ scopes \in [{0} \cup Node -> Seq(Node)]
    <2>1. <<>> \in Seq(Node)
      OBVIOUS
    <2> QED
      BY <2>1, <1>1, <1>6 DEF Root
  <1>9. Lists = [n \in Nat |-> IF n = 0 THEN result ELSE <<>>] /\ Scps = [n \in Nat |-> <<>>]
    <2>1. Lists = [n \in Nat |-> IF n = 0 THEN result ELSE <<>>]
      BY <1>1, <1>6 DEF Lists, ListsOf
    <2>2. Scps = [n \in Nat |-> <<>>]
      BY <1>1, <1>6 DEF Scps, ScopesOf, Root
    <2> QED
      BY <2>1, <2>2
  <1>10. TreesInv
    <2>1. Trees(Node, Lists, Scps)
      BY Zenon, <1>6, <1>7, <1>9, InitTree
    <2> QED
      BY <2>1, <1>6, <1>7, <1>8 DEF TreesInv, Forested, Lists, Scps
  <1>11. Typed
    <2>1. token \in [Node -> {0} \cup Token] /\ inScope \in [Node -> {Root} \cup Node]
      BY <1>1, <1>6 DEF Root
    <2> QED
      BY <2>1, <1>1, <1>2, <1>5, <1>6 DEF Typed
  <1>12. Placing /\ Flat
    <2>1. \A n \in Node : kind[n] # "scope"
      BY <1>1, <1>3, <1>4 DEF K
    <2>2. 1 \in 1 .. Len(result) + 1
      BY <1>4, <1>7
    <2> QED
      BY <2>1, <2>2, <1>1, <1>6 DEF Placing, Before, Flat
  <1> QED
    BY <1>1, <1>10, <1>11, <1>12 DEF ParseInv

\* Stage a keeps the invariant.
LEMMA AssembleInv ==
    ASSUME ParseInv, Assemble
    PROVE  ParseInv'
  <1>1. /\ stage = "assembling" /\ Next /\ inScope' = inScope
        /\ stage' = (IF index' > Len(result') + 1 THEN "failed" ELSE stage)
    BY DEF Assemble
  <1>2. Typed /\ TreesInv /\ Placing /\ Flat
    BY <1>1 DEF ParseInv
  <1>3. Typed' /\ TreesInv' /\ IndexOk' /\ Flat'
    BY <1>1, <1>2, AssembleStep
  <1>4. stage' = "assembling" => Placing'
    <2> SUFFICES ASSUME stage' = "assembling" PROVE Placing'
      OBVIOUS
    <2>1. ~(index' > Len(result') + 1)
      BY <1>1
    <2>2. index' \in Nat \ {0} /\ (index' <= Len(result') + 1 => Before')
      BY <1>3 DEF IndexOk
    <2>3. Len(result') \in Nat
      <3> DEFINE r == result'
                 N == Node'
      <3>1. r \in Seq(N)
        BY <1>3 DEF TreesInv, Forested
      <3> HIDE DEF r, N
      <3>2. Len(r) \in Nat
        BY <3>1
      <3> QED
        BY <3>2 DEF r
    <2> QED
      BY <2>1, <2>2, <2>3 DEF Placing
  <1>5. stage' \in {"assembling", "failed"}
    BY <1>1
  <1> QED
    BY <1>3, <1>4, <1>5 DEF ParseInv

\* So does the change to stage s: all nodes are in the root scope, and one pass is over
\* the roots.
LEMMA BeginScopingInv ==
    ASSUME ParseInv, BeginScoping
    PROVE  ParseInv'
  <1>1. /\ stage = "assembling" /\ stage' = "scoping" /\ passes' = <<Pass(Root)>> /\ left' = 0
        /\ UNCHANGED <<program, trees, result, index, inScope>>
    BY DEF BeginScoping
  <1>2. Typed /\ TreesInv /\ Placing /\ Flat
    BY <1>1 DEF ParseInv
  <1>3. ForestOf
    BY <1>2, ForestHas
  <1>4. Placement
    <2> SUFFICES ASSUME NEW n \in {0} \cup Node
                 PROVE  /\ \A k \in Range(Lists[n]) : kind[k] # "scope" /\ inScope[k] = ForOf(kind, inScope, n)
                        /\ \A k \in Range(Scps[n]) : kind[k] = "scope"
      BY DEF Placement, PlacementOf
    <2>1. /\ Scps[n] = <<>> /\ (\A k \in Node : inScope[k] = 0 /\ kind[k] # "scope") /\ Range(Lists[n]) \subseteq Node
      <3>1. Scps[n] = scopes[n] /\ Range(Lists[n]) \subseteq Edges[n] /\ Edges[n] \subseteq Node
        BY <1>3 DEF ForestOf
      <3>2. scopes = [m \in {Root} \cup Node |-> <<>>] /\ inScope = [m \in Node |-> Root] /\ \A m \in Node : kind[m] # "scope"
        BY <1>2 DEF Flat
      <3> QED
        BY <3>1, <3>2 DEF Root
    <2>2. Range(<<>>) = {}
      BY DEF Range
    <2>3. ForOf(kind, inScope, n) = 0
      BY <2>1 DEF ForOf
    <2> QED
      BY <2>1, <2>2, <2>3
  <1>5. Typed' /\ TreesInv' /\ Placement' /\ ListsStay
    BY <1>1, <1>2, <1>4, NothingMoves
  <1>6. ScopingPasses'
    <2> DEFINE r == Pass(Root)
               ps == <<r>>
    <2>1. Len(Lists[0]) \in Nat
      BY <1>3 DEF ForestOf
    <2>2. PassIn(Node, Lists[0], kind, r) /\ r.over = 0
      BY <2>1, NewPass DEF Root
    <2>3. r \in PassOf(Node)
      BY <2>2 DEF PassIn
    <2> HIDE DEF r
    <2>4. ps \in Seq(PassOf(Node)) /\ Len(ps) = 1 /\ ps[1] = r
      BY <2>3
    <2>5. Fits(Node, Lists, Scps, kind, ps)
      BY <2>2, <2>4 DEF Fits
    <2>6. passes' = ps
      BY <1>1 DEF r
    <2> QED
      BY <1>1, <1>5, <2>5, <2>6 DEF ScopingPasses, ListsStay
  <1> QED
    BY <1>1, <1>5, <1>6 DEF ParseInv

\* Steps of stage s that leave the lists as they are.
LEMMA StaySteps ==
    ASSUME ParseInv, LeaveBrace \/ PassChildren \/ HoldNode \/ EndPass
    PROVE  ParseInv'
  <1>1. stage = "scoping" /\ UNCHANGED vars /\ inScope' = inScope
    BY DEF LeaveBrace, PassChildren, HoldNode, EndPass, Scopes
  <1>2. Typed /\ TreesInv /\ Placement /\ ScopingPasses /\ left = 0
    BY <1>1 DEF ParseInv, ScopingPasses
  <1>3. Typed' /\ TreesInv' /\ Placement' /\ ListsStay /\ left' = left
    BY <1>1, <1>2, SameLists
  <1>4. \/ stage' = stage /\ Fits(Node, Lists, Scps, kind, passes')
        \/ stage' = "typing" /\ TypingPasses'
    <2>1. CASE LeaveBrace
      <3>1. stage' = stage
        BY <2>1 DEF LeaveBrace
      <3> QED
        BY <2>1, <3>1, <1>2, LeaveBraceStep
    <2>2. CASE PassChildren
      <3>1. stage' = stage
        BY <2>2 DEF PassChildren
      <3> QED
        BY <2>2, <3>1, <1>2, PassChildrenStep
    <2>3. CASE HoldNode
      <3>1. stage' = stage
        BY <2>3 DEF HoldNode
      <3> QED
        BY <2>3, <3>1, <1>2, HoldNodeStep
    <2>4. CASE EndPass
      BY <2>4, <1>2, EndPassStep
    <2> QED
      BY <2>1, <2>2, <2>3, <2>4
  <1>5. CASE stage' = stage /\ Fits(Node, Lists, Scps, kind, passes')
    <2> DEFINE ps == passes'
    <2>1. Fits(Node, Lists, Scps, kind, ps) /\ passes' = ps
      BY <1>5
    <2> HIDE DEF ps
    <2>2. ScopingPasses'
      BY <1>2, <1>3, <2>1, FitsStay
    <2> QED
      BY <1>1, <1>3, <1>5, <2>2 DEF ParseInv
  <1>6. CASE stage' = "typing" /\ TypingPasses'
    BY <1>3, <1>6 DEF ParseInv
  <1> QED
    BY <1>4, <1>5, <1>6

\* Those that move nodes.
LEMMA MoveSteps ==
    ASSUME ParseInv, TakeBrace \/ HoldBrace \/ Wrap \/ CloseBrace \/ Unmatched
    PROVE  ParseInv'
  <1>1. stage = "scoping"
    BY Zenon DEF TakeBrace, HoldBrace, Wrap, CloseBrace, Unmatched, Scopes
  <1>2. Typed /\ TreesInv /\ Placement /\ ScopingPasses
    BY <1>1 DEF ParseInv
  <1>3. /\ Typed' /\ TreesInv' /\ Placement'
        /\ stage' = stage => ScopingPasses'
        /\ stage' \in {stage, "failed"}
    <2>1. CASE TakeBrace
      <3>1. stage' = stage
        BY <2>1 DEF TakeBrace
      <3> QED
        BY <2>1, <3>1, <1>2, TakeBraceStep
    <2>2. CASE HoldBrace
      <3>1. stage' = stage
        BY <2>2 DEF HoldBrace
      <3> QED
        BY <2>2, <3>1, <1>2, HoldBraceStep
    <2>3. CASE Wrap
      <3>1. stage' = stage
        BY <2>3 DEF Wrap
      <3> QED
        BY <2>3, <3>1, <1>2, WrapStep
    <2>4. CASE CloseBrace
      BY <2>4, <1>2, CloseStep
    <2>5. CASE Unmatched
      BY <2>5, <1>2, UnmatchedStep
    <2> QED
      BY <2>1, <2>2, <2>3, <2>4, <2>5
  <1> QED
    BY SMTT(60), <1>1, <1>3 DEF ParseInv

\* Those that end the compiler's run.
LEMMA FailSteps ==
    ASSUME ParseInv, HoldClosing \/ LostElse
    PROVE  ParseInv'
  <1>1. stage' = "failed" /\ UNCHANGED vars /\ inScope' = inScope /\ stage \in {"scoping", "typing"}
    BY DEF HoldClosing, LostElse, Scopes, Types
  <1>2. Typed /\ TreesInv /\ Placement
    BY <1>1 DEF ParseInv
  <1>3. Typed' /\ TreesInv'
    BY <1>1, <1>2, SameLists
  <1> QED
    BY <1>1, <1>3 DEF ParseInv

\* Stage t.
LEMMA TypeSteps ==
    ASSUME ParseInv, JoinElse \/ Drop \/ PassOver \/ PassAgain \/ PassScopes
    PROVE  ParseInv'
  <1>1. stage = "typing"
    BY DEF JoinElse, Join, Drop, PassOver, PassAgain, PassScopes, Types
  <1>2. Typed /\ TreesInv /\ Placement /\ TypingPasses
    BY <1>1 DEF ParseInv
  <1>3. /\ Typed' /\ TreesInv' /\ Placement' /\ stage' \in {"typing", "failed", "done"}
        /\ stage' = "typing" => TypingPasses'
    <2>1. CASE JoinElse
      BY <2>1, <1>1, <1>2, JoinStep
    <2>2. CASE Drop
      BY <2>2, <1>1, <1>2, DropStep
    <2>3. CASE PassOver
      <3>1. stage' = stage
        BY <2>3 DEF PassOver
      <3> QED
        BY <2>3, <3>1, <1>1, <1>2, PassOverStep
    <2>4. CASE PassAgain
      <3>1. stage' = stage
        BY <2>4 DEF PassAgain
      <3> QED
        BY <2>4, <3>1, <1>1, <1>2, PassAgainStep
    <2>5. CASE PassScopes
      BY <2>5, <1>1, <1>2, PassScopesStep
    <2> QED
      BY <2>1, <2>2, <2>3, <2>4, <2>5
  <1> QED
    BY <1>3 DEF ParseInv

\* So does a step that changes nothing.
LEMMA StutterInv ==
    ASSUME ParseInv, UNCHANGED parseVars
    PROVE  ParseInv'
  <1>1. UNCHANGED vars /\ stage' = stage /\ passes' = passes /\ inScope' = inScope
    BY DEF parseVars
  <1>2. UNCHANGED <<program, trees, result, index, left>>
    BY <1>1 DEF vars
  <1>3. UNCHANGED <<kind, kids, scopes, unary, parened, token>>
    BY <1>2 DEF trees
  <1>4. Node' = Node /\ Token' = Token /\ Home' = Home /\ Top' = Top
    BY <1>1, <1>2, <1>3 DEF Node, Token, Home, Top
  <1>5. list' = list /\ Lists' = Lists /\ Scps' = Scps
    BY <1>2, <1>3, <1>4 DEF list, ListOf, Lists, Scps
  <1>6. Typed' = Typed /\ TreesInv' = TreesInv
    BY <1>1, <1>2, <1>3, <1>4 DEF Typed, TreesInv
  <1>7. Placing' = Placing /\ Flat' = Flat
    BY <1>1, <1>2, <1>3, <1>4 DEF Placing, Before, Flat
  <1>8. Placement' = Placement /\ ScopingPasses' = ScopingPasses
    BY <1>1, <1>2, <1>3, <1>4, <1>5 DEF Placement, ScopingPasses
  <1>9. TypingPasses' = TypingPasses
    BY <1>1, <1>2, <1>4, <1>5 DEF TypingPasses
  <1> QED
    BY <1>1, <1>6, <1>7, <1>8, <1>9 DEF ParseInv

\* Every step of the compiler keeps the invariant.
LEMMA NextInv ==
    ASSUME ParseInv, [ParseNext]_parseVars
    PROVE  ParseInv'
  <1>1. CASE Assemble
    BY <1>1, AssembleInv
  <1>2. CASE BeginScoping
    BY <1>2, BeginScopingInv
  <1>3. CASE LeaveBrace \/ PassChildren \/ HoldNode \/ EndPass
    BY <1>3, StaySteps
  <1>4. CASE TakeBrace \/ HoldBrace \/ Wrap \/ CloseBrace \/ Unmatched
    BY <1>4, MoveSteps
  <1>5. CASE HoldClosing \/ LostElse
    BY <1>5, FailSteps
  <1>6. CASE JoinElse \/ Drop \/ PassOver \/ PassAgain \/ PassScopes
    BY <1>6, TypeSteps
  <1>7. CASE UNCHANGED parseVars
    BY <1>7, StutterInv
  <1> QED
    BY <1>1, <1>2, <1>3, <1>4, <1>5, <1>6, <1>7 DEF ParseNext

\* The inductive invariant is true of every reachable state, for all programs and binding
\* powers, balanced or not.
THEOREM Invariance == ParseSpec => []ParseInv
  <1>1. ParseInit => ParseInv
    BY InitInv
  <1>2. ParseInv /\ [ParseNext]_parseVars => ParseInv'
    BY NextInv
  <1> QED
    BY <1>1, <1>2, PTL DEF ParseSpec

\* What is below a child of a node, along children, is in the scope of what is in that
\* node's list.
LEMMA PlacedBelow ==
    ASSUME TreesInv, Placement, NEW n \in {0} \cup Node, NEW k \in Range(Lists[n]), NEW m \in Tree(k)
    PROVE  inScope[m] = ForOf(kind, inScope, n)
  <1> DEFINE c == ForOf(kind, inScope, n)
             S == {x \in Node : kind[x] # "scope" /\ inScope[x] = c}
  <1>1. ForestOf
    BY ForestHas
  <1>2. /\ Node \subseteq Nat /\ 0 \notin Node /\ Kid \in Edges0
        /\ \A x \in {0} \cup Node : Kid[x] = Range(Lists[x]) /\ Kid[x] \subseteq Node
    BY <1>1, KidFacts DEF ForestOf
  <1>3. \A x \in {0} \cup Node : \A y \in Range(Lists[x]) : kind[y] # "scope" /\ inScope[y] = ForOf(kind, inScope, x)
    BY DEF Placement, PlacementOf
  <1>4. k \in Node /\ k \in S /\ k \in Nat
    BY <1>2, <1>3
  <1>5. DownClosed(Kid, S)
    <2> SUFFICES ASSUME NEW x \in S, NEW y \in Kid[x] PROVE y \in S
      BY DEF DownClosed
    <2>1. x \in Node /\ x # 0 /\ kind[x] # "scope" /\ inScope[x] = c
      BY <1>2
    <2>2. y \in Node /\ y \in Range(Lists[x])
      BY <2>1, <1>2
    <2>3. kind[y] # "scope" /\ inScope[y] = ForOf(kind, inScope, x)
      BY <2>1, <2>2, <1>3
    <2>4. ForOf(kind, inScope, x) = c
      BY <2>1 DEF ForOf
    <2> QED
      BY <2>2, <2>3, <2>4
  <1>6. m \in Below(Kid, k)
    BY <1>4, TreeIs
  <1>7. Below(Kid, k) \subseteq S
    <2>1. S \in SUBSET Nat
      BY <1>2
    <2> HIDE DEF S
    <2> QED
      BY <2>1, <1>2, <1>4, <1>5, BelowLeast
  <1> QED
    BY <1>6, <1>7

\* In a forest a node is in one place.
LEMMA PlacesAreOne ==
    ASSUME TreesInv
    PROVE  OnePlace
  <1>1. ForestOf
    BY ForestHas
  <1>2. /\ OneParent(Edges)
        /\ \A n \in {0} \cup Node :
              /\ Edges[n] = Range(Lists[n]) \cup Range(Scps[n]) /\ Lists[n] = ListOf(n) /\ Scps[n] = scopes[n]
              /\ Lists[n] \in Seq(Node) /\ Scps[n] \in Seq(Node) /\ Distinct(Lists[n]) /\ Distinct(Scps[n])
              /\ Range(Lists[n]) \cap Range(Scps[n]) = {}
    BY <1>1 DEF ForestOf
  <1>8. \A n \in {0} \cup Node : n \in Nat
    BY <1>1 DEF ForestOf
  <1>3. ASSUME NEW m \in {0} \cup Node, NEW n \in {0} \cup Node,
               NEW x, x \in Range(ListOf(m)) \cup Range(scopes[m]), x \in Range(ListOf(n)) \cup Range(scopes[n])
        PROVE  m = n
    <2>1. x \in Edges[m] /\ x \in Edges[n] /\ m \in Nat /\ n \in Nat
      BY <1>2, <1>3, <1>8
    <2> QED
      BY <2>1, <1>2 DEF OneParent
  <1>4. \A n \in {0} \cup Node : /\ ListOf(n) \in Seq(Node) /\ Distinct(ListOf(n))
                                 /\ scopes[n] \in Seq(Node) /\ Distinct(scopes[n])
    BY <1>2
  <1>5. ASSUME NEW s \in Seq(Node), Distinct(s) PROVE IsInjective(s)
    BY <1>5 DEF Distinct, IsInjective
  <1>6. ASSUME NEW m \in {0} \cup Node
        PROVE  /\ IsInjective(ListOf(m)) /\ IsInjective(scopes[m])
               /\ Range(ListOf(m)) \cap Range(scopes[m]) = {}
    <2>1. IsInjective(ListOf(m)) /\ IsInjective(scopes[m])
      BY Zenon, <1>4, <1>5, <1>6
    <2>2. Range(ListOf(m)) \cap Range(scopes[m]) = {}
      BY <1>2, <1>6
    <2> QED
      BY <2>1, <2>2
  <1>7. ASSUME NEW m \in {0} \cup Node, NEW n \in {0} \cup Node, n > m
        PROVE  (Range(ListOf(m)) \cup Range(scopes[m])) \cap (Range(ListOf(n)) \cup Range(scopes[n])) = {}
    <2>1. m # n
      BY <1>7, <1>8
    <2> QED
      BY <2>1, <1>3
  <1> QED
    BY <1>6, <1>7 DEF OnePlace, Root

\* The invariant has the type invariant in it.
LEMMA InvTypes ==
    ASSUME ParseInv
    PROVE  TypeOK
  <1>1. Typed /\ TreesInv
    BY DEF ParseInv
  <1>2. ForestOf
    BY <1>1, ForestHas
  <1>3. kind \in [Node -> Kinds]
    <2> DEFINE K == Kinds
    <2>1. kind \in Seq(K)
      BY <1>1 DEF Typed
    <2> HIDE DEF K
    <2> QED
      BY <2>1 DEF Node, K
  <1>4. /\ (\A n \in Node : kids[n] \in Seq(Node)) /\ (\A n \in {Root} \cup Node : scopes[n] \in Seq(Node))
        /\ result \in Seq(Node)
    BY <1>2 DEF ForestOf, Root
  <1>5. unary \cup parened \subseteq Token /\ token \in [Node -> {0} \cup Token] /\ inScope \in [Node -> {Root} \cup Node]
    BY <1>1 DEF Typed
  <1>6. OnePlace
    BY <1>1, PlacesAreOne
  <1>7. stage = "assembling" => /\ index \in 1 .. Len(result) + 1
                                /\ left = IF index = 1 THEN 0 ELSE result[index - 1]
    BY DEF ParseInv, Placing, Before
  <1>8. ASSUME stage \in {"scoping", "typing"} PROVE Top.at \in 1 .. Len(list) + 1
    <2>1. CASE stage = "scoping"
      <3>1. Fits(Node, Lists, Scps, kind, passes)
        BY <2>1 DEF ParseInv, ScopingPasses
      <3>2. TopIs
        BY <1>1, <3>1, TopFacts
      <3> QED
        BY <3>2 DEF TopIs, PassIn
    <2>2. CASE stage = "typing"
      <3>1. TypeIs
        BY <2>2, <1>1, TypeFacts DEF ParseInv
      <3> QED
        BY <3>1 DEF TypeIs
    <2> QED
      BY <1>8, <2>1, <2>2
  <1> QED
    BY <1>3, <1>4, <1>5, <1>6, <1>7, <1>8 DEF TypeOK, Kinds

\* And that every node is in the innermost scope it is under.
LEMMA InvScopes ==
    ASSUME ParseInv
    PROVE  InnermostScope
  <1> SUFFICES ASSUME stage \in {"typing", "done"}
               PROVE  /\ \A r \in Range(result) : \A m \in Tree(r) : inScope[m] = Root
                      /\ \A n \in Reachable : \A s \in Range(scopes[n]) :
                             \A k \in Range(kids[s]) : \A m \in Tree(k) : inScope[m] = s
    BY DEF InnermostScope
  <1>1. TreesInv /\ Placement
    BY DEF ParseInv
  <1>2. ForestOf
    BY <1>1, ForestHas
  <1>3. ASSUME NEW r \in Range(result), NEW m \in Tree(r) PROVE inScope[m] = Root
    <2>1. 0 \in {0} \cup Node /\ r \in Range(Lists[0])
      BY <1>2 DEF ForestOf
    <2>2. inScope[m] = ForOf(kind, inScope, 0)
      BY <2>1, <1>1, PlacedBelow
    <2> QED
      BY <2>2 DEF ForOf, Root
  <1>4. ASSUME NEW n \in Reachable, NEW s \in Range(scopes[n]), NEW k \in Range(kids[s]), NEW m \in Tree(k)
        PROVE  inScope[m] = s
    <2>1. n \in Node
      BY <1>1, ReachableFacts
    <2>2. s \in Range(Scps[n]) /\ s \in Node /\ s # 0
      BY <2>1, <1>2 DEF ForestOf
    <2>3. kind[s] = "scope" /\ k \in Range(Lists[s])
      BY <2>1, <2>2, <1>1, <1>2 DEF Placement, PlacementOf, ForestOf
    <2>4. inScope[m] = ForOf(kind, inScope, s)
      BY <2>2, <2>3, <1>1, PlacedBelow
    <2> QED
      BY <2>2, <2>3, <2>4 DEF ForOf
  <1> QED
    BY <1>3, <1>4

\* Type correctness of the compiler, for all programs and binding powers: no handler of
\* the three stages leaves a node in two lists or in one list twice, and no pass goes on
\* from a place its list does not have.
THEOREM TypeCorrect == ParseSpec => []TypeOK
  <1>1. ParseInv => TypeOK
    BY InvTypes
  <1> QED
    BY <1>1, Invariance, PTL

\* For all programs and binding powers, in_scope of every node is the innermost of the
\* scopes it is under, after every handler of stages s and t.
THEOREM InnermostScopes == ParseSpec => []InnermostScope
  <1>1. ParseInv => InnermostScope
    BY InvScopes
  <1> QED
    BY <1>1, Invariance, PTL

=============================================================================
