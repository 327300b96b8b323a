-------------------------- MODULE CallFramesProofs --------------------------
(***************************************************************************)
(* Proofs about CallFrames, for any functions, variables, depth and number *)
(* of runs.  Each property is proved for the programs it is meant for: the *)
(* hypotheses exclude, one by one, the constructs that upset it.           *)
(***************************************************************************)
EXTENDS CallFrames, TLAPS, WellFoundedInduction, FiniteSetTheorems, SequenceTheorems

\* Hypotheses on the scripts.
ContinueOutsideIter == "continueInIter" \notin Constructs
ReturnsReachBody    == {"returnInScope", "returnInIter"} \cap Constructs = {}
RowsUndisturbed     == ReturnsReachBody /\ {"returnInFor", "selfArgs"} \cap Constructs = {}

\* Frames with any integers for rows: without the hypotheses on return a scope may
\* ascend above its first row.
IntFrames == [kind : {"args"}, func : Func, row : Int, evaluating : BOOLEAN,
              ascended : SUBSET Var]
             \cup [kind : {"body"}, func : Func, row : Int, state : 0 .. 3]
             \cup [kind : {"root", "if", "while", "scope"}, state : 0 .. 3]
             \cup [kind : {"repeat", "for", "iter"}, state : 0 .. 3, index : Nat, runs : Nat]

StackOK == stack \in Seq(IntFrames) /\ stack # <<>>

-----------------------------------------------------------------------------
(* Sets of naturals. *)

\* Every set of naturals that is not empty has a least member.
LEMMA LeastMember ==
    ASSUME NEW T \in SUBSET Nat, T # {}
    PROVE  \E m \in T : \A k \in T : m <= k
<1> DEFINE R == {s \in Nat \X Nat : s[1] < s[2]}
<1>1. IsWellFoundedOn(R, Nat)
  BY NatLessThanWellFounded DEF OpToRel
<1>2. \A x, y \in Nat : x < y => <<x, y>> \in R
  OBVIOUS
<1> HIDE DEF R
<1>3. \E x \in T : \A y \in T : ~(<<y, x>> \in R)
  BY <1>1, WFMin
<1>4. PICK m \in T : \A k \in T : <<k, m>> \notin R
  BY <1>3
<1>5. \A k \in T : ~(k < m) /\ k \in Nat /\ m \in Nat
  BY <1>2, <1>4
<1>6. \A k \in T : m <= k
  BY <1>5
<1> QED
  BY <1>6

\* A bounded set of naturals that is not empty has a greatest member.
LEMMA GreatestMember ==
    ASSUME NEW n \in Nat, NEW T \in SUBSET (1 .. n), T # {}
    PROVE  \E m \in T : \A k \in T : k <= m
<1> DEFINE U == {n - k : k \in T}
<1>1. U \in SUBSET Nat /\ U # {}
  <2>1. \A k \in T : n - k \in Nat
    OBVIOUS
  <2> QED
    BY <2>1
<1> HIDE DEF U
<1>2. \E m \in U : \A k \in U : m <= k
  BY <1>1, LeastMember
<1> QED
  BY <1>2 DEF U

-----------------------------------------------------------------------------
(* The innermost frame of some kinds. *)

\* It is of these kinds and no frame above it is.
LEMMA InnermostFacts ==
    ASSUME NEW S, NEW s \in Seq(S), NEW K
    PROVE  /\ InnermostOf(s, K) \in 0 .. Len(s)
           /\ InnermostOf(s, K) > 0 => s[InnermostOf(s, K)].kind \in K
           /\ \A j \in InnermostOf(s, K) + 1 .. Len(s) : s[j].kind \notin K
<1> DEFINE at == {i \in DOMAIN s : s[i].kind \in K}
<1>1. Len(s) \in Nat /\ DOMAIN s = 1 .. Len(s)
  OBVIOUS
<1>2. InnermostOf(s, K) = IF at = {} THEN 0 ELSE CHOOSE i \in at : \A j \in at : j <= i
  BY DEF InnermostOf
<1>3. CASE at = {}
  BY <1>1, <1>2, <1>3
<1>4. CASE at # {}
  <2>1. at \in SUBSET (1 .. Len(s))
    BY <1>1
  <2>2. \E i \in at : \A j \in at : j <= i
    BY <1>1, <1>4, <2>1, GreatestMember
  <2> DEFINE m == CHOOSE i \in at : \A j \in at : j <= i
  <2>3. m \in at /\ \A j \in at : j <= m
    BY <2>2
  <2>4. InnermostOf(s, K) = m
    BY <1>2, <1>4
  <2> HIDE DEF m
  <2>5. m \in 1 .. Len(s) /\ s[m].kind \in K
    BY <1>1, <2>3
  <2>6. \A j \in m + 1 .. Len(s) : s[j].kind \notin K
    BY <1>1, <2>3, <2>5
  <2> QED
    BY <2>4, <2>5, <2>6
<1> QED
  BY <1>3, <1>4

\* Which determines it.
LEMMA InnermostIs ==
    ASSUME NEW S, NEW s \in Seq(S), NEW K, NEW m \in 0 .. Len(s),
           m > 0 => s[m].kind \in K,
           \A j \in m + 1 .. Len(s) : s[j].kind \notin K
    PROVE  InnermostOf(s, K) = m
<1> DEFINE k == InnermostOf(s, K)
<1>1. /\ k \in 0 .. Len(s)
      /\ k > 0 => s[k].kind \in K
      /\ \A j \in k + 1 .. Len(s) : s[j].kind \notin K
  BY InnermostFacts
<1> HIDE DEF k
<1>2. Len(s) \in Nat
  OBVIOUS
<1>3. k <= m
  BY <1>1, <1>2
<1>4. m <= k
  BY <1>1, <1>2
<1>5. k = m
  BY <1>1, <1>2, <1>3, <1>4
<1> QED
  BY <1>5 DEF k

\* IntFrames above or below that are not of these kinds make no difference.
LEMMA InnermostSame ==
    ASSUME NEW S, NEW s \in Seq(S), NEW t \in Seq(S), NEW K,
           \A i \in DOMAIN s \cap DOMAIN t : s[i].kind \in K <=> t[i].kind \in K,
           \A i \in DOMAIN s \ DOMAIN t : s[i].kind \notin K,
           \A i \in DOMAIN t \ DOMAIN s : t[i].kind \notin K
    PROVE  InnermostOf(s, K) = InnermostOf(t, K)
<1> DEFINE m == InnermostOf(s, K)
<1>1. /\ m \in 0 .. Len(s)
      /\ m > 0 => s[m].kind \in K
      /\ \A j \in m + 1 .. Len(s) : s[j].kind \notin K
  BY InnermostFacts
<1> HIDE DEF m
<1>2. /\ Len(s) \in Nat /\ DOMAIN s = 1 .. Len(s)
      /\ Len(t) \in Nat /\ DOMAIN t = 1 .. Len(t)
  OBVIOUS
<1>3. m > 0 => m \in DOMAIN t /\ t[m].kind \in K
  BY <1>1, <1>2
<1>4. \A j \in m + 1 .. Len(t) : t[j].kind \notin K
  BY <1>1, <1>2
<1>5. m \in 0 .. Len(t)
  BY <1>1, <1>2, <1>3
<1>6. InnermostOf(t, K) = m
  BY <1>3, <1>4, <1>5, InnermostIs
<1> QED
  BY <1>6 DEF m

\* The activation that runs has a frame of the kinds K: some frame above its
\* body is of them.
LEMMA WithinIff ==
    ASSUME StackOK, NEW K
    PROVE  /\ CurrentBody \in 0 .. Len(stack)
           /\ CurrentBody > 0 => stack[CurrentBody].kind = "body"
           /\ \A j \in CurrentBody + 1 .. Len(stack) : stack[j].kind # "body"
           /\ Within(K) <=> \E j \in CurrentBody + 1 .. Len(stack) : stack[j].kind \in K
<1> DEFINE b == CurrentBody
           m == Innermost(K)
<1>1. /\ b \in 0 .. Len(stack)
      /\ b > 0 => stack[b].kind \in {"body"}
      /\ \A j \in b + 1 .. Len(stack) : stack[j].kind \notin {"body"}
  BY InnermostFacts DEF StackOK, CurrentBody, Innermost
<1>2. /\ m \in 0 .. Len(stack)
      /\ m > 0 => stack[m].kind \in K
      /\ \A j \in m + 1 .. Len(stack) : stack[j].kind \notin K
  BY InnermostFacts DEF StackOK, Innermost
<1>3. Within(K) <=> m > b
  BY DEF Within
<1> HIDE DEF b, m
<1>4. Len(stack) \in Nat
  BY DEF StackOK
<1>5. m > b <=> \E j \in b + 1 .. Len(stack) : stack[j].kind \in K
  BY <1>1, <1>2, <1>4
<1> QED
  BY <1>1, <1>3, <1>5 DEF b

-----------------------------------------------------------------------------
(* IntFrames. *)

PassKinds == {"body", "root", "if", "while", "scope", "repeat", "for", "iter"}
CountedKinds == {"repeat", "for", "iter"}

\* The fields of a frame of each kind.
LEMMA FrameFacts ==
    ASSUME NEW fr \in IntFrames
    PROVE  /\ fr.kind \in PassKinds \cup {"args"}
           /\ fr.kind = "args" => /\ fr.func \in Func /\ fr.row \in Int
                                  /\ fr.evaluating \in BOOLEAN
                                  /\ fr.ascended \in SUBSET Var
           /\ fr.kind # "args" => fr.state \in 0 .. 3
           /\ fr.kind = "body" => fr.func \in Func /\ fr.row \in Int
           /\ fr.kind \in CountedKinds => fr.index \in Nat /\ fr.runs \in Nat
BY DEF IntFrames, PassKinds, CountedKinds

\* Setting the state of a pass changes nothing else.
LEMMA StateFacts ==
    ASSUME NEW fr \in IntFrames, fr.kind # "args", NEW r \in 0 .. 3
    PROVE  LET to == [fr EXCEPT !.state = r]
           IN  /\ to \in IntFrames
               /\ to.kind = fr.kind
               /\ to.state = r
               /\ fr.kind = "body" => to.func = fr.func /\ to.row = fr.row
               /\ fr.kind \in CountedKinds => to.index = fr.index /\ to.runs = fr.runs
BY DEF IntFrames, CountedKinds

\* The next run of a counted loop.
LEMMA RunFacts ==
    ASSUME NEW fr \in IntFrames, fr.kind \in CountedKinds, NEW i \in Nat
    PROVE  LET to == [fr EXCEPT !.state = 0, !.index = i, !.runs = @ + 1]
           IN  /\ to \in IntFrames
               /\ to.kind = fr.kind
               /\ to.state = 0
               /\ to.index = i /\ to.runs = fr.runs + 1
<1> DEFINE Loop == [kind : CountedKinds, state : 0 .. 3, index : Nat, runs : Nat]
           to == [fr EXCEPT !.state = 0, !.index = i, !.runs = fr.runs + 1]
<1>1. fr \in Loop /\ Loop \subseteq IntFrames
  BY DEF IntFrames, CountedKinds
<1>2. fr.runs + 1 \in Nat /\ 0 \in 0 .. 3
  BY <1>1
<1>3. /\ to \in Loop
      /\ to.kind = fr.kind
      /\ to.state = 0
      /\ to.index = i /\ to.runs = fr.runs + 1
  BY <1>1, <1>2
<1> QED
  BY <1>1, <1>3

\* Starting or ending the evaluation of an argument.
LEMMA ArgumentFacts ==
    ASSUME NEW fr \in IntFrames, fr.kind = "args", NEW b \in BOOLEAN, NEW A \in SUBSET Var
    PROVE  LET to == [fr EXCEPT !.evaluating = b, !.ascended = A]
           IN  /\ to \in IntFrames
               /\ to.kind = "args"
               /\ to.func = fr.func /\ to.row = fr.row
               /\ to.evaluating = b /\ to.ascended = A
BY DEF IntFrames

\* What PopWith does to the frame it uncovers.
Told(fr, r) == IF fr.kind = "args" THEN fr ELSE [fr EXCEPT !.state = r]

-----------------------------------------------------------------------------
(* The three ways to change the stack. *)

\* One frame more.
LEMMA PushFacts ==
    ASSUME StackOK, NEW fr \in IntFrames, Push(fr)
    PROVE  /\ StackOK'
           /\ Len(stack) \in Nat \ {0}
           /\ Len(stack') = Len(stack) + 1
           /\ DOMAIN stack = 1 .. Len(stack)
           /\ DOMAIN stack' = 1 .. Len(stack) + 1
           /\ \A i \in DOMAIN stack : stack'[i] = stack[i] /\ stack[i] \in IntFrames
           /\ stack'[Len(stack) + 1] = fr
           /\ Top = stack[Len(stack)]
           /\ Top' = fr
BY DEF Push, StackOK, Top, Last

\* The last frame changed.
LEMMA ReplaceFacts ==
    ASSUME StackOK, NEW fr \in IntFrames, Replace(fr)
    PROVE  /\ StackOK'
           /\ Len(stack) \in Nat \ {0}
           /\ Len(stack') = Len(stack)
           /\ DOMAIN stack = 1 .. Len(stack)
           /\ DOMAIN stack' = 1 .. Len(stack)
           /\ \A i \in DOMAIN stack : stack[i] \in IntFrames
           /\ \A i \in 1 .. Len(stack) - 1 : stack'[i] = stack[i]
           /\ stack'[Len(stack)] = fr
           /\ Top = stack[Len(stack)]
           /\ Top' = fr
<1> DEFINE n == Len(stack)
<1>1. n \in Nat \ {0} /\ DOMAIN stack = 1 .. n /\ \A i \in 1 .. n : stack[i] \in IntFrames
  BY DEF StackOK
<1>2. Front(stack) = [i \in 1 .. n - 1 |-> stack[i]]
  BY <1>1 DEF Front
<1> DEFINE front == Front(stack)
<1>3. front \in Seq(IntFrames) /\ Len(front) = n - 1 /\ \A i \in 1 .. n - 1 : front[i] = stack[i]
  BY <1>1, <1>2
<1> HIDE DEF front
<1>4. stack' = Append(front, fr)
  BY DEF Replace, front
<1>5. /\ stack' \in Seq(IntFrames) /\ Len(stack') = n
      /\ \A i \in 1 .. n - 1 : stack'[i] = front[i]
      /\ stack'[n] = fr
  <2>1. stack' \in Seq(IntFrames) /\ Len(stack') = Len(front) + 1
    BY <1>3, <1>4
  <2>2. \A i \in 1 .. Len(front) : stack'[i] = front[i]
    BY <1>3, <1>4
  <2>3. stack'[Len(front) + 1] = fr
    BY <1>3, <1>4
  <2>4. Len(front) + 1 = n
    BY <1>1, <1>3
  <2> QED
    BY <1>3, <2>1, <2>2, <2>3, <2>4
<1>6. stack' # <<>>
  BY <1>1, <1>5
<1> QED
  BY <1>1, <1>3, <1>5, <1>6 DEF StackOK, Top, Last

\* A sequence without its last element and with another before it.
LEMMA UpdateFront ==
    ASSUME NEW S, NEW s \in Seq(S), NEW n \in Nat, n = Len(s), n >= 2, NEW e \in S
    PROVE  LET t == [Front(s) EXCEPT ![n - 1] = e]
           IN  /\ t \in Seq(S)
               /\ Len(t) = n - 1
               /\ \A i \in 1 .. n - 2 : t[i] = s[i]
               /\ t[n - 1] = e
<1>1. Front(s) = [i \in 1 .. n - 1 |-> s[i]]
  BY DEF Front
<1> DEFINE t == [i \in 1 .. n - 1 |-> IF i = n - 1 THEN e ELSE s[i]]
<1>2. [Front(s) EXCEPT ![n - 1] = e] = t
  BY <1>1
<1>3. \A i \in 1 .. n - 1 : (IF i = n - 1 THEN e ELSE s[i]) \in S
  OBVIOUS
<1>4. n - 1 \in Nat
  OBVIOUS
<1>5. t \in Seq(S)
  BY <1>3, <1>4, IsASeq
<1>6. DOMAIN t = 1 .. n - 1 /\ t[n - 1] = e /\ \A i \in 1 .. n - 2 : t[i] = s[i]
  BY <1>4
<1> HIDE DEF t
<1>7. Len(t) = n - 1
  BY <1>4, <1>5, <1>6
<1> QED
  BY <1>2, <1>5, <1>6, <1>7

\* One frame less, and the next one gets the result.
LEMMA PopFacts ==
    ASSUME StackOK, Len(stack) >= 2, NEW r \in 0 .. 3, PopWith(r)
    PROVE  /\ StackOK'
           /\ Len(stack) \in Nat
           /\ Len(stack') = Len(stack) - 1
           /\ DOMAIN stack = 1 .. Len(stack)
           /\ DOMAIN stack' = 1 .. Len(stack) - 1
           /\ \A i \in DOMAIN stack : stack[i] \in IntFrames
           /\ \A i \in 1 .. Len(stack) - 2 : stack'[i] = stack[i]
           /\ stack'[Len(stack) - 1] = Told(stack[Len(stack) - 1], r)
           /\ Top = stack[Len(stack)]
           /\ Top' = stack'[Len(stack) - 1]
<1>1. PICK n \in Nat : n = Len(stack)
  BY DEF StackOK
<1>2. n >= 2 /\ stack \in Seq(IntFrames) /\ DOMAIN stack = 1 .. n
  BY <1>1 DEF StackOK
<1>3. \A i \in 1 .. n : stack[i] \in IntFrames
  BY <1>1, <1>2
<1> DEFINE t == Told(stack[n - 1], r)
<1>4. t \in IntFrames
  <2>1. stack[n - 1] \in IntFrames
    BY <1>2, <1>3
  <2> QED
    BY <2>1, StateFacts DEF Told
<1>5. Front(stack)[n - 1] = stack[n - 1]
  BY <1>1, <1>2 DEF Front
<1>6. stack' = [Front(stack) EXCEPT ![n - 1] = t]
  BY <1>1, <1>5 DEF PopWith, Told
<1> HIDE DEF t
<1>7. /\ stack' \in Seq(IntFrames)
      /\ Len(stack') = n - 1
      /\ \A i \in 1 .. n - 2 : stack'[i] = stack[i]
      /\ stack'[n - 1] = t
  BY <1>1, <1>2, <1>4, <1>6, UpdateFront
<1>8. DOMAIN stack' = 1 .. n - 1 /\ stack' # <<>>
  BY <1>2, <1>7
<1> QED
  BY <1>1, <1>2, <1>3, <1>7, <1>8 DEF StackOK, Top, Last, t

-----------------------------------------------------------------------------
(* What the steps have in common. *)

\* A block or loop is started.
PassStarted ==
    /\ Room /\ Running
    /\ RowsUnchanged
    /\ \E fr \in IntFrames :
          /\ Push(fr)
          /\ fr.kind \in PassKinds \ {"body", "root"}
          /\ fr.state = 0
          /\ fr.kind \in CountedKinds => fr.index = 0 /\ fr.runs = 1

\* A block or loop is left and hands on r: a return unless it is a scope, a
\* break or continue only if it is an if.
PassEnded(r) ==
    /\ Top.kind \in PassKinds \ {"body", "root"}
    /\ PopWith(r)
    /\ RowsUnchanged
    /\ r \in {0, Top.state}
    /\ r \in {2, 3} => Top.kind = "if"
    /\ r = 1 => Top.kind # "scope"
    /\ r # 1 /\ Top.state = 1 => Top.kind = "scope"

\* A loop runs again, or the root.
RunStarted ==
    /\ Top.kind \in Loops \cup {"root"}
    /\ Top.state \in {0, 3} \/ Top.kind = "root"
    /\ RowsUnchanged
    /\ \E fr \in IntFrames :
          /\ Replace(fr)
          /\ fr.kind = Top.kind
          /\ fr.state = 0
          /\ fr.kind \in CountedKinds => fr.runs = Top.runs + 1
          /\ fr.kind \in CountedKinds /\ ~(fr.kind = "iter" /\ Top.state = 3)
                => fr.index = Top.index + 1

\* return, break or continue.
Jumped(r) == Running /\ Replace([Top EXCEPT !.state = r])

\* The innermost frame is one.
LEMMA TopTyped == StackOK => Top \in IntFrames /\ Top = stack[Len(stack)] /\ Len(stack) \in 1 .. Len(stack)
<1> SUFFICES ASSUME StackOK
             PROVE  Top \in IntFrames /\ Top = stack[Len(stack)] /\ Len(stack) \in 1 .. Len(stack)
  OBVIOUS
<1>1. Len(stack) \in 1 .. Len(stack)
  BY DEF StackOK
<1> QED
  BY <1>1 DEF StackOK, Top, Last

\* The stack has frames from 1 up.
LEMMA StackFacts ==
    ASSUME StackOK
    PROVE  /\ Len(stack) \in Nat /\ Len(stack) >= 1
           /\ DOMAIN stack = 1 .. Len(stack)
           /\ \A i \in 1 .. Len(stack) : stack[i] \in IntFrames
BY DEF StackOK

\* New blocks and loops are frames.
LEMMA NewFrames ==
    /\ \A k \in {"if", "while", "scope"} :
          Block(k) \in IntFrames /\ Block(k).kind = k /\ Block(k).state = 0
    /\ \A k \in CountedKinds :
          /\ Counted(k) \in IntFrames /\ Counted(k).kind = k /\ Counted(k).state = 0
          /\ Counted(k).index = 0 /\ Counted(k).runs = 1
BY DEF Block, Counted, IntFrames, CountedKinds

\* The choice between another run and the end of a counted loop.
LEMMA NextRunKinds ==
    ASSUME StackOK, Top.kind \in CountedKinds, Top.state \in {0, 3}, RowsUnchanged,
           NEW i \in Nat, NextRun(i),
           ~(Top.kind = "iter" /\ Top.state = 3) => i = Top.index + 1
    PROVE  PassEnded(0) \/ RunStarted
<1>1. CASE PopWith(0)
  BY <1>1 DEF PassEnded, CountedKinds, PassKinds
<1>2. CASE Replace([Top EXCEPT !.state = 0, !.index = i, !.runs = @ + 1])
  <2>1. Top \in IntFrames
    BY TopTyped
  <2> DEFINE to == [Top EXCEPT !.state = 0, !.index = i, !.runs = @ + 1]
  <2>2. /\ to \in IntFrames /\ to.kind = Top.kind /\ to.state = 0
        /\ to.index = i /\ to.runs = Top.runs + 1
    BY <2>1, RunFacts
  <2>3. Replace(to)
    BY <1>2
  <2> HIDE DEF to
  <2>4. Top.kind \in Loops
    BY DEF CountedKinds, Loops
  <2> QED
    BY <2>2, <2>3, <2>4 DEF RunStarted
<1> QED
  BY <1>1, <1>2 DEF NextRun

\* Leaving a loop hands on a return and nothing else.
LEMMA LeaveLoopKinds ==
    ASSUME StackOK, Top.kind \in Loops, RowsUnchanged, LeaveLoop
    PROVE  \E r \in 0 .. 3 : PassEnded(r)
<1>1. CASE Top.state = 1
  BY <1>1 DEF LeaveLoop, PassEnded, Loops, PassKinds
<1>2. CASE Top.state # 1
  BY <1>2 DEF LeaveLoop, PassEnded, Loops, PassKinds
<1> QED
  BY <1>1, <1>2

\* Every step is one of these, or one of call_func and the body it runs.
LEMMA StepKinds ==
    ASSUME StackOK, Next
    PROVE  \/ PassStarted
           \/ \E r \in 0 .. 3 : PassEnded(r)
           \/ RunStarted
           \/ Return \/ Break \/ Continue
           \/ \E f \in Func : StartCall(f)
           \/ \E A \in SUBSET Var : StartArgument(A)
           \/ EndArgument \/ EnterBody \/ EndBody
<1>1. Top \in IntFrames
  BY TopTyped
<1>2. Top.kind # "args" => Top.state \in 0 .. 3
  BY <1>1, FrameFacts
<1>3. ASSUME NEW k \in {"if", "while", "scope"}, StartBlock(k) PROVE PassStarted
  BY <1>3, NewFrames DEF StartBlock, PassStarted, PassKinds, CountedKinds
<1>4. ASSUME NEW k \in {"repeat", "for", "iter"}, StartCounted(k) PROVE PassStarted
  BY <1>4, NewFrames DEF StartCounted, PassStarted, PassKinds, CountedKinds
<1>5. ASSUME EndBlock PROVE \E r \in 0 .. 3 : PassEnded(r)
  <2>1. Top.state \in 0 .. 3 /\ Top.kind = "if" /\ PopWith(Top.state) /\ RowsUnchanged
    BY <1>2, <1>5 DEF EndBlock
  <2>2. PassEnded(Top.state)
    BY <2>1 DEF PassEnded, PassKinds
  <2> QED
    BY <2>1, <2>2
<1>6. ASSUME EndScope PROVE PassEnded(0)
  BY <1>6 DEF EndScope, PassEnded, PassKinds
<1>7. \A s \in 0 .. 3 : Top.kind # "args" => /\ [Top EXCEPT !.state = s] \in IntFrames
                                            /\ [Top EXCEPT !.state = s].kind = Top.kind
                                            /\ [Top EXCEPT !.state = s].state = s
  BY <1>1, StateFacts
<1>8. ASSUME EndWhile PROVE RunStarted \/ \E r \in 0 .. 3 : PassEnded(r)
  <2>1. Top.kind = "while" /\ RowsUnchanged
    BY <1>8 DEF EndWhile
  <2>2. CASE LeaveLoop
    BY <2>1, <2>2, LeaveLoopKinds DEF Loops
  <2>3. CASE Top.state \in {0, 3} /\ SetState(0)
    <3> DEFINE to == [Top EXCEPT !.state = 0]
    <3>1. to \in IntFrames /\ to.kind = "while" /\ to.state = 0
      BY <1>7, <2>1
    <3>2. Replace(to)
      BY <2>3 DEF SetState
    <3> HIDE DEF to
    <3> QED
      BY <2>1, <2>3, <3>1, <3>2 DEF RunStarted, Loops, CountedKinds
  <2> QED
    BY <1>8, <2>2, <2>3 DEF EndWhile
<1>9. Top.kind \in CountedKinds => Top.index \in Nat
  BY <1>1, FrameFacts
<1>10. ASSUME EndRepeat \/ EndFor PROVE RunStarted \/ \E r \in 0 .. 3 : PassEnded(r)
  <2>1. Top.kind \in CountedKinds /\ Top.kind # "iter" /\ RowsUnchanged
    BY <1>10 DEF EndRepeat, EndFor, CountedKinds
  <2>2. CASE Top.state \in {0, 3}
    <3>1. Top.index + 1 \in Nat /\ NextRun(Top.index + 1)
      BY <1>9, <1>10, <2>1, <2>2 DEF EndRepeat, EndFor
    <3> QED
      BY <2>1, <2>2, <3>1, NextRunKinds
  <2>3. CASE Top.state \notin {0, 3}
    BY <1>10, <2>1, <2>3, LeaveLoopKinds DEF EndRepeat, EndFor, Loops, CountedKinds
  <2> QED
    BY <2>2, <2>3
<1>11. ASSUME EndIter PROVE RunStarted \/ \E r \in 0 .. 3 : PassEnded(r)
  <2>1. Top.kind = "iter" /\ Top.kind \in CountedKinds /\ Top.kind \in Loops /\ RowsUnchanged
    BY <1>11 DEF EndIter, CountedKinds, Loops
  <2>2. CASE Top.state \in {0, 3}
    <3> DEFINE i == IF Top.state = 3 THEN Top.index ELSE Top.index + 1
    <3>1. i \in Nat /\ NextRun(i) /\ (Top.state # 3 => i = Top.index + 1)
      BY <1>9, <1>11, <2>1, <2>2 DEF EndIter
    <3> HIDE DEF i
    <3> QED
      BY <2>1, <2>2, <3>1, NextRunKinds
  <2>3. CASE Top.state \notin {0, 3}
    BY <1>11, <2>1, <2>3, LeaveLoopKinds DEF EndIter
  <2> QED
    BY <2>2, <2>3
<1>12. ASSUME EndRoot PROVE RunStarted
  <2> DEFINE to == [Top EXCEPT !.state = 0]
  <2>1. Top.kind = "root" /\ RowsUnchanged /\ Replace(to)
    BY <1>12 DEF EndRoot, SetState
  <2>2. to \in IntFrames /\ to.kind = "root" /\ to.state = 0
    BY <1>7, <2>1
  <2> HIDE DEF to
  <2> QED
    BY <2>1, <2>2 DEF RunStarted, CountedKinds
<1> QED
  BY <1>3, <1>4, <1>5, <1>6, <1>8, <1>10, <1>11, <1>12 DEF Next, Calls, Jumps, Blocks

\* A jump sets the state of the innermost pass and nothing else.
LEMMA JumpedFacts ==
    ASSUME StackOK, NEW r \in 0 .. 3, Jumped(r)
    PROVE  \E fr \in IntFrames :
              /\ Replace(fr)
              /\ Top.kind # "args" /\ Top.state = 0
              /\ fr.kind = Top.kind /\ fr.state = r
              /\ fr.kind = "body" => fr.func = Top.func /\ fr.row = Top.row
              /\ fr.kind \in CountedKinds => fr.index = Top.index /\ fr.runs = Top.runs
<1> DEFINE to == [Top EXCEPT !.state = r]
<1>1. Top \in IntFrames /\ Top.kind # "args" /\ Top.state = 0
  BY TopTyped DEF Jumped, Running
<1>2. /\ to \in IntFrames /\ to.kind = Top.kind /\ to.state = r
      /\ Top.kind = "body" => to.func = Top.func /\ to.row = Top.row
      /\ Top.kind \in CountedKinds => to.index = Top.index /\ to.runs = Top.runs
  BY <1>1, StateFacts
<1>3. Replace(to)
  BY DEF Jumped
<1> HIDE DEF to
<1>4. /\ to.kind = "body" => to.func = Top.func /\ to.row = Top.row
      /\ to.kind \in CountedKinds => to.index = Top.index /\ to.runs = Top.runs
  BY <1>2
<1> QED
  BY <1>1, <1>2, <1>3, <1>4

\* return, break and continue are jumps.
LEMMA JumpsJump ==
    /\ Return => Jumped(1)
    /\ Break => Jumped(2)
    /\ Continue => Jumped(3)
BY DEF Return, Break, Continue, Jumped, SetState

\* The frame of a new call.
LEMMA CallFacts ==
    ASSUME NEW f \in Func, NEW r \in Int
    PROVE  /\ Call(f, r) \in IntFrames
           /\ Call(f, r).kind = "args"
           /\ Call(f, r).func = f /\ Call(f, r).row = r
           /\ Call(f, r).ascended = {}
BY DEF Call, IntFrames

\* The body takes the place of the call.
LEMMA EnterFacts ==
    ASSUME StackOK, EnterBody
    PROVE  /\ Body(Top) \in IntFrames
           /\ Body(Top).kind = "body"
           /\ Body(Top).func = Top.func /\ Body(Top).row = Top.row
           /\ Body(Top).state = 0
           /\ Top.kind = "args"
           /\ Replace(Body(Top))
<1>1. Top \in IntFrames /\ Top.kind = "args"
  BY TopTyped DEF EnterBody
<1>2. Top.func \in Func /\ Top.row \in Int
  BY <1>1, FrameFacts
<1> QED
  BY <1>1, <1>2 DEF EnterBody, Body, IntFrames

\* An argument begins or ends.
LEMMA ArgumentSteps ==
    ASSUME StackOK,
           EndArgument \/ \E A \in SUBSET Var : StartArgument(A)
    PROVE  \E fr \in IntFrames :
              /\ Replace(fr)
              /\ Top.kind = "args" /\ fr.kind = "args"
              /\ fr.func = Top.func /\ fr.row = Top.row
<1>1. Top \in IntFrames /\ Top.kind = "args"
  BY TopTyped DEF EndArgument, StartArgument
<1>2. CASE EndArgument
  <2> DEFINE to == [Top EXCEPT !.evaluating = FALSE, !.ascended = {}]
  <2>1. to \in IntFrames /\ to.kind = "args" /\ to.func = Top.func /\ to.row = Top.row
    BY <1>1, ArgumentFacts
  <2>2. Replace(to)
    BY <1>2 DEF EndArgument
  <2> HIDE DEF to
  <2> QED
    BY <1>1, <2>1, <2>2
<1>3. ASSUME NEW A \in SUBSET Var, StartArgument(A)
      PROVE  \E fr \in IntFrames : /\ Replace(fr) /\ fr.kind = "args"
                                /\ fr.func = Top.func /\ fr.row = Top.row
  <2> DEFINE to == [Top EXCEPT !.evaluating = TRUE, !.ascended = A]
  <2>1. to \in IntFrames /\ to.kind = "args" /\ to.func = Top.func /\ to.row = Top.row
    BY <1>1, <1>3 DEF IntFrames
  <2>2. Replace(to)
    BY <1>3 DEF StartArgument
  <2> HIDE DEF to
  <2> QED
    BY <2>1, <2>2
<1> QED
  BY <1>1, <1>2, <1>3

-----------------------------------------------------------------------------
(* The shape of the stack. *)

\* Pushing onto a running pass, or a call onto an argument, keeps it.
LEMMA ShapePushed ==
    ASSUME StackOK, Shape, NEW fr \in IntFrames, Push(fr), Room, fr.kind # "root",
           Top.kind # "args" => Top.state = 0,
           Top.kind = "args" => Top.evaluating /\ fr.kind = "args"
    PROVE  StackOK' /\ Shape'
<1>1. PICK n \in Nat \ {0} : n = Len(stack)
  BY PushFacts
<1>2. /\ StackOK'
      /\ DOMAIN stack = 1 .. n /\ DOMAIN stack' = 1 .. n + 1
      /\ Len(stack') = n + 1
      /\ \A i \in 1 .. n : stack'[i] = stack[i]
      /\ stack'[n + 1] = fr
      /\ Top = stack[n]
  BY <1>1, PushFacts
<1>3. n + 1 <= MaxFrames
  BY <1>1, BoundsAssumption DEF Room
<1>4. \A i \in 1 .. n + 1 : stack'[i].kind = "root" <=> i = 1
  BY <1>1, <1>2 DEF Shape
<1>5. \A i \in 1 .. n :
          /\ stack'[i].kind = "args" => /\ stack'[i].evaluating
                                       /\ stack'[i + 1].kind \in {"args", "body"}
          /\ stack'[i].kind # "args" => stack'[i].state = 0
  <2> SUFFICES ASSUME NEW i \in 1 .. n
               PROVE  /\ stack[i].kind = "args" => /\ stack[i].evaluating
                                                  /\ stack'[i + 1].kind \in {"args", "body"}
                      /\ stack[i].kind # "args" => stack[i].state = 0
    BY <1>2
  <2>1. CASE i = n
    BY <1>2, <2>1
  <2>2. CASE i # n
    <3>1. i \in 1 .. n - 1 /\ i + 1 \in 1 .. n
      BY <2>2
    <3> QED
      BY <1>1, <1>2, <3>1 DEF Shape
  <2> QED
    BY <2>1, <2>2
<1> QED
  BY <1>2, <1>3, <1>4, <1>5 DEF Shape

\* So does changing the innermost frame without making it a root or a call.
LEMMA ShapeReplaced ==
    ASSUME StackOK, Shape, NEW fr \in IntFrames, Replace(fr),
           fr.kind = Top.kind \/ (Top.kind = "args" /\ fr.kind = "body")
    PROVE  StackOK' /\ Shape'
<1>1. PICK n \in Nat \ {0} : n = Len(stack)
  BY ReplaceFacts
<1>2. /\ StackOK'
      /\ DOMAIN stack = 1 .. n /\ DOMAIN stack' = 1 .. n
      /\ Len(stack') = n
      /\ \A i \in 1 .. n - 1 : stack'[i] = stack[i]
      /\ stack'[n] = fr
      /\ Top = stack[n]
  BY <1>1, ReplaceFacts
<1>3. \A i \in 1 .. n : stack'[i].kind = "root" <=> i = 1
  BY <1>1, <1>2 DEF Shape
<1>4. \A i \in 1 .. n - 1 :
          /\ stack'[i].kind = "args" => /\ stack'[i].evaluating
                                       /\ stack'[i + 1].kind \in {"args", "body"}
          /\ stack'[i].kind # "args" => stack'[i].state = 0
  <2> SUFFICES ASSUME NEW i \in 1 .. n - 1
               PROVE  /\ stack[i].kind = "args" => /\ stack[i].evaluating
                                                  /\ stack'[i + 1].kind \in {"args", "body"}
                      /\ stack[i].kind # "args" => stack[i].state = 0
    BY <1>2
  <2>1. /\ stack[i].kind = "args" => /\ stack[i].evaluating
                                     /\ stack[i + 1].kind \in {"args", "body"}
        /\ stack[i].kind # "args" => stack[i].state = 0
    BY <1>1 DEF Shape
  <2>2. CASE i + 1 = n
    BY <1>2, <2>1, <2>2
  <2>3. CASE i + 1 # n
    <3>1. i + 1 \in 1 .. n - 1
      BY <2>3
    <3> QED
      BY <1>2, <2>1, <3>1
  <2> QED
    BY <2>2, <2>3
<1> QED
  BY <1>1, <1>2, <1>3, <1>4 DEF Shape

\* Told keeps the kind and what a call or body belongs to.
LEMMA ToldFacts ==
    ASSUME NEW fr \in IntFrames, NEW r \in 0 .. 3
    PROVE  /\ Told(fr, r) \in IntFrames
           /\ Told(fr, r).kind = fr.kind
           /\ fr.kind = "args" => Told(fr, r) = fr
           /\ fr.kind # "args" => Told(fr, r).state = r
           /\ fr.kind \in {"args", "body"} => /\ Told(fr, r).func = fr.func
                                             /\ Told(fr, r).row = fr.row
           /\ fr.kind \in CountedKinds => /\ Told(fr, r).index = fr.index
                                          /\ Told(fr, r).runs = fr.runs
<1>1. CASE fr.kind = "args"
  BY <1>1 DEF Told, CountedKinds
<1>2. CASE fr.kind # "args"
  BY <1>2, StateFacts DEF Told
<1> QED
  BY <1>1, <1>2

\* And so does ending any frame but the root, which leaves at least the root.
LEMMA ShapePopped ==
    ASSUME StackOK, Shape, Top.kind # "root", NEW r \in 0 .. 3, PopWith(r)
    PROVE  StackOK' /\ Shape' /\ Len(stack) >= 2
<1>1. PICK n \in Nat : n = Len(stack) /\ n \in 1 .. n
  BY TopTyped DEF StackOK
<1>2. n >= 2
  <2>1. stack[1].kind = "root" /\ Top = stack[n]
    BY <1>1, TopTyped DEF Shape, StackOK
  <2> QED
    BY <1>1, <2>1
<1>3. /\ StackOK'
      /\ DOMAIN stack = 1 .. n /\ DOMAIN stack' = 1 .. n - 1
      /\ Len(stack') = n - 1
      /\ \A i \in 1 .. n : stack[i] \in IntFrames
      /\ \A i \in 1 .. n - 2 : stack'[i] = stack[i]
      /\ stack'[n - 1] = Told(stack[n - 1], r)
  BY <1>1, <1>2, PopFacts
<1>4. \A i \in 1 .. n - 1 : stack'[i].kind = stack[i].kind
  <2>1. stack'[n - 1].kind = stack[n - 1].kind
    <3>1. stack[n - 1] \in IntFrames
      BY <1>2, <1>3
    <3> QED
      BY <1>3, <3>1, ToldFacts
  <2> QED
    BY <1>2, <1>3, <2>1
<1>5. \A i \in 1 .. n - 1 : stack'[i].kind = "root" <=> i = 1
  BY <1>1, <1>3, <1>4 DEF Shape
<1>6. \A i \in 1 .. n - 2 :
          /\ stack'[i].kind = "args" => /\ stack'[i].evaluating
                                       /\ stack'[i + 1].kind \in {"args", "body"}
          /\ stack'[i].kind # "args" => stack'[i].state = 0
  BY <1>1, <1>3, <1>4 DEF Shape
<1>7. n - 1 <= MaxFrames
  BY <1>1, BoundsAssumption DEF Shape
<1> QED
  BY <1>1, <1>2, <1>3, <1>5, <1>6, <1>7 DEF Shape

\* Every step keeps it; the only integers in the stack come from loc.
ShapeInv == StackOK /\ loc \in [Func -> Int] /\ Shape

\* The shape of the stack is inductive.
LEMMA ShapeSteps ==
    ASSUME ShapeInv, [Next]_vars
    PROVE  ShapeInv'
<1> USE DEF ShapeInv
<1>1. Top \in IntFrames /\ Top = stack[Len(stack)]
  BY TopTyped
<1>2. CASE UNCHANGED vars
  BY <1>2 DEF vars, StackOK, Shape
<1>3. CASE PassStarted
  <2>1. loc' = loc /\ Room /\ Top.kind # "args" /\ Top.state = 0
    BY <1>3 DEF PassStarted, RowsUnchanged, Running
  <2>2. PICK fr \in IntFrames : Push(fr) /\ fr.kind # "root"
    BY <1>3 DEF PassStarted
  <2> QED
    BY <2>1, <2>2, ShapePushed
<1>4. ASSUME NEW r \in 0 .. 3, PassEnded(r) PROVE ShapeInv'
  <2>1. loc' = loc /\ PopWith(r) /\ Top.kind # "root"
    BY <1>4 DEF PassEnded, RowsUnchanged
  <2> QED
    BY <2>1, ShapePopped
<1>5. CASE RunStarted
  <2>1. loc' = loc
    BY <1>5 DEF RunStarted, RowsUnchanged
  <2>2. PICK fr \in IntFrames : Replace(fr) /\ fr.kind = Top.kind
    BY <1>5 DEF RunStarted
  <2> QED
    BY <2>1, <2>2, ShapeReplaced
<1>6. CASE Return \/ Break \/ Continue
  <2>1. \E r \in 0 .. 3 : Jumped(r)
    BY <1>6, JumpsJump
  <2>2. PICK fr \in IntFrames : Replace(fr) /\ fr.kind = Top.kind
    BY <2>1, JumpedFacts
  <2>3. StackOK' /\ Shape'
    BY <2>2, ShapeReplaced
  <2>4. loc' \in [Func -> Int]
    <3>1. CASE Return /\ CurrentBody > 0 /\ ~Within({"iter"})
      BY <3>1 DEF Return, Ascend
    <3>2. CASE ~(Return /\ CurrentBody > 0 /\ ~Within({"iter"}))
      BY <1>6, <3>2 DEF Return, Break, Continue, RowsUnchanged
    <3> QED
      BY <3>1, <3>2
  <2> QED
    BY <2>3, <2>4
<1>7. ASSUME NEW f \in Func, StartCall(f) PROVE ShapeInv'
  <2>1. loc[f] + 1 \in Int /\ loc' \in [Func -> Int] /\ Room /\ Push(Call(f, loc[f] + 1))
    BY <1>7 DEF StartCall, Descend
  <2> DEFINE fr == Call(f, loc[f] + 1)
  <2>2. fr \in IntFrames /\ fr.kind = "args" /\ Push(fr)
    <3>1. \A r \in Int : Call(f, r) \in IntFrames /\ Call(f, r).kind = "args"
      BY <1>7 DEF Call, IntFrames
    <3> QED
      BY <2>1, <3>1
  <2>3. /\ Top.kind # "args" => Top.state = 0
        /\ Top.kind = "args" => Top.evaluating
    BY <1>7 DEF StartCall, Running
  <2> HIDE DEF fr
  <2> QED
    BY <2>1, <2>2, <2>3, ShapePushed
<1>8. CASE EndArgument \/ \E A \in SUBSET Var : StartArgument(A)
  <2>1. loc' = loc
    BY <1>8 DEF EndArgument, StartArgument
  <2>2. PICK fr \in IntFrames : Replace(fr) /\ fr.kind = Top.kind
    BY <1>8, ArgumentSteps
  <2> QED
    BY <2>1, <2>2, ShapeReplaced
<1>9. CASE EnterBody
  <2>1. loc' = loc
    BY <1>9 DEF EnterBody, RowsUnchanged
  <2> QED
    BY <1>9, <2>1, EnterFacts, ShapeReplaced
<1>10. CASE EndBody
  <2>1. Top.kind # "root" /\ PopWith(0)
    BY <1>10 DEF EndBody
  <2>2. loc' \in [Func -> Int]
    BY <1>10 DEF EndBody, Ascend, RowsUnchanged
  <2> QED
    BY <2>1, <2>2, ShapePopped
<1> QED
  BY <1>2, <1>3, <1>4, <1>5, <1>6, <1>7, <1>8, <1>9, <1>10, StepKinds

\* At the start there is the pass over the root.
LEMMA ShapeInit ==
    ASSUME Init
    PROVE  ShapeInv /\ Len(stack) = 1 /\ stack[1].kind = "root" /\ stack[1].state = 0
<1>1. Block("root") \in IntFrames /\ Block("root").kind = "root" /\ Block("root").state = 0
  BY DEF Block, IntFrames
<1>2. stack = <<Block("root")>> /\ loc \in [Func -> Int]
  BY DEF Init
<1>3. stack \in Seq(IntFrames) /\ stack # <<>> /\ Len(stack) = 1 /\ stack[1] = Block("root")
  BY <1>1, <1>2
<1>4. DOMAIN stack = 1 .. 1
  BY <1>3
<1> QED
  BY <1>1, <1>2, <1>3, <1>4, BoundsAssumption DEF ShapeInv, StackOK, Shape

-----------------------------------------------------------------------------
(* Breaks and continues end in their functions. *)

JumpsInv == ShapeInv /\ JumpsStayInFunction /\ JumpHasExit

\* A frame of some kinds on top is the innermost of these kinds.
LEMMA InnermostTop ==
    ASSUME NEW S, NEW s \in Seq(S), s # <<>>, NEW K, s[Len(s)].kind \in K
    PROVE  InnermostOf(s, K) = Len(s)
<1>1. Len(s) \in 0 .. Len(s) /\ \A j \in Len(s) + 1 .. Len(s) : s[j].kind \notin K
  OBVIOUS
<1> QED
  BY <1>1, InnermostIs

\* With a loop or lock scope inside, the innermost frame is no body or root.
LEMMA ExitOnTop ==
    ASSUME NEW S, NEW s \in Seq(S), s # <<>>,
           InnermostOf(s, Exits) > InnermostOf(s, {"body", "root"})
    PROVE  s[Len(s)].kind \notin {"body", "root"}
<1> SUFFICES ASSUME s[Len(s)].kind \in {"body", "root"}
             PROVE  FALSE
  OBVIOUS
<1>1. InnermostOf(s, {"body", "root"}) = Len(s)
  BY InnermostTop
<1>2. InnermostOf(s, Exits) \in 0 .. Len(s) /\ Len(s) \in Nat
  BY InnermostFacts
<1> QED
  BY <1>1, <1>2

\* A frame that is replaced by one of its kind leaves all of them where they were.
LEMMA InnermostReplaced ==
    ASSUME StackOK, NEW fr \in IntFrames, Replace(fr), fr.kind = Top.kind, NEW K
    PROVE  InnermostOf(stack', K) = InnermostOf(stack, K)
<1>1. \A i \in DOMAIN stack : stack'[i].kind = stack[i].kind
  BY ReplaceFacts
<1>2. DOMAIN stack' = DOMAIN stack /\ stack' \in Seq(IntFrames) /\ stack \in Seq(IntFrames)
  BY ReplaceFacts DEF StackOK
<1> QED
  BY <1>1, <1>2, InnermostSame

\* The kinds of the frames below one that is popped stay.
LEMMA KindsPopped ==
    ASSUME StackOK, Len(stack) >= 2, NEW r \in 0 .. 3, PopWith(r)
    PROVE  \A i \in 1 .. Len(stack) - 1 :
              /\ stack'[i].kind = stack[i].kind
              /\ stack[i].kind \in {"args", "body"} => /\ stack'[i].func = stack[i].func
                                                      /\ stack'[i].row = stack[i].row
              /\ stack[i].kind = "args" => stack'[i] = stack[i]
              /\ stack[i].kind \in CountedKinds => /\ stack'[i].index = stack[i].index
                                                  /\ stack'[i].runs = stack[i].runs
<1> SUFFICES ASSUME NEW i \in 1 .. Len(stack) - 1
             PROVE  /\ stack'[i].kind = stack[i].kind
                    /\ stack[i].kind \in {"args", "body"} => /\ stack'[i].func = stack[i].func
                                                            /\ stack'[i].row = stack[i].row
                    /\ stack[i].kind = "args" => stack'[i] = stack[i]
                    /\ stack[i].kind \in CountedKinds => /\ stack'[i].index = stack[i].index
                                                        /\ stack'[i].runs = stack[i].runs
  OBVIOUS
<1>1. PICK n \in Nat : n = Len(stack)
  BY PopFacts
<1>2. /\ \A j \in 1 .. n : stack[j] \in IntFrames
      /\ \A j \in 1 .. n - 2 : stack'[j] = stack[j]
      /\ stack'[n - 1] = Told(stack[n - 1], r)
  BY <1>1, PopFacts
<1>3. CASE i = n - 1
  <2>1. stack[i] \in IntFrames /\ stack'[i] = Told(stack[i], r)
    BY <1>1, <1>2, <1>3
  <2> QED
    BY <2>1, ToldFacts
<1>4. CASE i # n - 1
  BY <1>1, <1>2, <1>4
<1> QED
  BY <1>3, <1>4

\* A frame that is popped and is of none of these kinds does not count.
LEMMA InnermostPopped ==
    ASSUME StackOK, Len(stack) >= 2, NEW r \in 0 .. 3, PopWith(r), NEW K, Top.kind \notin K
    PROVE  InnermostOf(stack', K) = InnermostOf(stack, K)
<1>1. PICK n \in Nat : n = Len(stack)
  BY PopFacts
<1>2. /\ DOMAIN stack = 1 .. n /\ DOMAIN stack' = 1 .. n - 1
      /\ stack \in Seq(IntFrames) /\ stack' \in Seq(IntFrames)
      /\ \A i \in 1 .. n - 1 : stack'[i].kind = stack[i].kind
      /\ stack[n].kind \notin K
  BY <1>1, PopFacts, KindsPopped DEF StackOK
<1>3. /\ \A i \in DOMAIN stack \cap DOMAIN stack' : stack[i].kind \in K <=> stack'[i].kind \in K
      /\ \A i \in DOMAIN stack \ DOMAIN stack' : stack[i].kind \notin K
      /\ DOMAIN stack' \ DOMAIN stack = {}
  BY <1>1, <1>2
<1> QED
  BY <1>2, <1>3, InnermostSame

\* Below a frame that is not a call or a body there is a pass.
LEMMA PassBelow ==
    ASSUME ShapeInv, Len(stack) >= 2, Top.kind \notin {"args", "body"}
    PROVE  stack[Len(stack) - 1].kind # "args"
<1>1. PICK n \in Nat : n = Len(stack)
  BY DEF ShapeInv, StackOK
<1>2. n - 1 \in 1 .. n - 1 /\ (n - 1) + 1 = n /\ Top = stack[n]
  BY <1>1, TopTyped DEF ShapeInv
<1>3. stack[n - 1].kind = "args" => stack[(n - 1) + 1].kind \in {"args", "body"}
  BY <1>1, <1>2 DEF ShapeInv, Shape
<1> QED
  BY <1>1, <1>2, <1>3

\* The steps that begin something, and those that end it without a jump, leave
\* the innermost frame without one, and no other frame gets a state.
LEMMA QuietSteps ==
    ASSUME ShapeInv,
           \/ PassStarted \/ RunStarted \/ PassEnded(0)
           \/ \E f \in Func : StartCall(f)
           \/ \E A \in SUBSET Var : StartArgument(A)
           \/ EndArgument \/ EnterBody \/ EndBody
    PROVE  /\ Top'.kind # "args" => Top'.state = 0
           /\ \A i \in DOMAIN stack' :
                 \/ stack'[i].kind # "args" => stack'[i].state = 0
                 \/ i \in DOMAIN stack /\ stack'[i] = stack[i]
<1> USE DEF ShapeInv
<1>1. CASE \E fr \in IntFrames : Push(fr) /\ (fr.kind # "args" => fr.state = 0)
  <2>1. PICK fr \in IntFrames : Push(fr) /\ (fr.kind # "args" => fr.state = 0)
    BY <1>1
  <2> QED
    BY <2>1, PushFacts
<1>2. CASE \E fr \in IntFrames : Replace(fr) /\ (fr.kind # "args" => fr.state = 0)
  <2>1. PICK fr \in IntFrames : Replace(fr) /\ (fr.kind # "args" => fr.state = 0)
    BY <1>2
  <2> QED
    BY <2>1, ReplaceFacts
<1>3. CASE Top.kind # "root" /\ PopWith(0)
  <2>1. PICK n \in Nat : n = Len(stack)
    BY DEF StackOK
  <2>2. n >= 2
    BY <1>3, <2>1, ShapePopped
  <2>3. /\ DOMAIN stack = 1 .. n /\ DOMAIN stack' = 1 .. n - 1
        /\ stack[n - 1] \in IntFrames
        /\ \A i \in 1 .. n - 2 : stack'[i] = stack[i]
        /\ stack'[n - 1] = Told(stack[n - 1], 0)
        /\ Top' = stack'[n - 1]
    BY <1>3, <2>1, <2>2, PopFacts
  <2>4. stack'[n - 1].kind # "args" => stack'[n - 1].state = 0
    BY <2>3, ToldFacts
  <2> QED
    BY <2>2, <2>3, <2>4
<1>4. ASSUME NEW f \in Func, StartCall(f)
      PROVE  \E fr \in IntFrames : Push(fr) /\ fr.kind = "args"
  <2> DEFINE fr == Call(f, loc[f] + 1)
  <2>1. loc[f] + 1 \in Int /\ Push(fr)
    BY <1>4 DEF StartCall
  <2>2. fr \in IntFrames /\ fr.kind = "args"
    BY <1>4, <2>1, CallFacts
  <2> QED
    BY <2>1, <2>2
<1>5. PassStarted => \E fr \in IntFrames : Push(fr) /\ fr.state = 0
  BY DEF PassStarted
<1>6. RunStarted => \E fr \in IntFrames : Replace(fr) /\ fr.state = 0
  BY DEF RunStarted
<1>7. PassEnded(0) \/ EndBody => Top.kind # "root" /\ PopWith(0)
  BY DEF PassEnded, EndBody
<1>8. EndArgument \/ (\E A \in SUBSET Var : StartArgument(A))
        => \E fr \in IntFrames : Replace(fr) /\ fr.kind = "args"
  BY ArgumentSteps
<1>9. EnterBody => \E fr \in IntFrames : Replace(fr) /\ fr.state = 0
  BY EnterFacts
<1> QED
  BY <1>1, <1>2, <1>3, <1>4, <1>5, <1>6, <1>7, <1>8, <1>9

\* A jump is made in a loop or lock scope and handed on only by an if.
LEMMA JumpsSteps ==
    ASSUME JumpsInv, [Next]_vars
    PROVE  JumpsInv'
<1> USE DEF JumpsInv
<1>1. ShapeInv' /\ StackOK /\ StackOK' /\ DOMAIN stack = 1 .. Len(stack)
  BY ShapeSteps DEF ShapeInv, StackOK
<1>2. CASE UNCHANGED vars
  BY <1>1, <1>2 DEF vars, JumpsStayInFunction, JumpHasExit, Leaving, CanJump, Innermost, Top
<1>3. ASSUME Top'.kind # "args" => Top'.state = 0,
             \A i \in DOMAIN stack' :
                 \/ stack'[i].kind # "args" => stack'[i].state = 0
                 \/ i \in DOMAIN stack /\ stack'[i] = stack[i]
      PROVE  JumpsInv'
  <2>1. JumpHasExit'
    BY <1>3 DEF JumpHasExit, Leaving
  <2>2. JumpsStayInFunction'
    BY <1>3 DEF JumpsStayInFunction
  <2> QED
    BY <1>1, <2>1, <2>2
<1>4. ASSUME NEW r \in 0 .. 3, PassEnded(r), r # 0 PROVE JumpsInv'
  <2>1. PICK n \in Nat : n = Len(stack)
    BY <1>1, StackFacts
  <2>2. PopWith(r) /\ r = Top.state /\ Top.kind \in PassKinds \ {"body", "root"}
        /\ (r \in {2, 3} => Top.kind = "if")
    BY <1>4 DEF PassEnded
  <2>3. n >= 2
    BY <2>1, <2>2, ShapePopped DEF ShapeInv
  <2>4. /\ stack' \in Seq(IntFrames) /\ stack' # <<>> /\ Len(stack') = n - 1
        /\ DOMAIN stack = 1 .. n /\ DOMAIN stack' = 1 .. n - 1
        /\ stack[n - 1] \in IntFrames
        /\ \A i \in 1 .. n - 2 : stack'[i] = stack[i]
        /\ stack'[n - 1] = Told(stack[n - 1], r)
        /\ Top' = stack'[n - 1]
    <3>1. stack' \in Seq(IntFrames) /\ stack' # <<>>
      BY <1>1 DEF StackOK
    <3>2. n \in 1 .. n /\ n - 1 \in 1 .. n
      BY <2>3
    <3> QED
      BY <1>1, <2>1, <2>2, <2>3, <3>1, <3>2, PopFacts
  <2>5. stack[n - 1].kind # "args"
    BY <2>1, <2>2, <2>3, PassBelow DEF PassKinds
  <2>6. stack'[n - 1].kind = stack[n - 1].kind /\ stack'[n - 1].state = r
    BY <2>4, <2>5, ToldFacts
  <2>7. r \in {2, 3} => CanJump'
    <3> SUFFICES ASSUME r \in {2, 3} PROVE CanJump'
      OBVIOUS
    <3>1. CanJump /\ Top.kind = "if"
      BY <2>2 DEF JumpHasExit, Leaving
    <3>2. /\ InnermostOf(stack', Exits) = InnermostOf(stack, Exits)
          /\ InnermostOf(stack', {"body", "root"})
                = InnermostOf(stack, {"body", "root"})
      BY <1>1, <2>1, <2>2, <2>3, <3>1, InnermostPopped DEF Exits, Loops
    <3> QED
      BY <3>1, <3>2 DEF CanJump, Innermost
  <2>8. JumpHasExit'
    BY <2>4, <2>6, <2>7 DEF JumpHasExit, Leaving
  <2>9. r \in {2, 3} => stack'[n - 1].kind \notin {"body", "root"}
    BY <2>4, <2>7, ExitOnTop DEF CanJump, Innermost
  <2>10. JumpsStayInFunction'
    <3> SUFFICES ASSUME NEW i \in 1 .. n - 1, stack'[i].kind \in {"body", "root"}
                 PROVE  stack'[i].state \in {0, 1}
      BY <2>4 DEF JumpsStayInFunction
    <3>1. CASE i = n - 1
      BY <2>6, <2>9, <3>1
    <3>2. CASE i # n - 1
      <4>1. i \in 1 .. n - 2 /\ i \in 1 .. n
        BY <2>3, <3>2
      <4> QED
        BY <2>4, <4>1 DEF JumpsStayInFunction
    <3> QED
      BY <3>1, <3>2
  <2> QED
    BY <1>1, <2>8, <2>10
<1>5. ASSUME NEW r \in 1 .. 3, Jumped(r), r \in {2, 3} => CanJump PROVE JumpsInv'
  <2>1. PICK fr \in IntFrames : Replace(fr) /\ fr.kind = Top.kind /\ fr.state = r
    BY <1>1, <1>5, JumpedFacts
  <2>2. PICK n \in Nat : n = Len(stack)
    BY <1>1, StackFacts
  <2>3. /\ DOMAIN stack = 1 .. n /\ DOMAIN stack' = 1 .. n
        /\ \A i \in 1 .. n - 1 : stack'[i] = stack[i]
        /\ stack'[n] = fr /\ Top' = fr /\ Top = stack[n]
    BY <1>1, <2>1, <2>2, ReplaceFacts
  <2>4. CanJump' <=> CanJump
    BY <1>1, <2>1, InnermostReplaced DEF CanJump, Innermost
  <2>5. JumpHasExit'
    BY <1>5, <2>1, <2>3, <2>4 DEF JumpHasExit, Leaving
  <2>6. r \in {2, 3} => fr.kind \notin {"body", "root"}
    BY <1>1, <1>5, <2>1, <2>2, <2>3, ExitOnTop DEF CanJump, Innermost, StackOK
  <2>7. JumpsStayInFunction'
    <3> SUFFICES ASSUME NEW i \in 1 .. n, stack'[i].kind \in {"body", "root"}
                 PROVE  stack'[i].state \in {0, 1}
      BY <2>3 DEF JumpsStayInFunction
    <3>1. CASE i = n
      BY <2>1, <2>3, <2>6, <3>1
    <3>2. CASE i # n
      BY <2>3, <3>2 DEF JumpsStayInFunction
    <3> QED
      BY <3>1, <3>2
  <2> QED
    BY <1>1, <2>5, <2>7
<1>6. Return \/ Break \/ Continue
        => \E r \in 1 .. 3 : Jumped(r) /\ (r \in {2, 3} => CanJump)
  BY JumpsJump DEF Break, Continue
<1> QED
  BY <1>1, <1>2, <1>3, <1>4, <1>5, <1>6, StepKinds, QuietSteps

\* Whatever constructs the scripts use, a break or continue written in a loop
\* or in a lock scope does not end the function: only ifs are between it and
\* the loop or scope when it is made, and only an if hands it on.
THEOREM JumpsContained == Spec => []JumpsStayInFunction
<1>1. Init => JumpsInv
  <2> SUFFICES ASSUME Init PROVE JumpsInv
    OBVIOUS
  <2>1. /\ ShapeInv /\ Len(stack) = 1 /\ stack[1].kind = "root" /\ stack[1].state = 0
        /\ DOMAIN stack = 1 .. 1 /\ Top = stack[1]
    BY ShapeInit, StackFacts, TopTyped DEF ShapeInv
  <2> QED
    BY <2>1 DEF JumpsInv, JumpsStayInFunction, JumpHasExit, Leaving
<1>2. JumpsInv /\ [Next]_vars => JumpsInv'
  BY JumpsSteps
<1>3. JumpsInv => JumpsStayInFunction
  BY DEF JumpsInv
<1> QED
  BY <1>1, <1>2, <1>3, PTL DEF Spec

-----------------------------------------------------------------------------
(* Loops run once for each index. *)

LoopsInv == ShapeInv /\ OncePerIndex /\ ContinueGoes

\* No step makes a continue that an iter gets, and only an iter would skip the
\* increment.
LEMMA LoopsSteps ==
    ASSUME ContinueOutsideIter, LoopsInv, [Next]_vars
    PROVE  LoopsInv'
<1> USE DEF LoopsInv
<1>1. ShapeInv' /\ StackOK /\ StackOK'
  BY ShapeSteps DEF ShapeInv
<1>2. PICK n \in Nat : n = Len(stack)
  BY <1>1, StackFacts
<1>3. DOMAIN stack = 1 .. n /\ n \in 1 .. n /\ Top = stack[n] /\ Top \in IntFrames
  BY <1>1, <1>2, StackFacts, TopTyped
<1>4. CASE UNCHANGED vars
  BY <1>1, <1>4 DEF vars, OncePerIndex, ContinueGoes, Leaving, Innermost, Top
<1>5. ASSUME NEW fr \in IntFrames, Push(fr),
             fr.kind \in CountedKinds => fr.index = 0 /\ fr.runs = 1
      PROVE  OncePerIndex'
  BY <1>1, <1>2, <1>5, PushFacts DEF OncePerIndex, CountedKinds
<1>6. ASSUME NEW fr \in IntFrames, Replace(fr),
             fr.kind \in CountedKinds => fr.runs = fr.index + 1
      PROVE  OncePerIndex'
  <2>1. /\ DOMAIN stack' = 1 .. n /\ stack'[n] = fr
        /\ \A i \in 1 .. n - 1 : stack'[i] = stack[i]
    BY <1>1, <1>2, <1>6, ReplaceFacts
  <2> SUFFICES ASSUME NEW i \in 1 .. n, stack'[i].kind \in CountedKinds
               PROVE  stack'[i].runs = stack'[i].index + 1
    BY <2>1 DEF OncePerIndex, CountedKinds
  <2>2. CASE i = n
    BY <1>6, <2>1, <2>2
  <2>3. CASE i # n
    BY <1>3, <2>1, <2>3 DEF OncePerIndex, CountedKinds
  <2> QED
    BY <2>2, <2>3
<1>7. ASSUME NEW r \in 0 .. 3, PopWith(r), Top.kind # "root"
      PROVE  n >= 2 /\ OncePerIndex'
  <2>1. n >= 2
    BY <1>2, <1>7, ShapePopped DEF ShapeInv
  <2>2. /\ DOMAIN stack' = 1 .. n - 1
        /\ \A i \in 1 .. n - 1 :
              /\ stack'[i].kind = stack[i].kind
              /\ stack[i].kind \in CountedKinds => /\ stack'[i].index = stack[i].index
                                                  /\ stack'[i].runs = stack[i].runs
    BY <1>1, <1>2, <1>7, <2>1, PopFacts, KindsPopped
  <2> QED
    BY <1>3, <2>1, <2>2 DEF OncePerIndex, CountedKinds
<1>8. ASSUME Top'.kind # "args" => Top'.state = 0 PROVE ContinueGoes'
  BY <1>8 DEF ContinueGoes, Leaving
<1>9. CASE PassStarted
  <2>1. PICK fr \in IntFrames : /\ Push(fr)
                                /\ fr.kind \in CountedKinds => fr.index = 0 /\ fr.runs = 1
    BY <1>9 DEF PassStarted
  <2> QED
    BY <1>1, <1>5, <1>8, <1>9, <2>1, QuietSteps
<1>10. CASE RunStarted
  <2>1. PICK fr \in IntFrames :
            /\ Replace(fr)
            /\ fr.kind = Top.kind
            /\ fr.kind \in CountedKinds => fr.runs = Top.runs + 1
            /\ fr.kind \in CountedKinds /\ ~(fr.kind = "iter" /\ Top.state = 3)
                  => fr.index = Top.index + 1
    BY <1>10 DEF RunStarted
  <2>2. ~(Top.kind = "iter" /\ Top.state = 3)
    <3> SUFFICES ASSUME Top.kind = "iter", Top.state = 3 PROVE FALSE
      OBVIOUS
    <3>1. Innermost(Exits) # Innermost({"iter"})
      BY DEF ContinueGoes, Leaving
    <3>2. Innermost(Exits) = n /\ Innermost({"iter"}) = n
      BY <1>1, <1>2, <1>3, InnermostTop DEF StackOK, Innermost, Exits, Loops
    <3> QED
      BY <3>1, <3>2
  <2>3. Top.kind \in CountedKinds => Top.runs = Top.index + 1
    BY <1>3 DEF OncePerIndex, CountedKinds
  <2>4. Top.kind \in CountedKinds => Top.index \in Nat
    BY <1>3, FrameFacts
  <2>5. fr.kind \in CountedKinds => fr.runs = fr.index + 1
    BY <2>1, <2>2, <2>3, <2>4
  <2> QED
    BY <1>1, <1>6, <1>8, <1>10, <2>1, <2>5, QuietSteps
<1>11. ASSUME NEW r \in 0 .. 3, PassEnded(r) PROVE LoopsInv'
  <2>1. PopWith(r) /\ Top.kind \notin {"args", "body", "root"}
        /\ (r \in {2, 3} => Top.kind = "if") /\ r \in {0, Top.state}
    BY <1>11 DEF PassEnded, PassKinds
  <2>2. OncePerIndex' /\ n >= 2
    BY <1>7, <2>1
  <2>3. CASE r # 3
    <3>1. Top' = Told(stack[n - 1], r) /\ stack[n - 1] \in IntFrames
      <4>1. n - 1 \in 1 .. n
        BY <2>2
      <4> QED
        BY <1>1, <1>2, <2>1, <2>2, <4>1, PopFacts
    <3>2. Top'.kind # "args" => Top'.state = r
      BY <3>1, ToldFacts
    <3> QED
      BY <1>1, <2>2, <2>3, <3>2 DEF ContinueGoes, Leaving
  <2>4. CASE r = 3
    <3>1. Innermost(Exits) # Innermost({"iter"}) /\ Top.kind = "if"
      BY <2>1, <2>4 DEF ContinueGoes, Leaving
    <3>2. /\ InnermostOf(stack', Exits) = InnermostOf(stack, Exits)
          /\ InnermostOf(stack', {"iter"}) = InnermostOf(stack, {"iter"})
      BY <1>1, <1>2, <2>1, <2>2, <3>1, InnermostPopped DEF Exits, Loops
    <3> QED
      BY <1>1, <2>2, <3>1, <3>2 DEF ContinueGoes, Innermost
  <2> QED
    BY <2>3, <2>4
<1>12. CASE Return \/ Break \/ Continue
  <2>1. PICK r \in 0 .. 3 : Jumped(r) /\ (r = 3 => Continue)
    BY <1>12, JumpsJump
  <2>2. PICK fr \in IntFrames :
            /\ Replace(fr)
            /\ fr.kind = Top.kind /\ fr.state = r
            /\ fr.kind \in CountedKinds => fr.index = Top.index /\ fr.runs = Top.runs
    BY <1>1, <2>1, JumpedFacts
  <2>3. fr.kind \in CountedKinds => fr.runs = fr.index + 1
    BY <1>3, <2>2 DEF OncePerIndex, CountedKinds
  <2>4. Top' = fr
    BY <1>1, <2>2, ReplaceFacts
  <2>5. ContinueGoes'
    <3>1. CASE r # 3
      BY <2>2, <2>4, <3>1 DEF ContinueGoes, Leaving
    <3>2. CASE r = 3
      <4>1. Innermost(Exits) # Innermost({"iter"})
        BY <2>1, <3>2 DEF Continue, ContinueOutsideIter
      <4>2. /\ InnermostOf(stack', Exits) = InnermostOf(stack, Exits)
            /\ InnermostOf(stack', {"iter"}) = InnermostOf(stack, {"iter"})
        BY <1>1, <2>2, InnermostReplaced
      <4> QED
        BY <4>1, <4>2 DEF ContinueGoes, Innermost
    <3> QED
      BY <3>1, <3>2
  <2> QED
    BY <1>1, <1>6, <2>2, <2>3, <2>5
<1>13. ASSUME NEW f \in Func, StartCall(f) PROVE LoopsInv'
  <2> DEFINE fr == Call(f, loc[f] + 1)
  <2>1. loc[f] + 1 \in Int /\ Push(fr)
    BY <1>13 DEF StartCall, ShapeInv
  <2>2. fr \in IntFrames /\ fr.kind = "args"
    BY <1>13, <2>1, CallFacts
  <2> HIDE DEF fr
  <2>3. OncePerIndex'
    BY <1>5, <2>1, <2>2 DEF CountedKinds
  <2> QED
    BY <1>1, <1>8, <1>13, <2>3, QuietSteps
<1>14. CASE EndArgument \/ \E A \in SUBSET Var : StartArgument(A)
  <2>1. PICK fr \in IntFrames : Replace(fr) /\ fr.kind = "args"
    BY <1>1, <1>14, ArgumentSteps
  <2>2. OncePerIndex'
    BY <1>6, <2>1 DEF CountedKinds
  <2> QED
    BY <1>1, <1>8, <1>14, <2>2, QuietSteps
<1>15. CASE EnterBody
  <2>1. PICK fr \in IntFrames : Replace(fr) /\ fr.kind = "body"
    BY <1>1, <1>15, EnterFacts
  <2>2. OncePerIndex'
    BY <1>6, <2>1 DEF CountedKinds
  <2> QED
    BY <1>1, <1>8, <1>15, <2>2, QuietSteps
<1>16. CASE EndBody
  <2>1. OncePerIndex'
    BY <1>7, <1>16 DEF EndBody
  <2> QED
    BY <1>1, <1>8, <1>16, <2>1, QuietSteps
<1> QED
  BY <1>1, <1>4, <1>9, <1>10, <1>11, <1>12, <1>13, <1>14, <1>15, <1>16, StepKinds

\* At the start no loop runs.
LEMMA LoopsInit == Init => LoopsInv
<1> SUFFICES ASSUME Init PROVE LoopsInv
  OBVIOUS
<1>1. /\ ShapeInv /\ Len(stack) = 1 /\ stack[1].kind = "root" /\ stack[1].state = 0
      /\ DOMAIN stack = 1 .. 1 /\ Top = stack[1]
  BY ShapeInit, StackFacts, TopTyped DEF ShapeInv
<1> QED
  BY <1>1 DEF LoopsInv, OncePerIndex, ContinueGoes, Leaving

\* A counted loop runs its body once for each index, however its runs end, in
\* programs that do not continue an iter: that skips the increment.
THEOREM RunsCounted ==
    ASSUME ContinueOutsideIter
    PROVE  Spec => []OncePerIndex
<1>1. Init => LoopsInv
  BY LoopsInit
<1>2. LoopsInv /\ [Next]_vars => LoopsInv'
  BY LoopsSteps
<1>3. LoopsInv => OncePerIndex
  BY DEF LoopsInv
<1> QED
  BY <1>1, <1>2, <1>3, PTL DEF Spec

-----------------------------------------------------------------------------
(* Every descent is ascended once. *)

\* No step changes which frames are calls or bodies, of which function and row,
\* except that frames come and go at the top.
Activation == {"args", "body"}

CallsKept ==
    \A i \in DOMAIN stack \cap DOMAIN stack' :
        /\ stack'[i].kind \in Activation <=> stack[i].kind \in Activation
        /\ stack[i].kind \in Activation => /\ stack'[i].func = stack[i].func
                                           /\ stack'[i].row = stack[i].row

\* What the steps do to the height of the stack, and what is pushed or popped.
LEMMA KeptSteps ==
    ASSUME ShapeInv, NEW n \in Nat, n = Len(stack)
    PROVE  /\ PassStarted => /\ CallsKept /\ DOMAIN stack' = 1 .. n + 1
                             /\ stack'[n + 1].kind \notin Activation
           /\ \A f \in Func : StartCall(f) =>
                 /\ CallsKept /\ DOMAIN stack' = 1 .. n + 1
                 /\ stack'[n + 1].kind = "args" /\ stack'[n + 1].ascended = {}
                 /\ stack'[n + 1].func = f /\ stack'[n + 1].row = loc[f] + 1
                 /\ \A i \in 1 .. n : stack'[i] = stack[i]
           /\ \A r \in 0 .. 3 : PassEnded(r) =>
                 CallsKept /\ n >= 2 /\ DOMAIN stack' = 1 .. n - 1
           /\ EndBody => CallsKept /\ n >= 2 /\ DOMAIN stack' = 1 .. n - 1
           /\ \/ RunStarted \/ Return \/ Break \/ Continue \/ EndArgument \/ EnterBody
              \/ \E A \in SUBSET Var : StartArgument(A)
              => CallsKept /\ DOMAIN stack' = 1 .. n
<1> USE DEF ShapeInv
<1>1. DOMAIN stack = 1 .. n /\ n \in 1 .. n /\ Top = stack[n] /\ Top \in IntFrames
  BY StackFacts, TopTyped
<1>2. ASSUME NEW fr \in IntFrames, Push(fr)
      PROVE  /\ CallsKept /\ DOMAIN stack' = 1 .. n + 1 /\ stack'[n + 1] = fr
             /\ \A i \in 1 .. n : stack'[i] = stack[i]
  BY <1>1, <1>2, PushFacts DEF CallsKept
<1>3. ASSUME NEW fr \in IntFrames, Replace(fr),
             fr.kind \in Activation <=> Top.kind \in Activation,
             Top.kind \in Activation => fr.func = Top.func /\ fr.row = Top.row
      PROVE  CallsKept /\ DOMAIN stack' = 1 .. n
  <2>1. /\ DOMAIN stack' = 1 .. n /\ stack'[n] = fr
        /\ \A i \in 1 .. n - 1 : stack'[i] = stack[i]
    BY <1>3, ReplaceFacts
  <2>2. \A i \in 1 .. n : i = n \/ i \in 1 .. n - 1
    OBVIOUS
  <2> QED
    BY <1>1, <1>3, <2>1, <2>2 DEF CallsKept
<1>4. ASSUME NEW r \in 0 .. 3, PopWith(r), Top.kind # "root"
      PROVE  CallsKept /\ n >= 2 /\ DOMAIN stack' = 1 .. n - 1
  <2>1. n >= 2
    BY <1>4, ShapePopped
  <2>2. DOMAIN stack' = 1 .. n - 1
    BY <1>4, <2>1, PopFacts
  <2> QED
    BY <1>1, <1>4, <2>1, <2>2, KindsPopped DEF CallsKept, Activation
<1>5. PassStarted => /\ CallsKept /\ DOMAIN stack' = 1 .. n + 1
                     /\ stack'[n + 1].kind \notin Activation
  <2> SUFFICES ASSUME PassStarted
               PROVE  /\ CallsKept /\ DOMAIN stack' = 1 .. n + 1
                      /\ stack'[n + 1].kind \notin Activation
    OBVIOUS
  <2>1. PICK fr \in IntFrames : Push(fr) /\ fr.kind \notin Activation
    BY DEF PassStarted, PassKinds, Activation
  <2> QED
    BY <1>2, <2>1
<1>6. ASSUME NEW f \in Func, StartCall(f)
      PROVE  /\ CallsKept /\ DOMAIN stack' = 1 .. n + 1
             /\ stack'[n + 1].kind = "args" /\ stack'[n + 1].ascended = {}
             /\ stack'[n + 1].func = f /\ stack'[n + 1].row = loc[f] + 1
             /\ \A i \in 1 .. n : stack'[i] = stack[i]
  <2> DEFINE fr == Call(f, loc[f] + 1)
  <2>1. loc[f] + 1 \in Int /\ Push(fr)
    BY <1>6 DEF StartCall
  <2>2. /\ fr \in IntFrames /\ fr.kind = "args" /\ fr.ascended = {}
        /\ fr.func = f /\ fr.row = loc[f] + 1
    BY <1>6, <2>1, CallFacts
  <2> HIDE DEF fr
  <2> QED
    BY <1>2, <2>1, <2>2
<1>7. ASSUME NEW r \in 0 .. 3, PassEnded(r)
      PROVE  CallsKept /\ n >= 2 /\ DOMAIN stack' = 1 .. n - 1
  BY <1>4, <1>7 DEF PassEnded
<1>8. EndBody => CallsKept /\ n >= 2 /\ DOMAIN stack' = 1 .. n - 1
  BY <1>4 DEF EndBody
<1>9. ASSUME RunStarted \/ Return \/ Break \/ Continue
      PROVE  CallsKept /\ DOMAIN stack' = 1 .. n
  <2>1. \E fr \in IntFrames :
           /\ Replace(fr) /\ fr.kind = Top.kind
           /\ Top.kind # "args"
           /\ Top.kind = "body" => fr.func = Top.func /\ fr.row = Top.row
    <3>1. CASE RunStarted
      BY <3>1 DEF RunStarted, Loops
    <3>2. CASE Return \/ Break \/ Continue
      <4>1. \E r \in 0 .. 3 : Jumped(r)
        BY <3>2, JumpsJump
      <4> QED
        BY <4>1, JumpedFacts
    <3> QED
      BY <1>9, <3>1, <3>2
  <2> QED
    BY <1>3, <2>1 DEF Activation
<1>10. ASSUME EndArgument \/ \E A \in SUBSET Var : StartArgument(A)
       PROVE  CallsKept /\ DOMAIN stack' = 1 .. n
  <2>1. PICK fr \in IntFrames : /\ Replace(fr) /\ Top.kind = "args" /\ fr.kind = "args"
                                /\ fr.func = Top.func /\ fr.row = Top.row
    BY <1>10, ArgumentSteps
  <2> QED
    BY <1>3, <2>1 DEF Activation
<1>11. ASSUME EnterBody PROVE CallsKept /\ DOMAIN stack' = 1 .. n
  BY <1>3, <1>11, EnterFacts DEF Activation
<1> QED
  BY <1>5, <1>6, <1>7, <1>8, <1>9, <1>10, <1>11

\* The activations of a function after a step.
LEMMA ActivationSteps ==
    ASSUME ShapeInv, NEW n \in Nat, n = Len(stack), NEW g \in Func
    PROVE  /\ \/ PassStarted \/ RunStarted \/ Return \/ Break \/ Continue
              \/ EndArgument \/ EnterBody \/ \E A \in SUBSET Var : StartArgument(A)
              \/ \E r \in 0 .. 3 : PassEnded(r)
              => Activations(g)' = Activations(g)
           /\ \A f \in Func : StartCall(f) =>
                 Activations(g)' = IF g = f THEN Activations(g) \cup {n + 1}
                                            ELSE Activations(g)
           /\ EndBody => Activations(g)' = Activations(g) \ {n}
<1>1. DOMAIN stack = 1 .. n /\ Top = stack[n] /\ n \in 1 .. n
  BY StackFacts, TopTyped DEF ShapeInv
<1>2. ASSUME CallsKept, DOMAIN stack' = 1 .. n PROVE Activations(g)' = Activations(g)
  BY <1>1, <1>2 DEF CallsKept, Activation, Activations
<1>3. ASSUME CallsKept, DOMAIN stack' = 1 .. n + 1
      PROVE  /\ stack'[n + 1].kind \notin Activation => Activations(g)' = Activations(g)
             /\ stack'[n + 1].kind = "args" =>
                   Activations(g)' = IF g = stack'[n + 1].func
                                     THEN Activations(g) \cup {n + 1} ELSE Activations(g)
  <2>1. 1 .. n + 1 = (1 .. n) \cup {n + 1}
    OBVIOUS
  <2> QED
    BY <1>1, <1>3, <2>1 DEF CallsKept, Activation, Activations
<1>4. ASSUME CallsKept, n >= 2, DOMAIN stack' = 1 .. n - 1
      PROVE  Activations(g)' = Activations(g) \ {n}
  BY <1>1, <1>4 DEF CallsKept, Activation, Activations
<1>5. ASSUME NEW r \in 0 .. 3, PassEnded(r) PROVE Activations(g)' = Activations(g)
  <2>1. n \notin Activations(g)
    BY <1>1, <1>5 DEF Activations, PassEnded, PassKinds
  <2> QED
    BY <1>4, <1>5, <2>1, KeptSteps
<1>6. PassStarted => Activations(g)' = Activations(g)
  BY <1>3, KeptSteps
<1>7. ASSUME NEW f \in Func, StartCall(f)
      PROVE  Activations(g)' = IF g = f THEN Activations(g) \cup {n + 1} ELSE Activations(g)
  BY <1>3, <1>7, KeptSteps
<1>8. EndBody => Activations(g)' = Activations(g) \ {n}
  BY <1>4, KeptSteps
<1> QED
  BY <1>2, <1>5, <1>6, <1>7, <1>8, KeptSteps

\* They are some of the frames above the root.
LEMMA ActivationsFinite ==
    ASSUME ShapeInv, NEW g
    PROVE  /\ Activations(g) \in SUBSET (2 .. Len(stack))
           /\ IsFiniteSet(Activations(g))
           /\ Cardinality(Activations(g)) \in 0 .. Len(stack) - 1
           /\ Activations(g) # {} => Cardinality(Activations(g)) >= 1
<1>1. PICK n \in Nat : n = Len(stack) /\ n >= 1
  BY StackFacts DEF ShapeInv
<1>2. Activations(g) \in SUBSET (2 .. n)
  <2>1. DOMAIN stack = 1 .. n /\ stack[1].kind = "root"
    BY <1>1, StackFacts DEF ShapeInv, Shape
  <2> SUFFICES ASSUME NEW i \in Activations(g) PROVE i \in 2 .. n
    OBVIOUS
  <2>2. i \in 1 .. n /\ i # 1
    BY <2>1 DEF Activations
  <2> QED
    BY <2>2
<1>3. IsFiniteSet(2 .. n) /\ Cardinality(2 .. n) = n - 1
  <2>1. 2 \in Int /\ n \in Int /\ (2 > n => n = 1)
    BY <1>1
  <2>2. IsFiniteSet(2 .. n) /\ Cardinality(2 .. n) = IF 2 > n THEN 0 ELSE n - 2 + 1
    BY <2>1, FS_Interval
  <2> QED
    BY <1>1, <2>1, <2>2
<1>4. /\ IsFiniteSet(Activations(g))
      /\ Cardinality(Activations(g)) \in Nat
      /\ Cardinality(Activations(g)) <= n - 1
  BY <1>2, <1>3, FS_Subset, FS_CardinalityType
<1>5. Activations(g) # {} => Cardinality(Activations(g)) # 0
  BY <1>4, FS_EmptySet
<1> QED
  BY <1>1, <1>2, <1>4, <1>5

\* A return is handed on by all but scopes, so it stays within frames of the
\* kinds in which it was made.
LEMMA ReturnSteps ==
    ASSUME ShapeInv, NEW K, ReturnInBody(K), "scope" \in K, [Next]_vars,
           Return /\ CurrentBody > 0 => ~Within(K)
    PROVE  ReturnInBody(K)'
<1>1. StackOK /\ StackOK' /\ ShapeInv'
  BY ShapeSteps DEF ShapeInv
<1>2. PICK n \in Nat : n = Len(stack)
  BY <1>1, StackFacts
<1>3. CASE UNCHANGED vars
  BY <1>3 DEF vars, ReturnInBody, Leaving, Within, CurrentBody, Innermost, Top
<1>4. ASSUME Top'.kind # "args" => Top'.state # 1 PROVE ReturnInBody(K)'
  BY <1>4 DEF ReturnInBody, Leaving
<1>5. ASSUME NEW r \in 0 .. 3, PassEnded(r) PROVE ReturnInBody(K)'
  <2>1. PopWith(r) /\ Top.kind \notin {"args", "body", "root"} /\ r \in {0, Top.state}
    BY <1>5 DEF PassEnded, PassKinds
  <2>2. n >= 2
    BY <1>1, <1>2, <2>1, ShapePopped DEF ShapeInv
  <2>3. Top' = Told(stack[n - 1], r) /\ stack[n - 1] \in IntFrames
    <3>1. n - 1 \in 1 .. n
      BY <2>2
    <3> QED
      BY <1>1, <1>2, <2>1, <2>2, <3>1, PopFacts
  <2>4. Top'.kind # "args" => Top'.state = r
    BY <2>3, ToldFacts
  <2>5. CASE r # 1
    BY <1>4, <2>4, <2>5
  <2>6. CASE r = 1
    <3>1. CurrentBody > 0 => ~Within(K)
      BY <2>1, <2>6 DEF ReturnInBody, Leaving
    <3>2. InnermostOf(stack', {"body"}) = InnermostOf(stack, {"body"})
      BY <1>1, <1>2, <2>1, <2>2, InnermostPopped
    <3>3. InnermostOf(stack', K) <= InnermostOf(stack, K)
      <4> DEFINE k == InnermostOf(stack', K)
                 m == InnermostOf(stack, K)
      <4>1. k \in 0 .. Len(stack') /\ (k > 0 => stack'[k].kind \in K)
        BY <1>1, InnermostFacts DEF StackOK
      <4>2. m \in 0 .. n /\ \A j \in m + 1 .. n : stack[j].kind \notin K
        BY <1>1, <1>2, InnermostFacts DEF StackOK
      <4> HIDE DEF k, m
      <4>3. Len(stack') = n - 1
        BY <1>1, <1>2, <2>1, <2>2, PopFacts
      <4>4. k > 0 => k \in 1 .. n - 1 /\ k \in 1 .. n
        BY <4>1, <4>3
      <4>5. k > 0 => stack[k].kind \in K
        BY <1>1, <1>2, <2>1, <2>2, <4>1, <4>4, KindsPopped
      <4>6. k <= m
        BY <4>1, <4>2, <4>4, <4>5
      <4> QED
        BY <4>6 DEF k, m
    <3>4. InnermostOf(stack', K) \in Int /\ InnermostOf(stack, K) \in Int
          /\ InnermostOf(stack, {"body"}) \in Int
      BY <1>1, InnermostFacts DEF StackOK
    <3> QED
      BY <3>1, <3>2, <3>3, <3>4 DEF ReturnInBody, Within, CurrentBody, Innermost
  <2> QED
    BY <2>5, <2>6
<1>6. ASSUME NEW r \in 1 .. 3, Jumped(r), r = 1 => Return PROVE ReturnInBody(K)'
  <2>1. PICK fr \in IntFrames : Replace(fr) /\ fr.kind = Top.kind /\ fr.state = r
    BY <1>1, <1>6, JumpedFacts
  <2>2. Top' = fr
    BY <1>1, <2>1, ReplaceFacts
  <2>3. CASE r # 1
    BY <1>4, <2>1, <2>2, <2>3
  <2>4. CASE r = 1
    <3>1. CurrentBody > 0 => ~Within(K)
      BY <1>6, <2>4
    <3>2. /\ InnermostOf(stack', K) = InnermostOf(stack, K)
          /\ InnermostOf(stack', {"body"}) = InnermostOf(stack, {"body"})
      BY <1>1, <2>1, InnermostReplaced
    <3> QED
      BY <3>1, <3>2 DEF ReturnInBody, Within, CurrentBody, Innermost
  <2> QED
    BY <2>3, <2>4
<1>7. Return \/ Break \/ Continue => \E r \in 1 .. 3 : Jumped(r) /\ (r = 1 => Return)
  BY JumpsJump
<1> QED
  BY <1>1, <1>3, <1>4, <1>5, <1>6, <1>7, StepKinds, QuietSteps

\* In which kinds of frames the hypotheses let a function return.
LEMMA ReturnsGuarded ==
    ASSUME ReturnsReachBody, StackOK
    PROVE  Return /\ CurrentBody > 0 => ~Within({"scope", "iter"})
BY WithinIff DEF Return, ReturnsReachBody

\* The innermost activation is one of its function.
LEMMA CurrentActivation ==
    ASSUME ShapeInv, CurrentBody > 0
    PROVE  /\ CurrentBody \in 1 .. Len(stack)
           /\ stack[CurrentBody] \in IntFrames
           /\ stack[CurrentBody].kind = "body"
           /\ stack[CurrentBody].func \in Func
           /\ CurrentBody \in Activations(stack[CurrentBody].func)
<1>1. CurrentBody \in 1 .. Len(stack) /\ stack[CurrentBody].kind = "body"
  BY StackFacts, WithinIff DEF ShapeInv
<1>2. stack[CurrentBody] \in IntFrames /\ DOMAIN stack = 1 .. Len(stack)
  BY <1>1, StackFacts DEF ShapeInv
<1>3. stack[CurrentBody].func \in Func
  BY <1>1, <1>2, FrameFacts
<1> QED
  BY <1>1, <1>2, <1>3 DEF Activations

CallsInv == ShapeInv /\ JumpsStayInFunction /\ JumpHasExit /\ FramesMatch
            /\ ReturnInBody({"scope", "iter"}) /\ RowsByRank

\* A function that is in progress is at least one row down, and none is lower
\* than there are frames.
LEMMA LocBounds ==
    ASSUME ShapeInv, FramesMatch, NEW f \in Func
    PROVE  /\ loc[f] \in 0 .. Len(stack) - 1
           /\ ~Unwinding(f) => loc[f] = Cardinality(Activations(f))
           /\ ~Unwinding(f) /\ Activations(f) # {} => loc[f] >= 1
<1>1. loc[f] = Cardinality(Activations(f)) - (IF Unwinding(f) THEN 1 ELSE 0)
  BY DEF FramesMatch
<1>2. Cardinality(Activations(f)) \in 0 .. Len(stack) - 1 /\ Len(stack) \in Nat
  BY ActivationsFinite, StackFacts DEF ShapeInv
<1>3. Activations(f) # {} => Cardinality(Activations(f)) >= 1
  BY ActivationsFinite
<1>4. Unwinding(f) => Activations(f) # {}
  BY CurrentActivation DEF Unwinding
<1>5. CASE Unwinding(f)
  BY <1>1, <1>2, <1>3, <1>4, <1>5
<1>6. CASE ~Unwinding(f)
  BY <1>1, <1>2, <1>3, <1>6
<1> QED
  BY <1>5, <1>6

\* Ending a block does not change what is being unwound.
LEMMA UnwindingPopped ==
    ASSUME ShapeInv, ReturnInBody({"scope", "iter"}), NEW r \in 0 .. 3, PassEnded(r),
           NEW f \in Func
    PROVE  Unwinding(f)' <=> Unwinding(f)
<1>1. PICK n \in Nat : n = Len(stack)
  BY StackFacts DEF ShapeInv
<1>2. /\ PopWith(r) /\ Top.kind \notin {"args", "body", "root"}
      /\ r \in {0, Top.state}
      /\ r # 1 /\ Top.state = 1 => Top.kind = "scope"
  BY DEF PassEnded, PassKinds
<1>3. n >= 2
  BY <1>1, <1>2, ShapePopped DEF ShapeInv
<1>4. Top' = Told(stack[n - 1], r) /\ stack[n - 1] \in IntFrames /\ Top = stack[n]
  <2>1. n - 1 \in 1 .. n
    BY <1>3
  <2> QED
    BY <1>1, <1>2, <1>3, <2>1, PopFacts DEF ShapeInv
<1>5. stack[n - 1].kind # "args"
  BY <1>1, <1>2, <1>3, PassBelow
<1>6. Top'.kind # "args" /\ Top'.state = r
  BY <1>4, <1>5, ToldFacts
<1>7. CurrentBody' = CurrentBody
  BY <1>1, <1>2, <1>3, InnermostPopped DEF ShapeInv, CurrentBody, Innermost
<1>8. CurrentBody > 0 => CurrentBody \in 1 .. n /\ CurrentBody # n
  BY <1>1, <1>2, <1>4, CurrentActivation
<1>9. CurrentBody > 0 => stack'[CurrentBody].func = stack[CurrentBody].func
  <2>1. CurrentBody > 0 => CurrentBody \in 1 .. n - 1
    BY <1>8
  <2> QED
    BY <1>1, <1>2, <1>3, <2>1, KindsPopped, CurrentActivation DEF ShapeInv
<1>10. CASE Top.state = r
  BY <1>2, <1>6, <1>7, <1>9, <1>10 DEF Unwinding
<1>11. CASE Top.state # r
  <2>1. r = 0 /\ ~Unwinding(f)'
    BY <1>2, <1>6, <1>11 DEF Unwinding
  <2>2. CASE Top.state # 1
    BY <2>1, <2>2 DEF Unwinding
  <2>3. CASE Top.state = 1
    <3>1. Top.kind = "scope"
      BY <1>2, <2>1, <2>3
    <3>2. CurrentBody > 0 => Within({"scope", "iter"})
      <4>1. CurrentBody > 0 => n \in CurrentBody + 1 .. Len(stack)
        BY <1>1, <1>8
      <4> QED
        BY <1>4, <3>1, <4>1, WithinIff DEF ShapeInv
    <3>3. ~(CurrentBody > 0)
      BY <1>2, <2>3, <3>2 DEF ReturnInBody, Leaving
    <3> QED
      BY <2>1, <3>3 DEF Unwinding
  <2> QED
    BY <2>2, <2>3
<1> QED
  BY <1>10, <1>11

\* Whichever way a function ends it ascends once: by its end, unless a return has
\* done so.
LEMMA FramesSteps ==
    ASSUME ReturnsReachBody, CallsInv, Next
    PROVE  FramesMatch'
<1> USE DEF CallsInv
<1>1. StackOK /\ loc \in [Func -> Int] /\ JumpsInv
  BY DEF ShapeInv, JumpsInv
<1>2. PICK n \in Nat : n = Len(stack)
  BY <1>1, StackFacts
<1>3. DOMAIN stack = 1 .. n /\ n \in 1 .. n /\ Top = stack[n] /\ Top \in IntFrames
  BY <1>1, <1>2, StackFacts, TopTyped
<1> SUFFICES ASSUME NEW g \in Func
             PROVE  loc'[g] = Cardinality(Activations(g)')
                                - (IF Unwinding(g)' THEN 1 ELSE 0)
  BY DEF FramesMatch
<1>4. loc[g] = Cardinality(Activations(g)) - (IF Unwinding(g) THEN 1 ELSE 0)
  BY DEF FramesMatch
<1>5. IsFiniteSet(Activations(g)) /\ Cardinality(Activations(g)) \in Nat
      /\ n + 1 \notin Activations(g)
  BY <1>2, ActivationsFinite
<1>6. Top.kind = "args" \/ Top.state # 1 => ~Unwinding(g)
  BY DEF Unwinding
<1>7. Top'.kind = "args" \/ Top'.state # 1 => ~Unwinding(g)'
  BY DEF Unwinding
<1>8. CASE PassStarted
  <2>1. ~Unwinding(g) /\ ~Unwinding(g)'
    BY <1>6, <1>7, <1>8, QuietSteps DEF PassStarted, Running
  <2>2. loc' = loc /\ Activations(g)' = Activations(g)
    BY <1>2, <1>8, ActivationSteps DEF PassStarted, RowsUnchanged
  <2> QED
    BY <1>4, <2>1, <2>2
<1>9. ASSUME NEW r \in 0 .. 3, PassEnded(r)
      PROVE  loc'[g] = Cardinality(Activations(g)') - (IF Unwinding(g)' THEN 1 ELSE 0)
  <2>1. loc' = loc /\ Activations(g)' = Activations(g)
    BY <1>2, <1>9, ActivationSteps DEF PassEnded, RowsUnchanged
  <2>2. Unwinding(g)' <=> Unwinding(g)
    BY <1>9, UnwindingPopped
  <2> QED
    BY <1>4, <2>1, <2>2
<1>10. CASE RunStarted
  <2>1. Top.state # 1 \/ CurrentBody = 0
    <3>1. CASE Top.kind # "root"
      BY <1>10, <3>1 DEF RunStarted
    <3>2. CASE Top.kind = "root"
      <4>1. n = 1
        BY <1>2, <1>3, <3>2 DEF ShapeInv, Shape
      <4>2. CurrentBody > 0 => stack[1].kind = "body"
        BY <1>2, <4>1, CurrentActivation
      <4>3. CurrentBody \in 0 .. n
        BY <1>1, <1>2, WithinIff
      <4> QED
        BY <1>3, <3>2, <4>1, <4>2, <4>3
    <3> QED
      BY <3>1, <3>2
  <2>2. ~Unwinding(g) /\ ~Unwinding(g)'
    BY <1>7, <1>10, <2>1, QuietSteps DEF Unwinding
  <2>3. loc' = loc /\ Activations(g)' = Activations(g)
    BY <1>2, <1>10, ActivationSteps DEF RunStarted, RowsUnchanged
  <2> QED
    BY <1>4, <2>2, <2>3
<1>11. CASE Return
  <2>1. Running /\ ~Unwinding(g)
    BY <1>6, <1>11 DEF Return, Running
  <2>2. Activations(g)' = Activations(g)
    BY <1>2, <1>11, ActivationSteps
  <2>3. PICK fr \in IntFrames : Replace(fr) /\ Top.kind # "args"
                                /\ fr.kind = Top.kind /\ fr.state = 1
    BY <1>1, <1>11, JumpsJump, JumpedFacts
  <2>4. Top' = fr /\ CurrentBody' = CurrentBody
    BY <1>1, <2>3, ReplaceFacts, InnermostReplaced DEF CurrentBody, Innermost
  <2>5. CurrentBody > 0 => stack'[CurrentBody].func = stack[CurrentBody].func
    BY <1>2, <1>3, <1>11, KeptSteps, CurrentActivation DEF CallsKept, Activation
  <2>6. Unwinding(g)' <=> CurrentBody > 0 /\ stack[CurrentBody].func = g
    BY <2>3, <2>4, <2>5 DEF Unwinding
  <2>7. CASE CurrentBody > 0
    <3>1. ~Within({"iter"})
      BY <1>11, <2>7 DEF Return, ReturnsReachBody
    <3>2. Ascend(stack[CurrentBody].func)
      BY <1>11, <2>7, <3>1 DEF Return
    <3>3. loc' = [loc EXCEPT ![stack[CurrentBody].func] = @ - 1]
      BY <3>2 DEF Ascend
    <3>4. loc'[g] = IF stack[CurrentBody].func = g THEN loc[g] - 1 ELSE loc[g]
      BY <1>1, <3>3
    <3> QED
      BY <1>4, <1>5, <2>1, <2>2, <2>6, <2>7, <3>4
  <2>8. CASE ~(CurrentBody > 0)
    BY <1>4, <1>11, <2>1, <2>2, <2>6, <2>8 DEF Return, RowsUnchanged
  <2> QED
    BY <2>7, <2>8
<1>12. CASE Break \/ Continue
  <2>1. ~Unwinding(g)
    BY <1>6, <1>12 DEF Break, Continue, Running
  <2>2. loc' = loc /\ Activations(g)' = Activations(g)
    BY <1>2, <1>12, ActivationSteps DEF Break, Continue, RowsUnchanged
  <2>3. PICK r \in {2, 3} : Jumped(r)
    BY <1>12, JumpsJump
  <2>4. PICK fr \in IntFrames : Replace(fr) /\ fr.state = r
    BY <1>1, <2>3, JumpedFacts
  <2>5. ~Unwinding(g)'
    BY <1>1, <1>7, <2>4, ReplaceFacts
  <2> QED
    BY <1>4, <2>1, <2>2, <2>5
<1>13. ASSUME NEW f \in Func, StartCall(f)
       PROVE  loc'[g] = Cardinality(Activations(g)') - (IF Unwinding(g)' THEN 1 ELSE 0)
  <2>1. ~Unwinding(g) /\ ~Unwinding(g)'
    BY <1>6, <1>7, <1>13, QuietSteps DEF StartCall, Running
  <2>2. loc'[g] = IF g = f THEN loc[g] + 1 ELSE loc[g]
    BY <1>1, <1>13 DEF StartCall, Descend
  <2>3. Activations(g)' = IF g = f THEN Activations(g) \cup {n + 1} ELSE Activations(g)
    BY <1>2, <1>13, ActivationSteps
  <2>4. Cardinality(Activations(g) \cup {n + 1}) = Cardinality(Activations(g)) + 1
    BY <1>5, FS_AddElement
  <2>5. CASE g = f
    BY <1>4, <1>5, <2>1, <2>2, <2>3, <2>4, <2>5
  <2>6. CASE g # f
    BY <1>4, <2>1, <2>2, <2>3, <2>6
  <2> QED
    BY <2>5, <2>6
<1>14. CASE EndArgument \/ EnterBody \/ \E A \in SUBSET Var : StartArgument(A)
  <2>1. ~Unwinding(g) /\ ~Unwinding(g)'
    <3>1. Top.kind = "args"
      BY <1>14 DEF EndArgument, EnterBody, StartArgument
    <3>2. Top'.kind # "args" => Top'.state = 0
      BY <1>14, QuietSteps
    <3> QED
      BY <1>6, <1>7, <3>1, <3>2
  <2>2. loc' = loc /\ Activations(g)' = Activations(g)
    BY <1>2, <1>14, ActivationSteps DEF EndArgument, EnterBody, StartArgument, RowsUnchanged
  <2> QED
    BY <1>4, <2>1, <2>2
<1>15. CASE EndBody
  <2>1. Top.kind = "body" /\ CurrentBody = n
    BY <1>1, <1>2, <1>3, <1>15, InnermostTop
       DEF EndBody, StackOK, CurrentBody, Innermost
  <2>2. ~Unwinding(g)'
    BY <1>7, <1>15, QuietSteps
  <2>3. Top.state \in {0, 1}
    BY <1>3, <2>1 DEF JumpsStayInFunction
  <2>4. Activations(g)' = Activations(g) \ {n}
    BY <1>2, <1>15, ActivationSteps
  <2>5. n \in Activations(g) <=> Top.func = g
    BY <1>3, <2>1 DEF Activations
  <2>6. Cardinality(Activations(g)')
          = IF Top.func = g THEN Cardinality(Activations(g)) - 1
                            ELSE Cardinality(Activations(g))
    <3>1. CASE n \in Activations(g)
      BY <1>5, <2>4, <2>5, <3>1, FS_RemoveElement
    <3>2. CASE n \notin Activations(g)
      BY <2>4, <2>5, <3>2
    <3> QED
      BY <3>1, <3>2
  <2>7. CASE Top.state = 0
    <3>1. loc' = [loc EXCEPT ![Top.func] = @ - 1]
      BY <1>15, <2>7 DEF EndBody, Ascend
    <3>2. loc'[g] = IF Top.func = g THEN loc[g] - 1 ELSE loc[g]
      BY <1>1, <3>1
    <3>3. ~Unwinding(g)
      BY <1>6, <2>7
    <3> QED
      BY <1>4, <1>5, <2>2, <2>6, <3>2, <3>3
  <2>8. CASE Top.state = 1
    <3>1. loc' = loc
      BY <1>15, <2>8 DEF EndBody, RowsUnchanged
    <3>2. Unwinding(g) <=> Top.func = g
      BY <1>2, <1>3, <2>1, <2>8 DEF Unwinding
    <3> QED
      BY <1>4, <1>5, <2>2, <2>6, <3>1, <3>2
  <2> QED
    BY <2>3, <2>7, <2>8
<1> QED
  BY <1>1, <1>8, <1>9, <1>10, <1>11, <1>12, <1>13, <1>14, <1>15, StepKinds

\* Calls and bodies keep their rows, and a new call has the next one.
LEMMA RankSteps ==
    ASSUME CallsInv, Next
    PROVE  RowsByRank'
<1> USE DEF CallsInv
<1>1. PICK n \in Nat : n = Len(stack)
  BY StackFacts DEF ShapeInv
<1>2. DOMAIN stack = 1 .. n
  BY <1>1, StackFacts DEF ShapeInv
<1>3. ASSUME CallsKept, NEW m \in Nat, DOMAIN stack' = 1 .. m,
             NEW f \in Func, NEW i \in Activations(f)', i <= n
      PROVE  stack'[i].row = UpTo(Activations(f)', i)
  <2>1. i \in Activations(f) /\ i \in 1 .. m /\ stack'[i].row = stack[i].row
    <3>1. i \in 1 .. m /\ i \in 1 .. n
      BY <1>3 DEF Activations
    <3> QED
      BY <1>2, <1>3, <3>1 DEF CallsKept, Activation, Activations
  <2>2. {j \in Activations(f)' : j <= i} = {j \in Activations(f) : j <= i}
    <3>1. \A j \in 1 .. m : j <= i => j \in 1 .. n
      BY <1>3, <2>1
    <3>2. \A j \in 1 .. n : j <= i => j \in 1 .. m
      BY <2>1
    <3> QED
      BY <1>2, <1>3, <3>1, <3>2 DEF CallsKept, Activation, Activations
  <2>3. stack[i].row = UpTo(Activations(f), i)
    BY <1>3, <2>1 DEF RowsByRank
  <2> QED
    BY <2>1, <2>2, <2>3 DEF UpTo
<1>4. ASSUME CallsKept, NEW m \in Nat, DOMAIN stack' = 1 .. m, m <= n
      PROVE  RowsByRank'
  <2>1. \A f \in Func : \A i \in Activations(f)' : i \in 1 .. m
    BY <1>4 DEF Activations
  <2>2. \A i \in 1 .. m : i <= n
    BY <1>4
  <2> QED
    BY <1>3, <1>4, <2>1, <2>2 DEF RowsByRank
<1>5. ASSUME CallsKept, DOMAIN stack' = 1 .. n + 1,
             \A f \in Func : n + 1 \in Activations(f)' =>
                stack'[n + 1].row = UpTo(Activations(f)', n + 1)
      PROVE  RowsByRank'
  <2>1. \A f \in Func : \A i \in Activations(f)' : i \in 1 .. n + 1
    BY <1>5 DEF Activations
  <2>2. \A i \in 1 .. n + 1 : i <= n \/ i = n + 1
    OBVIOUS
  <2>3. n + 1 \in Nat
    OBVIOUS
  <2> QED
    BY <1>3, <1>5, <2>1, <2>2, <2>3 DEF RowsByRank
<1>6. ASSUME NEW f \in Func, StartCall(f) PROVE RowsByRank'
  <2>1. /\ CallsKept /\ DOMAIN stack' = 1 .. n + 1
        /\ stack'[n + 1].func = f /\ stack'[n + 1].row = loc[f] + 1
    BY <1>1, <1>6, KeptSteps
  <2>2. Activations(f)' = Activations(f) \cup {n + 1}
    BY <1>1, <1>6, ActivationSteps
  <2>3. Activations(f) \in SUBSET (1 .. n) /\ IsFiniteSet(Activations(f))
    BY <1>1, ActivationsFinite
  <2>4. {j \in Activations(f)' : j <= n + 1} = Activations(f) \cup {n + 1}
    BY <2>2, <2>3
  <2>5. Cardinality(Activations(f) \cup {n + 1}) = Cardinality(Activations(f)) + 1
    <3>1. n + 1 \notin Activations(f)
      BY <2>3
    <3> QED
      BY <2>3, <3>1, FS_AddElement
  <2>6. ~Unwinding(f)
    BY <1>6 DEF StartCall, Running, Unwinding
  <2>7. loc[f] = Cardinality(Activations(f))
    BY <1>6, <2>6, LocBounds
  <2>8. UpTo(Activations(f)', n + 1) = loc[f] + 1
    BY <2>4, <2>5, <2>7 DEF UpTo
  <2>9. \A g \in Func : n + 1 \in Activations(g)' => g = f
    BY <2>1 DEF Activations
  <2> QED
    BY <1>5, <2>1, <2>8, <2>9
<1>7. CASE PassStarted
  <2>1. /\ CallsKept /\ DOMAIN stack' = 1 .. n + 1
        /\ stack'[n + 1].kind \notin Activation
    BY <1>1, <1>7, KeptSteps
  <2>2. \A g \in Func : n + 1 \notin Activations(g)'
    BY <2>1 DEF Activations, Activation
  <2> QED
    BY <1>5, <2>1, <2>2
<1>8. CASE RunStarted \/ Return \/ Break \/ Continue \/ EndArgument \/ EnterBody
           \/ \E A \in SUBSET Var : StartArgument(A)
  <2>1. CallsKept /\ DOMAIN stack' = 1 .. n
    BY <1>1, <1>8, KeptSteps
  <2> QED
    BY <1>4, <2>1
<1>9. CASE EndBody \/ \E r \in 0 .. 3 : PassEnded(r)
  <2>1. CallsKept /\ n >= 2 /\ DOMAIN stack' = 1 .. n - 1
    BY <1>1, <1>9, KeptSteps
  <2>2. n - 1 \in Nat /\ n - 1 <= n
    BY <2>1
  <2> QED
    BY <1>4, <2>1, <2>2
<1> QED
  BY <1>6, <1>7, <1>8, <1>9, StepKinds DEF ShapeInv

\* Together these are inductive.
LEMMA CallsSteps ==
    ASSUME ReturnsReachBody, CallsInv, [Next]_vars
    PROVE  CallsInv'
<1>1. JumpsInv /\ StackOK /\ ReturnInBody({"scope", "iter"})
  BY DEF CallsInv, JumpsInv, ShapeInv
<1>2. ShapeInv' /\ JumpsStayInFunction' /\ JumpHasExit'
  BY <1>1, JumpsSteps DEF JumpsInv
<1>3. ReturnInBody({"scope", "iter"})'
  BY <1>1, ReturnSteps, ReturnsGuarded DEF JumpsInv
<1>4. CASE Next
  BY <1>2, <1>3, <1>4, FramesSteps, RankSteps DEF CallsInv
<1>5. CASE UNCHANGED vars
  <2>1. stack' = stack /\ loc' = loc
    BY <1>5 DEF vars
  <2>2. FramesMatch'
    BY <2>1 DEF CallsInv, FramesMatch, Activations, Unwinding, CurrentBody, Innermost, Top
  <2>3. RowsByRank'
    BY <2>1 DEF CallsInv, RowsByRank, Activations
  <2> QED
    BY <1>2, <1>3, <2>2, <2>3 DEF CallsInv
<1> QED
  BY <1>4, <1>5

\* At the start nothing is called.
LEMMA CallsInit == Init => CallsInv /\ ReturnInBody({"scope", "iter", "for"})
<1> SUFFICES ASSUME Init PROVE CallsInv /\ ReturnInBody({"scope", "iter", "for"})
  OBVIOUS
<1>1. /\ ShapeInv /\ Len(stack) = 1 /\ stack[1].kind = "root" /\ stack[1].state = 0
      /\ DOMAIN stack = 1 .. 1 /\ Top = stack[1]
  BY ShapeInit, StackFacts, TopTyped DEF ShapeInv
<1>2. \A f \in Func : Activations(f) = {} /\ ~Unwinding(f) /\ loc[f] = 0
  BY <1>1 DEF Activations, Unwinding, Init
<1>3. FramesMatch
  BY <1>2, FS_EmptySet DEF FramesMatch
<1>4. RowsByRank
  BY <1>2 DEF RowsByRank
<1>5. JumpsStayInFunction
  BY <1>1 DEF JumpsStayInFunction
<1>6. \A S : ~(0 \in S) => ~Leaving(S)
  BY <1>1 DEF Leaving
<1>7. JumpHasExit /\ \A K : ReturnInBody(K)
  BY <1>6 DEF JumpHasExit, ReturnInBody
<1> QED
  BY <1>1, <1>3, <1>4, <1>5, <1>7 DEF CallsInv

\* Every descent is ascended once, in programs that return neither from a scope
\* nor from the body of an iter.
THEOREM CallsMatch ==
    ASSUME ReturnsReachBody
    PROVE  Spec => []FramesMatch
<1>1. Init => CallsInv
  BY CallsInit
<1>2. CallsInv /\ [Next]_vars => CallsInv'
  BY CallsSteps
<1>3. CallsInv => FramesMatch
  BY DEF CallsInv
<1> QED
  BY <1>1, <1>2, <1>3, PTL DEF Spec

-----------------------------------------------------------------------------
(* Types. *)

\* A variable moves with its function, which has a row to ascend from and never
\* as many as there are row numbers, or with an argument.
LEMMA RowSteps ==
    ASSUME ReturnsReachBody, CallsInv, Next
    PROVE  \/ RowsUnchanged
           \/ \E f \in Func : Descend(f) /\ loc[f] + 1 \in 0 .. RowMod - 1
           \/ \E f \in Func : Ascend(f) /\ loc[f] - 1 \in 0 .. RowMod - 1
           \/ /\ \E A \in SUBSET Var, d \in {-1, 1} : Move(A, d)
              /\ UNCHANGED <<loc, rows>>
<1> USE DEF CallsInv
<1>1. PICK n \in Nat : n = Len(stack) /\ n <= MaxFrames
  BY StackFacts DEF ShapeInv, Shape
<1>2. MaxFrames \in Nat /\ RowMod \in Nat /\ RowMod > MaxFrames
  BY BoundsAssumption
<1>3. \A f \in Func : loc[f] \in 0 .. n - 1
  BY <1>1, LocBounds
<1>4. Top = stack[n] /\ Top \in IntFrames
  BY <1>1, TopTyped DEF ShapeInv
<1>5. ASSUME NEW f \in Func, StartCall(f)
      PROVE  Descend(f) /\ loc[f] + 1 \in 0 .. RowMod - 1
  BY <1>1, <1>2, <1>3, <1>5 DEF StartCall
<1>6. ASSUME NEW f \in Func, Ascend(f), ~Unwinding(f), Activations(f) # {}
      PROVE  Ascend(f) /\ loc[f] - 1 \in 0 .. RowMod - 1
  <2>1. loc[f] >= 1
    BY <1>6, LocBounds
  <2> QED
    BY <1>1, <1>2, <1>3, <1>6, <2>1
<1>7. ASSUME EndBody
      PROVE  RowsUnchanged \/ \E f \in Func : Ascend(f) /\ loc[f] - 1 \in 0 .. RowMod - 1
  <2>1. CASE Top.state = 0
    <3>1. Top.kind = "body" /\ Ascend(Top.func)
      BY <1>7, <2>1 DEF EndBody
    <3>2. Top.func \in Func
      BY <1>4, <3>1, FrameFacts
    <3>3. ~Unwinding(Top.func)
      BY <2>1 DEF Unwinding
    <3>4. n \in Activations(Top.func)
      <4>1. DOMAIN stack = 1 .. n /\ n \in 1 .. n
        BY <1>1, StackFacts DEF ShapeInv
      <4> QED
        BY <1>4, <3>1, <4>1 DEF Activations
    <3> QED
      BY <1>6, <3>1, <3>2, <3>3, <3>4
  <2>2. CASE Top.state # 0
    BY <1>7, <2>2 DEF EndBody
  <2> QED
    BY <2>1, <2>2
<1>8. ASSUME Return
      PROVE  RowsUnchanged \/ \E f \in Func : Ascend(f) /\ loc[f] - 1 \in 0 .. RowMod - 1
  <2>1. CASE CurrentBody > 0
    <3>1. Ascend(stack[CurrentBody].func)
      BY <1>8, <2>1 DEF Return, ReturnsReachBody
    <3>2. stack[CurrentBody].func \in Func /\ Activations(stack[CurrentBody].func) # {}
      BY <2>1, CurrentActivation
    <3>3. ~Unwinding(stack[CurrentBody].func)
      BY <1>8 DEF Return, Running, Unwinding
    <3> QED
      BY <1>6, <3>1, <3>2, <3>3
  <2>2. CASE ~(CurrentBody > 0)
    BY <1>8, <2>2 DEF Return
  <2> QED
    BY <2>1, <2>2
<1>9. ASSUME EndArgument
      PROVE  (\E A \in SUBSET Var, d \in {-1, 1} : Move(A, d)) /\ UNCHANGED <<loc, rows>>
  <2>1. Top.kind = "args" /\ Move(Top.ascended, 1) /\ UNCHANGED <<loc, rows>>
    BY <1>9 DEF EndArgument
  <2>2. Top.ascended \in SUBSET Var
    BY <1>4, <2>1, FrameFacts
  <2> QED
    BY <2>1, <2>2
<1>10. ASSUME NEW A \in SUBSET Var, StartArgument(A)
       PROVE  Move(A, -1) /\ UNCHANGED <<loc, rows>>
  BY <1>10 DEF StartArgument
<1>11. PassStarted \/ RunStarted \/ Break \/ Continue \/ EnterBody
         \/ (\E r \in 0 .. 3 : PassEnded(r)) => RowsUnchanged
  BY DEF PassStarted, RunStarted, Break, Continue, EnterBody, PassEnded
<1>12. ASSUME \E A \in SUBSET Var : StartArgument(A)
       PROVE  (\E A \in SUBSET Var, d \in {-1, 1} : Move(A, d)) /\ UNCHANGED <<loc, rows>>
  BY <1>10, <1>12
<1> QED
  BY <1>5, <1>7, <1>8, <1>9, <1>11, <1>12, StepKinds DEF ShapeInv

\* The rows of the calls are natural numbers.
LEMMA FramesTyped ==
    ASSUME ShapeInv, RowsByRank
    PROVE  stack \in Seq(Frames)
<1>1. PICK n \in Nat : /\ n = Len(stack) /\ DOMAIN stack = 1 .. n
                       /\ \A i \in 1 .. n : stack[i] \in IntFrames
  BY StackFacts DEF ShapeInv
<1>2. ASSUME NEW i \in 1 .. n, stack[i].kind \in Activation
      PROVE  stack[i].row \in Nat
  <2>1. stack[i].func \in Func
    BY <1>1, <1>2, FrameFacts DEF Activation
  <2> DEFINE S == Activations(stack[i].func)
             T == {j \in S : j <= i}
  <2>2. i \in S
    BY <1>1, <1>2 DEF Activations, Activation
  <2>3. IsFiniteSet(S)
    BY ActivationsFinite
  <2>4. Cardinality(T) \in Nat
    BY <2>3, FS_Subset, FS_CardinalityType
  <2>5. stack[i].row = UpTo(S, i)
    BY <2>1, <2>2 DEF RowsByRank
  <2> QED
    BY <2>4, <2>5 DEF UpTo
<1>3. \A fr \in IntFrames : (fr.kind \in Activation => fr.row \in Nat) => fr \in Frames
  BY DEF IntFrames, Frames, Activation
<1>4. \A i \in 1 .. n : stack[i] \in Frames
  BY <1>1, <1>2, <1>3
<1>5. stack \in Seq(IntFrames)
  BY DEF ShapeInv, StackOK
<1> QED
  BY <1>1, <1>4, <1>5

TypesInv ==
    /\ CallsInv
    /\ sidx \in [Var -> 0 .. RowMod - 1]
    /\ rows \in [Var -> Nat]

\* Row numbers stay in their range.
LEMMA TypesSteps ==
    ASSUME ReturnsReachBody, TypesInv, [Next]_vars
    PROVE  TypesInv'
<1> USE DEF TypesInv
<1>1. CallsInv'
  BY CallsSteps
<1>2. RowMod \in Nat /\ RowMod > 0
  BY BoundsAssumption
<1>3. CASE UNCHANGED vars
  BY <1>1, <1>3 DEF vars
<1>4. CASE RowsUnchanged
  BY <1>1, <1>4 DEF RowsUnchanged
<1>5. ASSUME NEW f \in Func, Descend(f), loc[f] + 1 \in 0 .. RowMod - 1 PROVE TypesInv'
  BY <1>1, <1>5 DEF Descend
<1>6. ASSUME NEW f \in Func, Ascend(f), loc[f] - 1 \in 0 .. RowMod - 1 PROVE TypesInv'
  BY <1>1, <1>6 DEF Ascend
<1>7. ASSUME NEW A \in SUBSET Var, NEW d \in {-1, 1}, Move(A, d), UNCHANGED <<loc, rows>>
      PROVE  TypesInv'
  <2>1. \A v \in Var : (sidx[v] + d) % RowMod \in 0 .. RowMod - 1
    <3>1. \A x \in Int : x % RowMod \in 0 .. RowMod - 1
      BY <1>2
    <3>2. \A v \in Var : sidx[v] + d \in Int
      OBVIOUS
    <3> QED
      BY <3>1, <3>2
  <2> QED
    BY <1>1, <1>7, <2>1 DEF Move
<1> QED
  BY <1>3, <1>4, <1>5, <1>6, <1>7, RowSteps

\* At the start every column has its first row.
LEMMA TypesInit == Init => TypesInv
<1> SUFFICES ASSUME Init PROVE TypesInv
  OBVIOUS
<1>1. 0 \in 0 .. RowMod - 1
  BY BoundsAssumption
<1> QED
  BY <1>1, CallsInit DEF TypesInv, Init

\* They give the types.
LEMMA TypesTypeOK == TypesInv => TypeOK
<1> SUFFICES ASSUME TypesInv PROVE TypeOK
  OBVIOUS
<1>1. ShapeInv /\ FramesMatch /\ RowsByRank /\ loc \in [Func -> Int]
  BY DEF TypesInv, CallsInv, ShapeInv
<1>2. \A f \in Func : loc[f] \in Nat
  BY <1>1, LocBounds
<1>3. stack \in Seq(Frames) /\ stack # <<>>
  BY <1>1, FramesTyped DEF ShapeInv, StackOK
<1> QED
  BY <1>1, <1>2, <1>3 DEF TypesInv, TypeOK

\* The depth of a function stays a natural number and no row number wraps, in
\* programs that return neither from a scope nor from the body of an iter: those
\* returns are followed by an ascent of their own.
THEOREM TypeCorrect ==
    ASSUME ReturnsReachBody
    PROVE  Spec => []TypeOK
<1>1. Init => TypesInv
  BY TypesInit
<1>2. TypesInv /\ [Next]_vars => TypesInv'
  BY TypesSteps
<1>3. TypesInv => TypeOK
  BY TypesTypeOK
<1> QED
  BY <1>1, <1>2, <1>3, PTL DEF Spec

-----------------------------------------------------------------------------
(* The rows that are read. *)

\* In code that is being executed every call is below a body.
LEMMA BodyAbove ==
    ASSUME ShapeInv, Top.kind # "args",
           NEW i \in 1 .. Len(stack), stack[i].kind = "args"
    PROVE  CurrentBody > i
<1>1. PICK n \in Nat : n = Len(stack)
  BY StackFacts DEF ShapeInv
<1>2. /\ CurrentBody \in 0 .. n
      /\ \A j \in CurrentBody + 1 .. n : stack[j].kind # "body"
  BY <1>1, WithinIff DEF ShapeInv
<1>3. Top = stack[n]
  BY <1>1, TopTyped DEF ShapeInv
<1> DEFINE P == {k \in i .. n : stack[k].kind # "args"}
<1>4. P \in SUBSET Nat /\ n \in P
  BY <1>1, <1>3
<1>5. PICK k \in P : \A j \in P : k <= j
  BY <1>4, LeastMember
<1>6. k \in i + 1 .. n /\ stack[k].kind # "args"
  BY <1>5
<1>7. stack[k - 1].kind = "args"
  BY <1>5, <1>6
<1>8. stack[k].kind \in {"args", "body"}
  <2>1. k - 1 \in 1 .. n - 1 /\ (k - 1) + 1 = k
    BY <1>6
  <2> QED
    BY <1>1, <1>7, <2>1 DEF ShapeInv, Shape
<1>9. ~(k \in CurrentBody + 1 .. n)
  BY <1>2, <1>6, <1>8
<1> QED
  BY <1>2, <1>6, <1>9

\* A variable that is raised belongs to the function of a call, and no call of
\* that function is inside.
LEMMA RaisedFacts ==
    ASSUME ShapeInv, AscendedCalls, NEW v \in Raised
    PROVE  \E i \in Ascended :
              /\ i \in 1 .. Len(stack) /\ stack[i].kind = "args"
              /\ v \in stack[i].ascended
              /\ stack[i].evaluating
              /\ v \in VarsOf(stack[i].func)
              /\ \A j \in 1 .. Len(stack) : j > i /\ stack[j].kind \in Activation
                                              => stack[j].func # stack[i].func
<1>1. PICK i \in Ascended : v \in stack[i].ascended
  BY DEF Raised
<1>2. MentionsOwn(i)
  BY DEF AscendedCalls
<1>3. i \in 1 .. Len(stack) /\ stack[i].kind = "args" /\ DOMAIN stack = 1 .. Len(stack)
  BY StackFacts DEF ShapeInv, Ascended
<1> QED
  BY <1>1, <1>2, <1>3 DEF MentionsOwn, Activation

\* So code that is being executed finds none of its variables raised.
LEMMA NotRaised ==
    ASSUME ShapeInv, AscendedCalls, Top.kind # "args", CurrentBody > 0,
           NEW v \in VarsOf(stack[CurrentBody].func)
    PROVE  v \notin Raised
<1> SUFFICES ASSUME v \in Raised PROVE FALSE
  OBVIOUS
<1>1. PICK i \in Ascended :
          /\ i \in 1 .. Len(stack) /\ stack[i].kind = "args"
          /\ v \in VarsOf(stack[i].func)
          /\ \A j \in 1 .. Len(stack) : j > i /\ stack[j].kind \in Activation
                                          => stack[j].func # stack[i].func
  BY RaisedFacts
<1>2. CurrentBody > i
  BY <1>1, BodyAbove
<1>3. CurrentBody \in 1 .. Len(stack) /\ stack[CurrentBody].kind \in Activation
  BY CurrentActivation DEF Activation
<1>4. stack[i].func = stack[CurrentBody].func
  BY <1>1 DEF VarsOf
<1> QED
  BY <1>1, <1>2, <1>3, <1>4

\* Nor does a call whose argument is evaluated, except those the argument mentions.
LEMMA RaisedInArgument ==
    ASSUME ShapeInv, AscendedCalls, Top.kind = "args", NEW v \in VarsOf(Top.func)
    PROVE  v \in Raised <=> v \in Top.ascended
<1>1. PICK n \in Nat : n = Len(stack) /\ n \in 1 .. n /\ DOMAIN stack = 1 .. n /\ Top = stack[n]
  BY StackFacts, TopTyped DEF ShapeInv
<1>2. ASSUME v \in Raised PROVE v \in Top.ascended
  <2>1. PICK i \in Ascended :
            /\ i \in 1 .. n /\ v \in stack[i].ascended
            /\ v \in VarsOf(stack[i].func)
            /\ \A j \in 1 .. n : j > i /\ stack[j].kind \in Activation
                                    => stack[j].func # stack[i].func
    BY <1>1, <1>2, RaisedFacts
  <2>2. stack[i].func = stack[n].func
    BY <1>1, <2>1 DEF VarsOf
  <2>3. ~(n > i)
    BY <1>1, <2>1, <2>2 DEF Activation
  <2>4. i = n
    BY <1>1, <2>1, <2>3
  <2> QED
    BY <1>1, <2>1, <2>4
<1>3. ASSUME v \in Top.ascended PROVE v \in Raised
  BY <1>1, <1>3 DEF Raised, Ascended
<1> QED
  BY <1>2, <1>3

\* Before an argument nothing is raised by the call.
LEMMA NothingAscended ==
    ASSUME ShapeInv, AscendedCalls, Top.kind = "args", ~Top.evaluating
    PROVE  Top.ascended = {}
<1>1. Len(stack) \in DOMAIN stack /\ Top = stack[Len(stack)]
  BY StackFacts, TopTyped DEF ShapeInv
<1> SUFFICES ASSUME Top.ascended # {} PROVE FALSE
  OBVIOUS
<1>2. Len(stack) \in Ascended
  BY <1>1 DEF Ascended
<1> QED
  BY <1>1, <1>2 DEF AscendedCalls, MentionsOwn

\* The frames below the top keep all that matters here, calls keep everything.
FramesKept(m) ==
    \A i \in 1 .. m :
        /\ stack'[i].kind = stack[i].kind
        /\ stack[i].kind \in Activation => /\ stack'[i].func = stack[i].func
                                           /\ stack'[i].row = stack[i].row
        /\ stack[i].kind = "args" => stack'[i] = stack[i]

\* The frames below the top one stay what they were.
LEMMA FramesBelow ==
    ASSUME ShapeInv, Next, NEW n \in Nat, n = Len(stack)
    PROVE  FramesKept(n - 1)
<1> USE DEF ShapeInv
<1>1. StackOK
  OBVIOUS
<1>2. ASSUME \E fr \in IntFrames : Push(fr) \/ Replace(fr) PROVE FramesKept(n - 1)
  <2>1. PICK fr \in IntFrames : Push(fr) \/ Replace(fr)
    BY <1>2
  <2>2. \A i \in 1 .. n - 1 : stack'[i] = stack[i]
    BY <2>1, PushFacts, ReplaceFacts
  <2> QED
    BY <2>2 DEF FramesKept
<1>3. ASSUME NEW r \in 0 .. 3, PopWith(r), Top.kind # "root" PROVE FramesKept(n - 1)
  <2>1. Len(stack) >= 2
    BY <1>3, ShapePopped
  <2> QED
    BY <1>3, <2>1, KindsPopped DEF FramesKept, Activation
<1>4. ASSUME NEW f \in Func, StartCall(f) PROVE \E fr \in IntFrames : Push(fr)
  <2>1. loc[f] + 1 \in Int /\ Push(Call(f, loc[f] + 1))
    BY <1>4 DEF StartCall
  <2>2. Call(f, loc[f] + 1) \in IntFrames
    BY <1>4, <2>1, CallFacts
  <2> QED
    BY <2>1, <2>2
<1>5. PassStarted \/ RunStarted => \E fr \in IntFrames : Push(fr) \/ Replace(fr)
  BY DEF PassStarted, RunStarted
<1>6. ASSUME Return \/ Break \/ Continue PROVE \E fr \in IntFrames : Replace(fr)
  <2>1. \E r \in 0 .. 3 : Jumped(r)
    BY <1>6, JumpsJump
  <2> QED
    BY <2>1, JumpedFacts
<1>7. EndArgument \/ EnterBody \/ (\E A \in SUBSET Var : StartArgument(A))
        => \E fr \in IntFrames : Replace(fr)
  BY ArgumentSteps, EnterFacts
<1>8. EndBody \/ (\E r \in 0 .. 3 : PassEnded(r))
        => \E r \in 0 .. 3 : PopWith(r) /\ Top.kind # "root"
  BY DEF EndBody, PassEnded
<1> QED
  BY <1>1, <1>2, <1>3, <1>4, <1>5, <1>6, <1>7, <1>8, StepKinds

\* An argument that mentions variables of its call is one of the body before.
LEMMA ArgumentOwn ==
    ASSUME CallsInv, AscendedCalls, NEW A \in SUBSET Var, A # {}, StartArgument(A),
           NEW n \in Nat, n = Len(stack)
    PROVE  MentionsOwn(n)'
<1> USE DEF CallsInv
<1>1. /\ DOMAIN stack = 1 .. n /\ n \in 1 .. n /\ Top = stack[n] /\ Top \in IntFrames
      /\ Top.kind = "args" /\ ~Top.evaluating /\ StackOK
  BY StackFacts, TopTyped DEF ShapeInv, StartArgument
<1> DEFINE to == [Top EXCEPT !.evaluating = TRUE, !.ascended = A]
<1>2. /\ to \in IntFrames /\ to.kind = "args" /\ to.func = Top.func /\ to.row = Top.row
      /\ to.evaluating /\ to.ascended = A
  BY <1>1 DEF IntFrames
<1>3. Replace(to)
  BY DEF StartArgument
<1> HIDE DEF to
<1>4. /\ DOMAIN stack' = 1 .. n /\ stack'[n] = to
      /\ \A i \in 1 .. n - 1 : stack'[i] = stack[i]
  BY <1>1, <1>2, <1>3, ReplaceFacts
<1>5. /\ A \subseteq VarsOf(Top.func)
      /\ CurrentBody > 0 /\ stack[CurrentBody].func = Top.func
      /\ \A i \in CurrentBody + 1 .. n - 1 :
            stack[i].kind = "args" /\ stack[i].func = Top.func => A \subseteq stack[i].ascended
  BY DEF StartArgument, Mentions
<1>6. PICK c \in 1 .. n : c = CurrentBody
  BY <1>5, CurrentActivation
<1>7. /\ stack[c].kind = "body" /\ stack[c].func = Top.func
      /\ \A j \in c + 1 .. n : stack[j].kind # "body"
  BY <1>1, <1>5, <1>6, WithinIff, CurrentActivation
<1>8. c \in 1 .. n - 1
  BY <1>1, <1>6, <1>7
<1>9. ASSUME NEW j \in c + 1 .. n - 1, stack[j].kind \in Activation
      PROVE  stack[j].func # Top.func
  <2> SUFFICES ASSUME stack[j].func = Top.func PROVE FALSE
    OBVIOUS
  <2>1. j \in 1 .. n /\ n > j /\ stack[j].kind = "args"
    BY <1>7, <1>8, <1>9 DEF Activation
  <2>2. A \subseteq stack[j].ascended
    BY <1>5, <1>6, <2>1
  <2>3. j \in Ascended
    BY <1>1, <2>1, <2>2 DEF Ascended
  <2> QED
    BY <1>1, <2>1, <2>3 DEF AscendedCalls, MentionsOwn
<1>10. stack[c].row + 1 = stack[n].row
  <2> DEFINE f == Top.func
             S == {j \in Activations(f) : j <= c}
  <2>1. f \in Func
    BY <1>1, FrameFacts
  <2>2. c \in Activations(f) /\ n \in Activations(f)
    BY <1>1, <1>7, <1>8 DEF Activations
  <2>3. stack[c].row = Cardinality(S)
        /\ stack[n].row = Cardinality({j \in Activations(f) : j <= n})
    BY <2>1, <2>2 DEF RowsByRank, UpTo
  <2>4. \A j \in Activations(f) : j \in 1 .. n /\ ~(j \in c + 1 .. n - 1)
    BY <1>1, <1>9 DEF Activations, Activation
  <2>5. {j \in Activations(f) : j <= n} = S \cup {n}
    <3>1. \A j \in 1 .. n : j <= n /\ (j <= c \/ j = n \/ j \in c + 1 .. n - 1)
      BY <1>8
    <3>2. \A j \in Activations(f) : j <= n /\ (j <= c \/ j = n)
      BY <2>4, <3>1
    <3> QED
      BY <2>2, <3>2
  <2>6. IsFiniteSet(S) /\ n \notin S /\ Cardinality(S) \in Nat
    BY <1>8, ActivationsFinite, FS_Subset, FS_CardinalityType
  <2>7. Cardinality(S \cup {n}) = Cardinality(S) + 1
    BY <2>6, FS_AddElement
  <2> QED
    BY <2>3, <2>5, <2>7
<1>11. /\ stack'[n].evaluating
       /\ stack'[n].ascended \subseteq VarsOf(stack'[n].func)
  BY <1>2, <1>4, <1>5
<1>12. \A j \in DOMAIN stack' : ~(j > n)
  BY <1>4
<1>13. /\ stack'[c].kind = "body" /\ stack'[c].func = stack'[n].func
       /\ stack'[c].row + 1 = stack'[n].row
       /\ \A j \in c + 1 .. n - 1 : stack'[j].kind # "body"
  <2>1. stack'[c] = stack[c] /\ \A j \in c + 1 .. n - 1 : stack'[j] = stack[j]
    BY <1>4, <1>8
  <2> QED
    BY <1>1, <1>2, <1>4, <1>7, <1>10, <2>1
<1> QED
  BY <1>8, <1>11, <1>12, <1>13 DEF MentionsOwn, VarsOf

\* And it stays so until the argument is over: without calls of a function in its
\* own arguments nothing of the function begins or ends inside.
LEMMA AscendedSteps ==
    ASSUME RowsUndisturbed, CallsInv, AscendedCalls, [Next]_vars
    PROVE  AscendedCalls'
<1> USE DEF CallsInv
<1>1. CASE UNCHANGED vars
  BY <1>1 DEF vars, AscendedCalls, Ascended, MentionsOwn
<1> SUFFICES ASSUME Next PROVE AscendedCalls'
  BY <1>1
<1>2. StackOK
  BY DEF ShapeInv
<1>3. PICK n \in Nat : n = Len(stack)
  BY <1>2, StackFacts
<1>4. DOMAIN stack = 1 .. n /\ n \in 1 .. n /\ Top = stack[n] /\ Top \in IntFrames
  BY <1>2, <1>3, StackFacts, TopTyped
<1>5. FramesKept(n - 1)
  BY <1>3, FramesBelow
<1>6. ASSUME CallsKept, NEW m \in Nat, DOMAIN stack' = 1 .. m, m <= n + 1,
             NEW k \in Nat, FramesKept(k), k <= n, k <= m,
             NEW i \in Ascended', i <= k,
             m = n + 1 /\ stack'[m].kind \in Activation => stack'[m].func # stack'[i].func
      PROVE  MentionsOwn(i)'
  <2>1. i \in 1 .. m /\ i \in 1 .. k /\ stack'[i].kind = "args" /\ stack'[i].ascended # {}
    BY <1>6 DEF Ascended
  <2>2. stack'[i] = stack[i]
    BY <1>6, <2>1 DEF FramesKept
  <2>3. i \in Ascended
    BY <1>4, <1>6, <2>1, <2>2 DEF Ascended
  <2>4. MentionsOwn(i)
    BY <2>3 DEF AscendedCalls
  <2>5. \A j \in DOMAIN stack' :
            j > i /\ stack'[j].kind \in Activation => stack'[j].func # stack'[i].func
    <3> SUFFICES ASSUME NEW j \in 1 .. m, j > i, stack'[j].kind \in Activation
                 PROVE  stack'[j].func # stack'[i].func
      BY <1>6
    <3>1. CASE j <= n
      <4>1. j \in DOMAIN stack \cap DOMAIN stack'
        BY <1>4, <1>6, <3>1
      <4> QED
        BY <1>6, <2>2, <2>4, <4>1 DEF CallsKept, MentionsOwn, Activation
    <3>2. CASE ~(j <= n)
      <4>1. m = n + 1 /\ j = m
        BY <1>6, <3>2
      <4> QED
        BY <1>6, <4>1
    <3> QED
      BY <3>1, <3>2
  <2>6. PICK c \in 1 .. i - 1 :
            /\ stack[c].kind = "body" /\ stack[c].func = stack[i].func
            /\ stack[c].row + 1 = stack[i].row
            /\ \A j \in c + 1 .. i - 1 : stack[j].kind # "body"
    BY <2>4 DEF MentionsOwn
  <2>7. \A j \in 1 .. i - 1 : j \in 1 .. k
    BY <1>6, <2>1
  <2>8. /\ stack'[c].kind = "body" /\ stack'[c].func = stack'[i].func
        /\ stack'[c].row + 1 = stack'[i].row
        /\ \A j \in c + 1 .. i - 1 : stack'[j].kind # "body"
    <3>1. c \in 1 .. k
      BY <2>6, <2>7
    <3>2. \A j \in c + 1 .. i - 1 : j \in 1 .. k
      BY <2>6, <2>7
    <3> QED
      BY <1>6, <2>2, <2>6, <3>1, <3>2 DEF FramesKept, Activation
  <2> QED
    BY <2>2, <2>4, <2>5, <2>6, <2>8 DEF MentionsOwn, Activation, VarsOf
<1>7. ASSUME CallsKept, DOMAIN stack' = 1 .. n,
             n \in Ascended' => MentionsOwn(n)'
      PROVE  AscendedCalls'
  <2> SUFFICES ASSUME NEW i \in Ascended' PROVE MentionsOwn(i)'
    BY DEF AscendedCalls
  <2>1. CASE i = n
    BY <1>7, <2>1
  <2>2. CASE i # n
    <3>1. i <= n - 1 /\ n - 1 \in Nat
      BY <1>4, <1>7, <2>2 DEF Ascended
    <3> QED
      BY <1>4, <1>5, <1>6, <1>7, <3>1
  <2> QED
    BY <2>1, <2>2
<1>8. CASE PassStarted
  <2>1. /\ CallsKept /\ DOMAIN stack' = 1 .. n + 1
        /\ stack'[n + 1].kind \notin Activation
    BY <1>3, <1>8, KeptSteps
  <2>2. PICK fr \in IntFrames : Push(fr)
    BY <1>8 DEF PassStarted
  <2>3. FramesKept(n)
    BY <1>2, <1>3, <1>4, <2>2, PushFacts DEF FramesKept
  <2> SUFFICES ASSUME NEW i \in Ascended' PROVE MentionsOwn(i)'
    BY DEF AscendedCalls
  <2>4. i <= n
    BY <2>1 DEF Ascended, Activation
  <2> QED
    BY <1>6, <2>1, <2>3, <2>4
<1>9. ASSUME NEW f \in Func, StartCall(f) PROVE AscendedCalls'
  <2>1. /\ CallsKept /\ DOMAIN stack' = 1 .. n + 1
        /\ stack'[n + 1].ascended = {} /\ stack'[n + 1].func = f
        /\ \A i \in 1 .. n : stack'[i] = stack[i]
    BY <1>3, <1>9, KeptSteps
  <2>2. FramesKept(n)
    BY <2>1 DEF FramesKept
  <2> SUFFICES ASSUME NEW i \in Ascended' PROVE MentionsOwn(i)'
    BY DEF AscendedCalls
  <2>3. i <= n /\ i \in 1 .. n
    BY <2>1 DEF Ascended
  <2>4. stack'[i].func # f
    <3>1. \A j \in DOMAIN stack :
              stack[j].kind = "args" /\ stack[j].func = f => stack[j].ascended = {}
      BY <1>9 DEF StartCall, RowsUndisturbed
    <3> QED
      BY <1>4, <2>1, <2>3, <3>1 DEF Ascended
  <2> QED
    BY <1>6, <2>1, <2>2, <2>3, <2>4
<1>10. CASE EndBody \/ \E r \in 0 .. 3 : PassEnded(r)
  <2>1. CallsKept /\ n >= 2 /\ DOMAIN stack' = 1 .. n - 1
    BY <1>3, <1>10, KeptSteps
  <2> SUFFICES ASSUME NEW i \in Ascended' PROVE MentionsOwn(i)'
    BY DEF AscendedCalls
  <2>2. i <= n - 1 /\ n - 1 \in Nat
    BY <2>1 DEF Ascended
  <2> QED
    BY <1>5, <1>6, <2>1, <2>2
<1>11. ASSUME RunStarted \/ Return \/ Break \/ Continue \/ EnterBody
       PROVE  AscendedCalls'
  <2>1. CallsKept /\ DOMAIN stack' = 1 .. n
    BY <1>3, <1>11, KeptSteps
  <2>2. \E fr \in IntFrames : Replace(fr) /\ fr.kind # "args"
    <3>1. CASE RunStarted
      BY <3>1 DEF RunStarted, Loops
    <3>2. CASE Return \/ Break \/ Continue
      <4>1. \E r \in 0 .. 3 : Jumped(r)
        BY <3>2, JumpsJump
      <4> QED
        BY <1>2, <4>1, JumpedFacts
    <3>3. CASE EnterBody
      BY <1>2, <3>3, EnterFacts
    <3> QED
      BY <1>11, <3>1, <3>2, <3>3
  <2>3. stack'[n].kind # "args"
    BY <1>2, <1>3, <2>2, ReplaceFacts
  <2> QED
    BY <1>7, <2>1, <2>3 DEF Ascended
<1>12. CASE EndArgument
  <2>1. CallsKept /\ DOMAIN stack' = 1 .. n
    BY <1>3, <1>12, KeptSteps
  <2> DEFINE to == [Top EXCEPT !.evaluating = FALSE, !.ascended = {}]
  <2>2. to \in IntFrames /\ to.ascended = {}
    BY <1>4, <1>12 DEF IntFrames, EndArgument
  <2>3. Replace(to)
    BY <1>12 DEF EndArgument
  <2> HIDE DEF to
  <2>4. stack'[n] = to
    BY <1>2, <1>3, <2>2, <2>3, ReplaceFacts
  <2> QED
    BY <1>7, <2>1, <2>2, <2>4 DEF Ascended
<1>13. ASSUME NEW A \in SUBSET Var, StartArgument(A) PROVE AscendedCalls'
  <2>1. CallsKept /\ DOMAIN stack' = 1 .. n
    BY <1>3, <1>13, KeptSteps
  <2>2. CASE A # {}
    BY <1>3, <1>7, <1>13, <2>1, <2>2, ArgumentOwn
  <2>3. CASE A = {}
    <3> DEFINE to == [Top EXCEPT !.evaluating = TRUE, !.ascended = A]
    <3>1. to \in IntFrames /\ to.ascended = {}
      BY <1>4, <1>13, <2>3 DEF IntFrames, StartArgument
    <3>2. Replace(to)
      BY <1>13 DEF StartArgument
    <3> HIDE DEF to
    <3>3. stack'[n] = to
      BY <1>2, <1>3, <3>1, <3>2, ReplaceFacts
    <3> QED
      BY <1>7, <2>1, <3>1, <3>3 DEF Ascended
  <2> QED
    BY <2>2, <2>3
<1> QED
  BY <1>2, <1>8, <1>9, <1>10, <1>11, <1>12, <1>13, StepKinds

\* Only the beginning and the end of an argument change what is raised.
LEMMA RaisedKept ==
    ASSUME ShapeInv, AscendedCalls,
           \/ PassStarted \/ RunStarted \/ Return \/ Break \/ Continue
           \/ EnterBody \/ EndBody
           \/ \E f \in Func : StartCall(f)
           \/ \E r \in 0 .. 3 : PassEnded(r)
    PROVE  Raised' = Raised
<1>1. StackOK
  BY DEF ShapeInv
<1>2. PICK n \in Nat : n = Len(stack)
  BY <1>1, StackFacts
<1>3. DOMAIN stack = 1 .. n /\ n \in 1 .. n /\ Top = stack[n] /\ Top \in IntFrames
  BY <1>1, <1>2, StackFacts, TopTyped
<1>4. ASSUME NEW m \in Nat, DOMAIN stack' = 1 .. m, NEW k \in Nat, k <= n, k <= m,
             FramesKept(k),
             \A i \in k + 1 .. n : stack[i].kind = "args" => stack[i].ascended = {},
             \A i \in k + 1 .. m : stack'[i].kind = "args" => stack'[i].ascended = {}
      PROVE  Raised' = Raised
  <2>1. \A i \in 1 .. n : i \in 1 .. k \/ i \in k + 1 .. n
    BY <1>4
  <2>2. \A i \in 1 .. m : i \in 1 .. k \/ i \in k + 1 .. m
    BY <1>4
  <2>3. \A i \in 1 .. k : i \in 1 .. n /\ i \in 1 .. m
    BY <1>4
  <2>4. \A i \in Ascended : i \in Ascended' /\ stack'[i] = stack[i]
    BY <1>3, <1>4, <2>1, <2>3 DEF Ascended, FramesKept
  <2>5. \A i \in Ascended' : i \in Ascended /\ stack'[i] = stack[i]
    BY <1>3, <1>4, <2>2, <2>3 DEF Ascended, FramesKept
  <2> QED
    BY <2>4, <2>5 DEF Raised
<1>5. CASE PassStarted
  <2>1. PICK fr \in IntFrames : Push(fr) /\ fr.kind # "args"
    BY <1>5 DEF PassStarted, PassKinds
  <2>2. DOMAIN stack' = 1 .. n + 1 /\ stack'[n + 1] = fr /\ FramesKept(n)
    BY <1>1, <1>2, <1>3, <2>1, PushFacts DEF FramesKept
  <2>3. \A i \in n + 1 .. n + 1 : i = n + 1
    OBVIOUS
  <2> QED
    BY <1>4, <2>1, <2>2, <2>3
<1>6. ASSUME NEW f \in Func, StartCall(f) PROVE Raised' = Raised
  <2>1. /\ DOMAIN stack' = 1 .. n + 1 /\ stack'[n + 1].ascended = {}
        /\ \A i \in 1 .. n : stack'[i] = stack[i]
    BY <1>2, <1>6, KeptSteps
  <2>2. FramesKept(n)
    BY <2>1 DEF FramesKept
  <2>3. \A i \in n + 1 .. n + 1 : i = n + 1
    OBVIOUS
  <2> QED
    BY <1>4, <2>1, <2>2, <2>3
<1>7. ASSUME NEW fr \in IntFrames, Replace(fr), fr.kind # "args",
             Top.kind = "args" => Top.ascended = {}
      PROVE  Raised' = Raised
  <2>1. /\ DOMAIN stack' = 1 .. n /\ stack'[n] = fr
        /\ \A i \in 1 .. n - 1 : stack'[i] = stack[i]
    BY <1>1, <1>2, <1>7, ReplaceFacts
  <2>2. FramesKept(n - 1) /\ n - 1 \in Nat
    BY <1>3, <2>1 DEF FramesKept
  <2>3. \A i \in (n - 1) + 1 .. n : i = n
    OBVIOUS
  <2> QED
    BY <1>3, <1>4, <1>7, <2>1, <2>2, <2>3
<1>8. CASE RunStarted
  BY <1>7, <1>8 DEF RunStarted, Loops
<1>9. CASE Return \/ Break \/ Continue
  <2>1. \E r \in 0 .. 3 : Jumped(r)
    BY <1>9, JumpsJump
  <2> QED
    BY <1>1, <1>7, <2>1, JumpedFacts
<1>10. CASE EnterBody
  <2>1. Top.ascended = {}
    BY <1>10, NothingAscended DEF EnterBody
  <2> QED
    BY <1>1, <1>7, <1>10, <2>1, EnterFacts
<1>11. CASE EndBody \/ \E r \in 0 .. 3 : PassEnded(r)
  <2>1. n >= 2 /\ DOMAIN stack' = 1 .. n - 1
    BY <1>2, <1>11, KeptSteps
  <2>2. PICK r \in 0 .. 3 : PopWith(r)
    BY <1>11 DEF EndBody, PassEnded
  <2>3. FramesKept(n - 1) /\ n - 1 \in Nat
    BY <1>1, <1>2, <2>1, <2>2, KindsPopped DEF FramesKept, Activation
  <2>4. /\ \A i \in (n - 1) + 1 .. n : i = n
        /\ \A i \in (n - 1) + 1 .. n - 1 : FALSE
    OBVIOUS
  <2>5. Top.kind # "args"
    BY <1>11 DEF EndBody, PassEnded, PassKinds
  <2> QED
    BY <1>3, <1>4, <2>1, <2>3, <2>4, <2>5
<1> QED
  BY <1>5, <1>6, <1>8, <1>9, <1>10, <1>11

\* Which is then what the argument mentions.
LEMMA RaisedMoved ==
    ASSUME ShapeInv, AscendedCalls
    PROVE  /\ EndArgument => Raised' = Raised \ Top.ascended
           /\ \A A \in SUBSET Var : StartArgument(A) => Raised' = Raised \cup A
<1>1. StackOK
  BY DEF ShapeInv
<1>2. PICK n \in Nat : n = Len(stack)
  BY <1>1, StackFacts
<1>3. DOMAIN stack = 1 .. n /\ n \in 1 .. n /\ Top = stack[n] /\ Top \in IntFrames
  BY <1>1, <1>2, StackFacts, TopTyped
<1> DEFINE Below == UNION {stack[i].ascended : i \in Ascended \ {n}}
<1>4. Top.kind = "args" => Raised = Below \cup Top.ascended
  BY <1>3 DEF Raised, Ascended
<1>5. ASSUME NEW fr \in IntFrames, Replace(fr), fr.kind = "args"
      PROVE  Raised' = Below \cup fr.ascended
  <2>1. /\ DOMAIN stack' = 1 .. n /\ stack'[n] = fr
        /\ \A i \in 1 .. n - 1 : stack'[i] = stack[i]
    BY <1>1, <1>2, <1>5, ReplaceFacts
  <2>2. \A i \in 1 .. n : i = n \/ i \in 1 .. n - 1
    OBVIOUS
  <2>3. Ascended' \ {n} = Ascended \ {n}
    BY <1>3, <2>1, <2>2 DEF Ascended
  <2>4. \A i \in Ascended \ {n} : stack'[i] = stack[i]
    BY <1>3, <2>1, <2>2 DEF Ascended
  <2>5. n \in Ascended' <=> fr.ascended # {}
    BY <1>3, <1>5, <2>1 DEF Ascended
  <2>6. Raised' = UNION {stack'[i].ascended : i \in Ascended'}
    BY DEF Raised
  <2>7. ASSUME NEW v \in Raised' PROVE v \in Below \cup fr.ascended
    <3>1. PICK i \in Ascended' : v \in stack'[i].ascended
      BY <2>6, <2>7
    <3> QED
      BY <2>1, <2>3, <2>4, <3>1
  <2>8. ASSUME NEW v \in Below PROVE v \in Raised'
    <3>1. PICK i \in Ascended \ {n} : v \in stack[i].ascended
      BY <2>8
    <3> QED
      BY <2>3, <2>4, <2>6, <3>1
  <2>9. ASSUME NEW v \in fr.ascended PROVE v \in Raised'
    BY <2>1, <2>5, <2>6, <2>9
  <2> QED
    BY <2>7, <2>8, <2>9
<1>6. ASSUME Top.kind = "args", NEW v \in Below, v \in Top.ascended PROVE FALSE
  <2>1. PICK i \in Ascended \ {n} : v \in stack[i].ascended
    BY <1>6
  <2>2. n \in Ascended
    BY <1>3, <1>6 DEF Ascended
  <2>3. MentionsOwn(i) /\ MentionsOwn(n)
    BY <2>1, <2>2 DEF AscendedCalls
  <2>4. i \in 1 .. n /\ n > i
    BY <1>3, <2>1 DEF Ascended
  <2>5. stack[i].func = stack[n].func
    BY <1>3, <1>6, <2>1, <2>3 DEF MentionsOwn, VarsOf
  <2> QED
    BY <1>3, <1>6, <2>3, <2>4, <2>5 DEF MentionsOwn
<1>7. ASSUME EndArgument PROVE Raised' = Raised \ Top.ascended
  <2> DEFINE to == [Top EXCEPT !.evaluating = FALSE, !.ascended = {}]
  <2>1. Top.kind = "args" /\ Replace(to)
    BY <1>7 DEF EndArgument
  <2>2. to \in IntFrames /\ to.kind = "args" /\ to.ascended = {}
    BY <1>3, <2>1 DEF IntFrames
  <2> HIDE DEF to
  <2>3. Raised' = Below
    BY <1>5, <2>1, <2>2
  <2> QED
    BY <1>4, <1>6, <2>1, <2>3
<1>8. ASSUME NEW A \in SUBSET Var, StartArgument(A) PROVE Raised' = Raised \cup A
  <2> DEFINE to == [Top EXCEPT !.evaluating = TRUE, !.ascended = A]
  <2>1. Top.kind = "args" /\ Replace(to) /\ ~Top.evaluating
    BY <1>8 DEF StartArgument
  <2>2. to \in IntFrames /\ to.kind = "args" /\ to.ascended = A
    BY <1>3, <1>8, <2>1 DEF IntFrames
  <2> HIDE DEF to
  <2>3. Raised' = Below \cup A
    BY <1>5, <2>1, <2>2
  <2>4. Top.ascended = {}
    BY <2>1, NothingAscended
  <2> QED
    BY <1>4, <2>1, <2>3, <2>4
<1> QED
  BY <1>7, <1>8

RowsInv ==
    /\ TypesInv
    /\ ReturnInBody({"scope", "iter", "for"})
    /\ AscendedCalls
    /\ Positions

\* A step that moves the variables of one function, none of them raised, moves
\* them to the row of the function.
LEMMA FunctionMoved ==
    ASSUME TypesInv, Positions, NEW f \in Func,
           Raised' = Raised, \A v \in StackedOf(f) : v \notin Raised,
           Descend(f) \/ (Ascend(f) /\ loc[f] \in Nat)
    PROVE  Positions'
<1>1. loc \in [Func -> Int] /\ sidx \in [Var -> 0 .. RowMod - 1] /\ rows \in [Var -> Nat]
  BY DEF TypesInv, CallsInv, ShapeInv
<1> SUFFICES ASSUME NEW v \in Var
             PROVE  /\ sidx'[v] = IF v \notin Raised THEN Level(v)'
                                  ELSE IF v \in Stackable THEN Level(v)' - 1 ELSE RowMod - 1
                    /\ Level(v)' < rows'[v]
  BY DEF Positions
<1>2. /\ sidx[v] = IF v \notin Raised THEN Level(v)
                   ELSE IF v \in Stackable THEN Level(v) - 1 ELSE RowMod - 1
      /\ Level(v) < rows[v]
  BY DEF Positions
<1>3. OwnerOf[v] \in Func
  BY OwnerAssumption
<1>4. CASE v \in StackedOf(f)
  <2>1. v \in Stackable /\ OwnerOf[v] = f /\ v \notin Raised
    BY <1>4 DEF StackedOf, VarsOf
  <2>2. Level(v) = loc[f] /\ Level(v)' = loc'[f]
    BY <2>1 DEF Level
  <2>3. CASE Descend(f)
    <3>1. loc'[f] = loc[f] + 1 /\ sidx'[v] = loc[f] + 1
      BY <1>1, <1>4, <2>3 DEF Descend
    <3>2. rows'[v] = IF rows[v] <= loc[f] + 1 THEN rows[v] + 1 ELSE rows[v]
      BY <1>4, <2>3 DEF Descend
    <3>3. loc[f] < rows[v] /\ loc[f] \in Int /\ rows[v] \in Int
      BY <1>1, <1>2, <2>2
    <3>4. loc[f] + 1 < rows'[v]
      BY <3>2, <3>3
    <3> QED
      BY <2>1, <2>2, <3>1, <3>4
  <2>4. CASE Ascend(f)
    <3>1. loc'[f] = loc[f] - 1 /\ sidx'[v] = loc[f] - 1 /\ rows' = rows
      BY <1>1, <1>4, <2>4 DEF Ascend
    <3>2. loc[f] < rows[v] /\ loc[f] \in Int /\ rows[v] \in Int
      BY <1>1, <1>2, <2>2
    <3> QED
      BY <2>1, <2>2, <3>1, <3>2
  <2> QED
    BY <2>3, <2>4
<1>5. CASE v \notin StackedOf(f)
  <2>1. sidx'[v] = sidx[v] /\ rows'[v] = rows[v]
    BY <1>5 DEF Descend, Ascend
  <2>2. v \in Stackable => OwnerOf[v] # f
    BY <1>5 DEF StackedOf, VarsOf
  <2>3. Level(v)' = Level(v)
    <3>1. \A g \in Func : g # f => loc'[g] = loc[g]
      BY <1>1 DEF Descend, Ascend
    <3> QED
      BY <1>3, <2>2, <3>1 DEF Level
  <2> QED
    BY <1>2, <2>1, <2>3
<1> QED
  BY <1>4, <1>5

\* A remainder of a row, and of the numbers just outside the range.
LEMMA Remainders ==
    ASSUME NEW m \in Nat, m > 0
    PROVE  /\ \A x \in 0 .. m - 1 : x % m = x
           /\ (0 + (-1)) % m = m - 1
           /\ ((m - 1) + 1) % m = 0
OBVIOUS

\* An argument moves the variables it mentions to the row above, and back.
LEMMA ArgumentMoved ==
    ASSUME RowsInv, EndArgument \/ \E A \in SUBSET Var : StartArgument(A)
    PROVE  Positions'
<1> USE DEF RowsInv, TypesInv, CallsInv
<1>1. /\ sidx \in [Var -> 0 .. RowMod - 1] /\ loc \in [Func -> Int]
      /\ RowMod \in Nat /\ RowMod > 0 /\ RowMod > MaxFrames /\ MaxFrames \in Nat
  BY BoundsAssumption DEF ShapeInv
<1>2. PICK n \in Nat : n = Len(stack) /\ n <= MaxFrames
  BY StackFacts DEF ShapeInv, Shape
<1>3. /\ Top.kind = "args" /\ Top = stack[n] /\ Top \in IntFrames
      /\ n \in 1 .. n /\ DOMAIN stack = 1 .. n
  BY <1>2, StackFacts, TopTyped DEF ShapeInv, StartArgument, EndArgument
<1>4. /\ Top.func \in Func /\ Top.ascended \in SUBSET Var
  BY <1>3, FrameFacts
<1>5. loc[Top.func] \in 1 .. RowMod - 1
  <2>1. ~Unwinding(Top.func)
    BY <1>3 DEF Unwinding
  <2>2. n \in Activations(Top.func)
    BY <1>3 DEF Activations
  <2>3. loc[Top.func] >= 1 /\ loc[Top.func] \in 0 .. n - 1
    BY <1>2, <1>4, <2>1, <2>2, LocBounds
  <2> QED
    BY <1>1, <1>2, <2>3
<1>6. ASSUME NEW v \in VarsOf(Top.func)
      PROVE  /\ v \in Raised <=> v \in Top.ascended
             /\ Level(v) \in 0 .. RowMod - 1
             /\ v \in Stackable => Level(v) >= 1
             /\ v \notin Stackable => Level(v) = 0
  <2>1. OwnerOf[v] = Top.func
    BY DEF VarsOf
  <2>2. Level(v) = IF v \in Stackable THEN loc[Top.func] ELSE 0
    BY <2>1 DEF Level
  <2> QED
    BY <1>1, <1>3, <1>5, <2>2, RaisedInArgument
<1>7. \A v \in Var :
         /\ sidx[v] = IF v \notin Raised THEN Level(v)
                      ELSE IF v \in Stackable THEN Level(v) - 1 ELSE RowMod - 1
         /\ Level(v) < rows[v]
  BY DEF Positions
<1>8. UNCHANGED <<loc, rows>> /\ \A v \in Var : Level(v)' = Level(v)
  BY DEF EndArgument, StartArgument, Level
<1>9. CASE EndArgument
  <2>1. Raised' = Raised \ Top.ascended
    BY <1>9, RaisedMoved
  <2>2. \A v \in Var : sidx'[v] = IF v \in Top.ascended THEN (sidx[v] + 1) % RowMod ELSE sidx[v]
    BY <1>9 DEF EndArgument, Move
  <2>3. ASSUME NEW v \in Top.ascended
        PROVE  sidx'[v] = Level(v)
    <3>1. v \in Var /\ v \in VarsOf(Top.func) /\ v \in Raised
      <4>1. n \in Ascended
        BY <1>3, <2>3 DEF Ascended
      <4>2. v \in VarsOf(Top.func)
        BY <1>3, <2>3, <4>1 DEF AscendedCalls, MentionsOwn
      <4> QED
        BY <1>6, <2>3, <4>2 DEF VarsOf
    <3>2. sidx'[v] = (sidx[v] + 1) % RowMod
      BY <2>2, <2>3, <3>1
    <3>3. CASE v \in Stackable
      <4>1. sidx[v] = Level(v) - 1
        BY <1>7, <3>1, <3>3
      <4>2. Level(v) \in 0 .. RowMod - 1
        BY <1>6, <3>1
      <4>3. (Level(v) - 1) + 1 = Level(v)
        BY <4>2
      <4>4. Level(v) % RowMod = Level(v)
        BY <1>1, <4>2, Remainders
      <4> QED
        BY <3>2, <4>1, <4>3, <4>4
    <3>4. CASE v \notin Stackable
      <4>1. sidx[v] = RowMod - 1 /\ Level(v) = 0
        BY <1>6, <1>7, <3>1, <3>4
      <4>2. ((RowMod - 1) + 1) % RowMod = 0
        BY <1>1, Remainders
      <4> QED
        BY <3>2, <4>1, <4>2
    <3> QED
      BY <3>3, <3>4
  <2> QED
    BY <1>7, <1>8, <2>1, <2>2, <2>3 DEF Positions
<1>10. ASSUME NEW A \in SUBSET Var, StartArgument(A) PROVE Positions'
  <2>1. Raised' = Raised \cup A
    BY <1>10, RaisedMoved
  <2>2. \A v \in Var : sidx'[v] = IF v \in A THEN (sidx[v] + (-1)) % RowMod ELSE sidx[v]
    BY <1>10 DEF StartArgument, Move
  <2>3. A \subseteq VarsOf(Top.func) /\ Top.ascended = {}
    BY <1>10, NothingAscended DEF StartArgument, Mentions
  <2>4. ASSUME NEW v \in A
        PROVE  sidx'[v] = IF v \in Stackable THEN Level(v) - 1 ELSE RowMod - 1
    <3>1. v \in Var /\ v \in VarsOf(Top.func) /\ v \notin Raised
      BY <1>6, <2>3
    <3>2. sidx'[v] = (Level(v) + (-1)) % RowMod
      BY <1>7, <2>2, <2>4, <3>1
    <3>3. CASE v \in Stackable
      <4>1. Level(v) - 1 \in 0 .. RowMod - 1 /\ Level(v) + (-1) = Level(v) - 1
        BY <1>1, <1>6, <3>1, <3>3
      <4>2. (Level(v) - 1) % RowMod = Level(v) - 1
        BY <1>1, <4>1, Remainders
      <4> QED
        BY <3>2, <3>3, <4>1, <4>2
    <3>4. CASE v \notin Stackable
      <4>1. Level(v) = 0
        BY <1>6, <3>1, <3>4
      <4>2. (0 + (-1)) % RowMod = RowMod - 1
        BY <1>1, Remainders
      <4> QED
        BY <3>2, <3>4, <4>1, <4>2
    <3> QED
      BY <3>3, <3>4
  <2> QED
    BY <1>7, <1>8, <2>1, <2>2, <2>4 DEF Positions
<1> QED
  BY <1>9, <1>10

\* The step of the invariant.
LEMMA RowsSteps ==
    ASSUME RowsUndisturbed, RowsInv, [Next]_vars
    PROVE  RowsInv'
<1> USE DEF RowsInv
<1>1. /\ ReturnsReachBody /\ CallsInv /\ ShapeInv /\ StackOK /\ FramesMatch
      /\ loc \in [Func -> Int]
  BY DEF RowsUndisturbed, TypesInv, CallsInv, ShapeInv
<1>2. TypesInv'
  BY <1>1, TypesSteps
<1>3. AscendedCalls'
  BY <1>1, AscendedSteps
<1>4. ReturnInBody({"scope", "iter", "for"})'
  <2>1. Return /\ CurrentBody > 0 => ~Within({"scope", "iter", "for"})
    BY <1>1, WithinIff DEF Return, RowsUndisturbed, ReturnsReachBody
  <2> QED
    BY <1>1, <2>1, ReturnSteps
<1>5. CASE UNCHANGED vars
  <2>1. Positions'
    BY <1>5 DEF vars, Positions, Level, Raised, Ascended
  <2> QED
    BY <1>2, <1>3, <1>4, <2>1
<1> SUFFICES ASSUME Next PROVE Positions'
  BY <1>2, <1>3, <1>4, <1>5
<1>6. ASSUME RowsUnchanged, Raised' = Raised PROVE Positions'
  BY <1>6 DEF RowsUnchanged, Positions, Level
<1>7. CASE PassStarted \/ RunStarted \/ Break \/ Continue \/ EnterBody
           \/ \E r \in 0 .. 3 : PassEnded(r)
  <2>1. RowsUnchanged
    BY <1>7 DEF PassStarted, RunStarted, Break, Continue, EnterBody, PassEnded
  <2> QED
    BY <1>1, <1>6, <1>7, <2>1, RaisedKept
<1>8. ASSUME NEW f \in Func, StartCall(f) PROVE Positions'
  <2>1. Descend(f) /\ Raised' = Raised
    BY <1>1, <1>8, RaisedKept DEF StartCall
  <2>2. ASSUME NEW v \in StackedOf(f), v \in Raised PROVE FALSE
    <3>1. PICK i \in Ascended : v \in VarsOf(stack[i].func)
      BY <1>1, <2>2, RaisedFacts
    <3>2. stack[i].func = f
      BY <3>1 DEF StackedOf, VarsOf
    <3>3. \A j \in DOMAIN stack :
              stack[j].kind = "args" /\ stack[j].func = f => stack[j].ascended = {}
      BY <1>8 DEF StartCall, RowsUndisturbed
    <3> QED
      BY <3>1, <3>2, <3>3 DEF Ascended
  <2> QED
    BY <1>8, <2>1, <2>2, FunctionMoved
<1>9. ASSUME NEW f \in Func, Ascend(f), Raised' = Raised, Top.kind # "args",
             CurrentBody > 0, stack[CurrentBody].func = f
      PROVE  Positions'
  <2>1. \A v \in StackedOf(f) : v \notin Raised
    BY <1>1, <1>9, NotRaised DEF StackedOf
  <2>2. loc[f] \in Nat
    BY <1>1, <1>9, LocBounds
  <2> QED
    BY <1>9, <2>1, <2>2, FunctionMoved
<1>10. CASE EndBody
  <2>1. Raised' = Raised /\ Top.kind = "body"
    BY <1>1, <1>10, RaisedKept DEF EndBody
  <2>2. CASE Top.state = 0
    <3>1. Ascend(Top.func)
      BY <1>10, <2>2 DEF EndBody
    <3>2. Top = stack[Len(stack)] /\ Top \in IntFrames /\ Len(stack) \in Nat /\ Len(stack) >= 1
      BY <1>1, TopTyped, StackFacts
    <3>3. CurrentBody = Len(stack) /\ Top.func \in Func
      BY <1>1, <2>1, <3>2, InnermostTop, FrameFacts DEF StackOK, CurrentBody, Innermost
    <3> QED
      BY <1>9, <2>1, <3>1, <3>2, <3>3
  <2>3. CASE Top.state # 0
    BY <1>6, <1>10, <2>1, <2>3 DEF EndBody
  <2> QED
    BY <2>2, <2>3
<1>11. CASE Return
  <2>1. Raised' = Raised /\ Top.kind # "args"
    BY <1>1, <1>11, RaisedKept DEF Return, Running
  <2>2. CASE CurrentBody > 0
    <3>1. Ascend(stack[CurrentBody].func)
      BY <1>1, <1>11, <2>2 DEF Return, ReturnsReachBody
    <3>2. stack[CurrentBody].func \in Func
      BY <1>1, <2>2, CurrentActivation
    <3> QED
      BY <1>9, <2>1, <2>2, <3>1, <3>2
  <2>3. CASE ~(CurrentBody > 0)
    BY <1>6, <1>11, <2>1, <2>3 DEF Return
  <2> QED
    BY <2>2, <2>3
<1>12. CASE EndArgument \/ \E A \in SUBSET Var : StartArgument(A)
  BY <1>12, ArgumentMoved
<1> QED
  BY <1>1, <1>7, <1>8, <1>10, <1>11, <1>12, StepKinds

\* At the start every variable is in its first row.
LEMMA RowsInit == Init => RowsInv
<1> SUFFICES ASSUME Init PROVE RowsInv
  OBVIOUS
<1>1. TypesInv /\ ReturnInBody({"scope", "iter", "for"})
  BY TypesInit, CallsInit
<1>2. stack[1].kind = "root" /\ DOMAIN stack = 1 .. 1
  BY ShapeInit, StackFacts DEF ShapeInv
<1>3. Ascended = {} /\ Raised = {}
  BY <1>2 DEF Ascended, Raised
<1>4. \A v \in Var : Level(v) = 0
  BY OwnerAssumption DEF Level, Init
<1>5. Positions
  BY <1>3, <1>4 DEF Positions, Init
<1> QED
  BY <1>1, <1>3, <1>5 DEF RowsInv, AscendedCalls

\* Code reads its own rows: its variables are not raised, its function is not
\* being left, and its body is the last activation of its function.
LEMMA BodyReads ==
    ASSUME RowsInv
    PROVE  BodyRows
<1> USE DEF RowsInv, TypesInv, CallsInv
<1> SUFFICES ASSUME Running \/ Top.kind = "for", CurrentBody > 0,
                    NEW v \in VarsOf(stack[CurrentBody].func)
             PROVE  /\ sidx[v] = IF v \in Stackable THEN stack[CurrentBody].row ELSE 0
                    /\ sidx[v] < rows[v]
  BY DEF BodyRows
<1>1. PICK n \in Nat : n = Len(stack) /\ DOMAIN stack = 1 .. n /\ Top = stack[n] /\ n \in 1 .. n
  BY StackFacts, TopTyped DEF ShapeInv
<1>2. PICK c \in 1 .. n : c = CurrentBody
  BY <1>1, CurrentActivation
<1>3. PICK f \in Func : f = stack[c].func
  BY <1>2, CurrentActivation
<1>4. Top.kind # "args" /\ c \in Activations(f) /\ stack[c].kind = "body"
  BY <1>2, <1>3, CurrentActivation DEF Running
<1>5. ~Unwinding(f)
  <2>1. CASE Running
    BY <2>1 DEF Running, Unwinding
  <2>2. CASE Top.kind = "for"
    <3>1. c + 1 \in Nat /\ n \in c + 1 .. Len(stack)
      BY <1>1, <1>2, <1>4, <2>2
    <3>2. Within({"scope", "iter", "for"})
      BY <1>1, <1>2, <2>2, <3>1, WithinIff DEF ShapeInv
    <3> QED
      BY <1>2, <3>2 DEF ReturnInBody, Leaving, Unwinding
  <2> QED
    BY <2>1, <2>2
<1>6. loc[f] = Cardinality(Activations(f))
  BY <1>5, LocBounds
<1>7. \A j \in Activations(f) : j <= c
  <2> SUFFICES ASSUME NEW j \in Activations(f) PROVE j <= c
    OBVIOUS
  <2>1. j \in 1 .. n /\ stack[j].kind \in {"args", "body"}
    BY <1>1 DEF Activations
  <2>2. CASE stack[j].kind = "args"
    BY <1>1, <1>2, <1>4, <2>1, <2>2, BodyAbove
  <2>3. CASE stack[j].kind = "body"
    <3>1. ~(j \in c + 1 .. n)
      BY <1>1, <1>2, <2>3, WithinIff DEF ShapeInv
    <3> QED
      BY <2>1, <3>1
  <2> QED
    BY <2>1, <2>2, <2>3
<1>8. stack[c].row = loc[f]
  <2>1. {j \in Activations(f) : j <= c} = Activations(f)
    BY <1>7
  <2> QED
    BY <1>4, <1>6, <2>1 DEF RowsByRank, UpTo
<1>9. v \in Var /\ OwnerOf[v] = f /\ v \notin Raised
  BY <1>2, <1>3, <1>4, NotRaised DEF VarsOf
<1>10. sidx[v] = Level(v) /\ Level(v) < rows[v]
  BY <1>9 DEF Positions
<1>11. Level(v) = IF v \in Stackable THEN loc[f] ELSE 0
  BY <1>9 DEF Level
<1> QED
  BY <1>2, <1>8, <1>10, <1>11

\* What an argument mentions is one row above the call, which is where the body
\* that evaluates it is.
LEMMA ArgumentReads ==
    ASSUME RowsInv
    PROVE  ArgumentRows
<1> USE DEF RowsInv, TypesInv, CallsInv
<1> SUFFICES ASSUME Top.kind = "args", NEW v \in StackedOf(Top.func)
             PROVE  sidx[v] = IF v \in Top.ascended THEN stack[CurrentBody].row ELSE Top.row
  BY DEF ArgumentRows
<1>1. PICK n \in Nat : /\ n = Len(stack) /\ DOMAIN stack = 1 .. n
                       /\ Top = stack[n] /\ n \in 1 .. n /\ Top \in IntFrames
  BY StackFacts, TopTyped DEF ShapeInv
<1>2. PICK f \in Func : f = Top.func
  BY <1>1, FrameFacts
<1>3. v \in Var /\ OwnerOf[v] = f /\ v \in Stackable /\ v \in VarsOf(Top.func)
  BY <1>2 DEF StackedOf, VarsOf
<1>4. n \in Activations(f) /\ ~Unwinding(f)
  BY <1>1, <1>2 DEF Activations, Unwinding
<1>5. loc[f] = Cardinality(Activations(f))
  BY <1>4, LocBounds
<1>6. stack[n].row = loc[f]
  <2>1. \A j \in Activations(f) : j <= n
    BY <1>1 DEF Activations
  <2>2. {j \in Activations(f) : j <= n} = Activations(f)
    BY <2>1
  <2> QED
    BY <1>4, <1>5, <2>2 DEF RowsByRank, UpTo
<1>7. v \in Raised <=> v \in Top.ascended
  BY <1>3, RaisedInArgument
<1>8. Level(v) = loc[f]
  BY <1>3 DEF Level
<1>9. CASE v \notin Top.ascended
  BY <1>1, <1>3, <1>6, <1>7, <1>8, <1>9 DEF Positions
<1>10. CASE v \in Top.ascended
  <2>1. sidx[v] = loc[f] - 1
    BY <1>3, <1>7, <1>8, <1>10 DEF Positions
  <2>2. MentionsOwn(n)
    BY <1>1, <1>10 DEF Ascended, AscendedCalls
  <2>3. PICK c \in 1 .. n - 1 : /\ stack[c].kind = "body"
                                /\ stack[c].row + 1 = stack[n].row
                                /\ \A j \in c + 1 .. n - 1 : stack[j].kind # "body"
    BY <2>2 DEF MentionsOwn
  <2>4. \A j \in c + 1 .. n : stack[j].kind # "body"
    <3>1. \A j \in c + 1 .. n : j = n \/ j \in c + 1 .. n - 1
      OBVIOUS
    <3> QED
      BY <1>1, <2>3, <3>1
  <2>5. CurrentBody = c
    <3>1. c \in 0 .. n /\ stack[c].kind \in {"body"}
          /\ \A j \in c + 1 .. n : stack[j].kind \notin {"body"}
      BY <2>3, <2>4
    <3>2. stack \in Seq(IntFrames)
      BY DEF ShapeInv, StackOK
    <3> QED
      BY <1>1, <3>1, <3>2, InnermostIs DEF CurrentBody, Innermost
  <2>6. stack[c].row \in Int
    BY <1>1, <2>3, StackFacts, FrameFacts DEF ShapeInv
  <2> QED
    BY <1>6, <1>10, <2>1, <2>3, <2>5, <2>6
<1> QED
  BY <1>9, <1>10

\* The code of a function reads its variables in the row of its own activation
\* however many calls have come and gone, in programs without the constructs that
\* upset rows: returns from a scope, an iter or a for, and a call of a function in
\* an argument of that function that mentions its variables.
THEOREM BodiesReadTheirRows ==
    ASSUME RowsUndisturbed
    PROVE  Spec => []BodyRows
<1>1. Init => RowsInv
  BY RowsInit
<1>2. RowsInv /\ [Next]_vars => RowsInv'
  BY RowsSteps
<1>3. RowsInv => BodyRows
  BY BodyReads
<1> QED
  BY <1>1, <1>2, <1>3, PTL DEF Spec

\* An argument reads what it mentions in the row of the caller and writes the
\* parameters in that of the call, in the same programs.
THEOREM ArgumentsReadRows ==
    ASSUME RowsUndisturbed
    PROVE  Spec => []ArgumentRows
<1>1. Init => RowsInv
  BY RowsInit
<1>2. RowsInv /\ [Next]_vars => RowsInv'
  BY RowsSteps
<1>3. RowsInv => ArgumentRows
  BY ArgumentReads
<1> QED
  BY <1>1, <1>2, <1>3, PTL DEF Spec

\* The whole strengthening holds in programs without any of these constructs.
THEOREM Invariance ==
    ASSUME RowsUndisturbed, ContinueOutsideIter
    PROVE  Spec => []IInv
<1>1. Init => RowsInv /\ LoopsInv
  <2> SUFFICES ASSUME Init PROVE RowsInv /\ LoopsInv
    OBVIOUS
  <2>1. RowsInv
    BY RowsInit
  <2>2. LoopsInv
    BY LoopsInit
  <2> QED
    BY <2>1, <2>2
<1>2. RowsInv /\ LoopsInv /\ [Next]_vars => (RowsInv /\ LoopsInv)'
  BY RowsSteps, LoopsSteps
<1>3. RowsInv /\ LoopsInv => IInv
  <2> SUFFICES ASSUME RowsInv, LoopsInv PROVE IInv
    OBVIOUS
  <2>1. TypeOK
    BY TypesTypeOK DEF RowsInv
  <2> QED
    BY <2>1 DEF RowsInv, TypesInv, CallsInv, LoopsInv, ShapeInv, IInv
<1> QED
  BY <1>1, <1>2, <1>3, PTL DEF Spec

=============================================================================
