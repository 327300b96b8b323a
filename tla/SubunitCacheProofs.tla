------------------------- MODULE SubunitCacheProofs -------------------------
(***************************************************************************)
(* What module SubunitCache promises for any number of threads and items,  *)
(* as long as scopes look before they write and a single thread bounces.   *)
(***************************************************************************)
EXTENDS SubunitCache, TLAPS

\* The clients' discipline: with two threads that bounce, or a scope that
\* writes into an empty subunit, content is lost.
Discipline == Careful /\ \A a, b \in Janitors : a = b

-----------------------------------------------------------------------------
(* The inductive invariant. *)

InScope(t) == pc[t] \in {"scope", "saving"}

\* Which steps of the operations hold the lock, and how.
Writing(t) ==
    \/ pc[t] \in {"recheck", "loading", "bounceSave", "bounceSaving", "bounceClear"}
    \/ InScope(t) /\ want[t] = "acquire"
Reading(t) == pc[t] = "creating" \/ (InScope(t) /\ want[t] = "read_acquire")

\* The lock belongs to the threads at such steps, to one that writes or to
\* some that read.
LockInv ==
    /\ \A t \in Thread : (t \in writers <=> Writing(t)) /\ (t \in readers <=> Reading(t))
    /\ \A t, u \in writers : t = u
    /\ writers = {} \/ readers = {}

\* Only a thread that came to acquire goes on to lock.
WantInv ==
    \A t \in Thread :
        pc[t] \in {"lock", "scope", "saving"} => want[t] \in {"acquire", "read_acquire"}

\* Until the creator unlocks nobody gets past the load.
CreatingInv ==
    \A t \in Thread : At(t, "creating") =>
        /\ t = Creator
        /\ mem = {}
        /\ \A u \in Thread \ {t} : pc[u] \in {"idle", "loadCheck", "loadLock"}

\* The file is empty only while it is written, from content that is there.
SaveInv ==
    /\ file = {} => \E t \in Thread : pc[t] \in {"saving", "bounceSaving"}
    /\ \A t \in Thread : At(t, "saving") => mem # {}

\* A thread that bounces finds the content it saw when it was called.
BounceInv ==
    \A t \in Thread :
        /\ pc[t] \in {"bounceLock", "bounceSave", "bounceSaving", "bounceClear"} =>
              t \in Janitors /\ mem # {}
        /\ At(t, "bounceClear") => file = mem

\* What is kept is all in memory or, if memory is empty, all in the file.
KeptInv == kept \subseteq (IF mem = {} THEN file ELSE mem)

IInv ==
    /\ TypeOK
    /\ LockInv
    /\ WantInv
    /\ CreatingInv
    /\ SaveInv
    /\ BounceInv
    /\ KeptInv
    /\ LoadsOnlyEmpty

-----------------------------------------------------------------------------
(* The invariant is inductive: one lemma for each action, and in it one step *)
(* for each conjunct that the action can disturb.                            *)

\* The initial state: the creator reads, the file has content.
LEMMA InitEstablishes == Init => IInv
<1> SUFFICES ASSUME Init PROVE IInv
  OBVIOUS
<1> USE DEF Init, Lock!Init
<1>1. TypeOK
  BY BaseAssumption, CreatorAssumption DEF TypeOK, PCs, Wants
<1>2. LockInv
  BY CreatorAssumption DEF LockInv, Writing, Reading, InScope
<1>3. WantInv /\ CreatingInv
  BY DEF WantInv, CreatingInv, At
<1>4. SaveInv /\ BounceInv /\ KeptInv /\ LoadsOnlyEmpty
  BY BaseAssumption DEF SaveInv, BounceInv, KeptInv, LoadsOnlyEmpty, At
<1> QED
  BY <1>1, <1>2, <1>3, <1>4 DEF IInv

\* The creator fills the subunit and unlocks: nobody else could get past the load.
LEMMA CreateStep ==
    ASSUME IInv, Create
    PROVE  IInv'
<1> USE DEF IInv, Create, Lock!Release, At, Goto
<1>1. TypeOK'
  BY DEF TypeOK, PCs
<1>2. LockInv'
  BY DEF TypeOK, LockInv, Writing, Reading, InScope
<1>3. SaveInv'
  BY DEF TypeOK, SaveInv, CreatingInv
<1>4. BounceInv'
  BY DEF TypeOK, BounceInv, CreatingInv
<1>5. KeptInv'
  BY DEF TypeOK, KeptInv, CreatingInv
<1>6. LoadsOnlyEmpty'
  BY DEF LoadsOnlyEmpty, LockInv, Writing
<1>7. WantInv' /\ CreatingInv'
  BY DEF WantInv, TypeOK, CreatingInv
<1> QED
  BY <1>1, <1>2, <1>3, <1>4, <1>5, <1>6, <1>7

\* A call touches neither lock nor content.
LEMMA CallLoadStep ==
    ASSUME IInv, NEW t \in Thread, NEW w \in Wants, CallLoad(t, w)
    PROVE  IInv'
<1> USE DEF IInv, CallLoad, DataUnchanged, LockUnchanged, At, Goto
<1>1. TypeOK'
  BY DEF TypeOK, PCs
<1>2. LockInv'
  BY DEF LockInv, Writing, Reading, InScope
<1>3. WantInv' /\ CreatingInv' /\ SaveInv' /\ BounceInv' /\ KeptInv' /\ LoadsOnlyEmpty'
  BY DEF WantInv, CreatingInv, SaveInv, BounceInv, KeptInv, LoadsOnlyEmpty
<1> QED
  BY <1>1, <1>2, <1>3

\* The test before the lock touches neither lock nor content.
LEMMA LoadCheckStep ==
    ASSUME IInv, NEW t \in Thread, LoadCheck(t)
    PROVE  IInv'
<1> USE DEF IInv, LoadCheck, Loaded, DataUnchanged, LockUnchanged, At, Goto
<1>1. TypeOK'
  BY DEF TypeOK, PCs
<1>2. LockInv'
  BY DEF TypeOK, LockInv, Writing, Reading, InScope
<1>3. WantInv'
  BY DEF TypeOK, WantInv, Wants
<1>4. CreatingInv' /\ SaveInv' /\ BounceInv' /\ KeptInv' /\ LoadsOnlyEmpty'
  BY DEF TypeOK, CreatingInv, SaveInv, BounceInv, KeptInv, LoadsOnlyEmpty
<1> QED
  BY <1>1, <1>2, <1>3, <1>4

\* The lock is free of the creator too, so there is no one creating.
LEMMA LoadLockStep ==
    ASSUME IInv, NEW t \in Thread, LoadLock(t)
    PROVE  IInv'
<1> USE DEF IInv, LoadLock, Lock!AcquireWrite, DataUnchanged, At, Goto
<1>1. TypeOK'
  BY DEF TypeOK, PCs
<1>2. LockInv'
  BY DEF TypeOK, LockInv, Writing, Reading, InScope
<1>3. CreatingInv'
  BY DEF CreatingInv, LockInv, Reading
<1>4. WantInv' /\ SaveInv' /\ BounceInv' /\ KeptInv' /\ LoadsOnlyEmpty'
  BY DEF WantInv, SaveInv, BounceInv, KeptInv, LoadsOnlyEmpty
<1> QED
  BY <1>1, <1>2, <1>3, <1>4

\* The test with the lock: what it sees stays true until it unlocks.
LEMMA LoadRecheckStep ==
    ASSUME IInv, NEW t \in Thread, LoadRecheck(t)
    PROVE  IInv'
<1> USE DEF IInv, LoadRecheck, Lock!Release, Loaded, DataUnchanged, LockUnchanged, At, Goto
<1>1. TypeOK'
  BY DEF TypeOK, PCs
<1>2. LockInv'
  BY DEF TypeOK, LockInv, Writing, Reading, InScope
<1>3. WantInv'
  BY DEF TypeOK, WantInv, Wants
<1>4. CreatingInv' /\ SaveInv' /\ BounceInv' /\ KeptInv' /\ LoadsOnlyEmpty'
  BY DEF TypeOK, CreatingInv, SaveInv, BounceInv, KeptInv, LoadsOnlyEmpty
<1> QED
  BY <1>1, <1>2, <1>3, <1>4

\* A load is into an empty subunit, or a reload that discards what is kept.
LEMMA LoadFileStep ==
    ASSUME IInv, NEW t \in Thread, LoadFile(t)
    PROVE  IInv'
<1> USE DEF IInv, LoadFile, Lock!Release, Loaded, At, Goto
<1>1. TypeOK'
  BY DEF TypeOK, PCs
<1>2. LockInv'
  BY DEF TypeOK, LockInv, Writing, Reading, InScope
<1>3. WantInv'
  BY DEF TypeOK, WantInv, Wants
<1>4. SaveInv'
  BY DEF SaveInv, LockInv, Writing, Reading, InScope, WantInv
<1>5. BounceInv'
  BY DEF BounceInv, LockInv, Writing, Reading, InScope, WantInv, SaveInv
<1>6. KeptInv'
  BY DEF KeptInv, LoadsOnlyEmpty
<1>7. LoadsOnlyEmpty'
  BY DEF TypeOK, LoadsOnlyEmpty, LockInv, Writing
<1>8. CreatingInv'
  BY DEF CreatingInv
<1> QED
  BY <1>1, <1>2, <1>3, <1>4, <1>5, <1>6, <1>7, <1>8

\* Entering a scope changes the lock only.
LEMMA EnterScopeStep ==
    ASSUME IInv, NEW t \in Thread, EnterScope(t)
    PROVE  IInv'
<1> USE DEF IInv, EnterScope, Lock!AcquireWrite, Lock!AcquireRead, DataUnchanged, At, Goto
<1>1. TypeOK'
  BY DEF TypeOK, PCs
<1>2. LockInv'
  BY DEF TypeOK, LockInv, Writing, Reading, InScope, WantInv
<1>3. WantInv' /\ CreatingInv' /\ SaveInv' /\ BounceInv' /\ KeptInv' /\ LoadsOnlyEmpty'
  BY DEF WantInv, CreatingInv, SaveInv, BounceInv, KeptInv, LoadsOnlyEmpty
<1> QED
  BY <1>1, <1>2, <1>3

\* Leaving a scope changes the lock only.
LEMMA LeaveScopeStep ==
    ASSUME IInv, NEW t \in Thread, LeaveScope(t)
    PROVE  IInv'
<1> USE DEF IInv, LeaveScope, Lock!Release, DataUnchanged, At, Goto
<1>1. TypeOK'
  BY DEF TypeOK, PCs
<1>2. LockInv'
  BY DEF TypeOK, LockInv, Writing, Reading, InScope
<1>3. WantInv' /\ CreatingInv' /\ SaveInv' /\ BounceInv' /\ KeptInv' /\ LoadsOnlyEmpty'
  BY DEF WantInv, CreatingInv, SaveInv, BounceInv, KeptInv, LoadsOnlyEmpty
<1> QED
  BY <1>1, <1>2, <1>3

\* A write goes into content that is there, with nobody loading or bouncing.
LEMMA WriteStep ==
    ASSUME IInv, Discipline, NEW t \in Thread, NEW i \in Item, Write(t, i)
    PROVE  IInv'
<1> USE DEF IInv, Write, LockUnchanged, At, Goto
<1>1. TypeOK'
  BY DEF TypeOK
<1>2. LockInv'
  BY DEF LockInv, Writing, Reading, InScope
<1>3. BounceInv'
  BY DEF BounceInv, LockInv, Writing, InScope
<1>4. KeptInv'
  BY DEF KeptInv, Discipline
<1>5. LoadsOnlyEmpty'
  BY DEF LoadsOnlyEmpty, LockInv, Writing, InScope
<1>6. WantInv' /\ CreatingInv' /\ SaveInv'
  BY DEF WantInv, CreatingInv, SaveInv
<1> QED
  BY <1>1, <1>2, <1>3, <1>4, <1>5, <1>6

\* The file is truncated only while its content is in memory.
LEMMA OpenFileStep ==
    ASSUME IInv, Discipline, NEW t \in Thread, OpenFile(t)
    PROVE  IInv'
<1> USE DEF IInv, OpenFile, LockUnchanged, At, Goto
<1>1. TypeOK'
  BY DEF TypeOK, PCs
<1>2. LockInv'
  BY DEF TypeOK, LockInv, Writing, Reading, InScope
<1>3. SaveInv'
  BY DEF TypeOK, SaveInv, Discipline
<1>4. BounceInv'
  BY DEF TypeOK, BounceInv, LockInv, Writing, Reading, InScope, WantInv
<1>5. KeptInv'
  BY DEF KeptInv, BounceInv, Discipline
<1>6. WantInv' /\ CreatingInv' /\ LoadsOnlyEmpty'
  BY DEF TypeOK, WantInv, CreatingInv, LoadsOnlyEmpty
<1> QED
  BY <1>1, <1>2, <1>3, <1>4, <1>5, <1>6

\* The file has the content of memory again.
LEMMA WriteFileStep ==
    ASSUME IInv, NEW t \in Thread, WriteFile(t)
    PROVE  IInv'
<1> USE DEF IInv, WriteFile, LockUnchanged, At, Goto
<1>1. TypeOK'
  BY DEF TypeOK, PCs
<1>2. LockInv'
  BY DEF TypeOK, LockInv, Writing, Reading, InScope
<1>3. SaveInv'
  BY DEF SaveInv, BounceInv
<1>4. KeptInv'
  BY DEF KeptInv, SaveInv, BounceInv
<1>5. WantInv' /\ CreatingInv' /\ BounceInv' /\ LoadsOnlyEmpty'
  BY DEF TypeOK, WantInv, CreatingInv, BounceInv, LoadsOnlyEmpty
<1> QED
  BY <1>1, <1>2, <1>3, <1>4, <1>5

\* Bounce is called when there is content.
LEMMA CallBounceStep ==
    ASSUME IInv, NEW t \in Thread, CallBounce(t)
    PROVE  IInv'
<1> USE DEF IInv, CallBounce, DataUnchanged, LockUnchanged, At, Goto
<1>1. TypeOK'
  BY DEF TypeOK, PCs
<1>2. LockInv'
  BY DEF LockInv, Writing, Reading, InScope
<1>3. WantInv' /\ CreatingInv' /\ SaveInv' /\ BounceInv' /\ KeptInv' /\ LoadsOnlyEmpty'
  BY DEF WantInv, CreatingInv, SaveInv, BounceInv, KeptInv, LoadsOnlyEmpty
<1> QED
  BY <1>1, <1>2, <1>3

\* The content is still there: nobody else bounces.
LEMMA BounceLockStep ==
    ASSUME IInv, NEW t \in Thread, BounceLock(t)
    PROVE  IInv'
<1> USE DEF IInv, BounceLock, Lock!AcquireWrite, DataUnchanged, At, Goto
<1>1. TypeOK'
  BY DEF TypeOK, PCs
<1>2. LockInv'
  BY DEF TypeOK, LockInv, Writing, Reading, InScope
<1>3. WantInv' /\ CreatingInv' /\ SaveInv' /\ BounceInv' /\ KeptInv' /\ LoadsOnlyEmpty'
  BY DEF WantInv, CreatingInv, SaveInv, BounceInv, KeptInv, LoadsOnlyEmpty
<1> QED
  BY <1>1, <1>2, <1>3

\* Memory is emptied only when the file has what was in it.
LEMMA BounceClearStep ==
    ASSUME IInv, Discipline, NEW t \in Thread, BounceClear(t)
    PROVE  IInv'
<1> USE DEF IInv, BounceClear, Lock!Release, At, Goto
<1>1. TypeOK'
  BY DEF TypeOK, PCs
<1>2. LockInv'
  BY DEF TypeOK, LockInv, Writing, Reading, InScope
<1>3. SaveInv'
  BY DEF SaveInv, LockInv, Writing, Reading, InScope, WantInv
<1>4. BounceInv'
  BY DEF TypeOK, BounceInv, Discipline
<1>5. KeptInv'
  BY DEF KeptInv, BounceInv
<1>6. WantInv' /\ CreatingInv' /\ LoadsOnlyEmpty'
  BY DEF WantInv, CreatingInv, LoadsOnlyEmpty
<1> QED
  BY <1>1, <1>2, <1>3, <1>4, <1>5, <1>6

\* A stutter keeps everything.
LEMMA StutterStep == IInv /\ UNCHANGED vars => IInv'
BY DEF IInv, vars, TypeOK, LockInv, Writing, Reading, InScope, WantInv, CreatingInv,
       SaveInv, BounceInv, KeptInv, LoadsOnlyEmpty, At

\* Every step of the specification keeps the invariant.
LEMMA NextPreserves == Discipline /\ IInv /\ [Next]_vars => IInv'
<1> SUFFICES ASSUME Discipline, IInv, [Next]_vars PROVE IInv'
  OBVIOUS
<1>1. CASE Create
  BY <1>1, CreateStep
<1>2. ASSUME NEW t \in Thread, Load(t) PROVE IInv'
  BY <1>2, CallLoadStep, LoadCheckStep, LoadLockStep, LoadRecheckStep, LoadFileStep
     DEF Load
<1>3. ASSUME NEW t \in Thread, Scope(t) PROVE IInv'
  BY <1>3, EnterScopeStep, LeaveScopeStep, WriteStep, OpenFileStep, WriteFileStep
     DEF Scope
<1>4. ASSUME NEW t \in Thread, Bounce(t) PROVE IInv'
  BY <1>4, CallBounceStep, BounceLockStep, BounceClearStep DEF Bounce
<1>5. CASE UNCHANGED vars
  BY <1>5, StutterStep
<1> QED
  BY <1>1, <1>2, <1>3, <1>4, <1>5 DEF Next

-----------------------------------------------------------------------------
(* The theorems. *)

\* Lock, file, memory and the history are related as IInv says, in every
\* state that load, acquire, save and bounce reach in any order.
THEOREM Invariance == ASSUME Discipline PROVE Spec => []IInv
<1>1. Init => IInv
  BY InitEstablishes
<1>2. IInv /\ [Next]_vars => IInv'
  BY NextPreserves
<1> QED
  BY <1>1, <1>2, PTL DEF Spec

\* Steps, file, memory and lock stay within their types.
THEOREM TypeCorrect == ASSUME Discipline PROVE Spec => []TypeOK
<1>1. IInv => TypeOK
  BY DEF IInv
<1> QED
  BY <1>1, Invariance, PTL

\* Whatever was in the file or written in a scope of acquire is in memory or
\* in the file, through every bounce and load, unless a reload discarded it.
THEOREM ContentSafe == ASSUME Discipline PROVE Spec => []NothingLost
<1>1. IInv => NothingLost
  BY DEF IInv, KeptInv, NothingLost
<1> QED
  BY <1>1, Invariance, PTL

\* load_subunit reads the file only into an empty subunit: its second test,
\* with the lock, is what makes the first one, without it, harmless.
THEOREM LoadSafe == ASSUME Discipline PROVE Spec => []LoadsOnlyEmpty
<1>1. IInv => LoadsOnlyEmpty
  BY DEF IInv
<1> QED
  BY <1>1, Invariance, PTL

\* A step that changes the content while t is in its scope is a write of t:
\* the scope's lock keeps load, reload, bounce and other writers out.
LEMMA ScopeStable ==
    ASSUME IInv, [Next]_vars, NEW t \in Thread, At(t, "scope"), mem' # mem
    PROVE  \E i \in Item : Write(t, i)
<1> USE DEF IInv
<1>1. t \in readers \cup writers /\ want[t] \in {"acquire", "read_acquire"}
  BY DEF LockInv, WantInv, Writing, Reading, InScope, At
<1>2. \A u \in Thread : u \in writers => u = t
  BY <1>1 DEF LockInv
<1>3. ~Create
  BY CreatorAssumption DEF Create, CreatingInv, At
<1>4. ASSUME NEW u \in Thread, LoadFile(u) \/ BounceClear(u) PROVE FALSE
  BY <1>2, <1>4 DEF LoadFile, BounceClear, LockInv, Writing, At
<1>5. ASSUME NEW u \in Thread, NEW i \in Item, Write(u, i) PROVE u = t
  BY <1>2, <1>5 DEF Write, LockInv, Writing, InScope, At
<1>6. PICK u \in Thread : LoadFile(u) \/ BounceClear(u) \/ \E i \in Item : Write(u, i)
  BY <1>3 DEF Next, Load, Scope, Bounce, vars, CallLoad, LoadCheck, LoadLock, LoadRecheck,
              EnterScope, LeaveScope, OpenFile, WriteFile, CallBounce, BounceLock,
              DataUnchanged
<1> QED
  BY <1>4, <1>5, <1>6

\* Between the entry and the end of its scope a thread finds the content as
\* it left it.
THEOREM ScopeSafe == ASSUME Discipline PROVE Spec => HeldContentStable
<1>1. IInv /\ [Next]_vars =>
        [\A t \in Thread : At(t, "scope") /\ mem' # mem =>
              \E i \in Item : Write(t, i)]_vars
  BY ScopeStable
<1> QED
  BY <1>1, Invariance, PTL DEF Spec, HeldContentStable
=============================================================================
