---------------------------- MODULE SubunitCache ----------------------------
(***************************************************************************)
(* A subunit as a cache of its file (Acorn-Core.hpp): load_subunit reads   *)
(* the file when the subunit is empty, acquire_subunit and                 *)
(* read_acquire_subunit load it and lock it for a scope, save_subunit      *)
(* writes the file in place, bounce_subunit writes it and empties the      *)
(* subunit.  Threads (units) that hold a Ptr to the subunit call these in  *)
(* any order; the lock is that of the column, as module RWLock describes   *)
(* it and module ColLock implements it.                                    *)
(*                                                                         *)
(* The content is a set of items: a pool, a row, a message in an inbox.    *)
(* Scripts keep to this: they save within a scope, write only within a     *)
(* scope of acquire, and bounce a subunit only when they see content in    *)
(* it.  bounce_subunit itself writes out whatever there is.                *)
(***************************************************************************)
EXTENDS FiniteSets

CONSTANTS
    Thread,
    Creator,    \* the thread whose load_subunit(path) makes the subunit
    Janitors,   \* threads that bounce
    Item,
    Base,       \* what is in the file at first
    Careful     \* whether scopes look if there is content before they write

ASSUME CreatorAssumption == Creator \in Thread /\ Janitors \subseteq Thread
ASSUME BaseAssumption == Base \subseteq Item /\ Base # {}
ASSUME CarefulAssumption == Careful \in BOOLEAN

VARIABLES
    file,       \* the content of the file
    mem,        \* the content of the subunit
    readers, writers,   \* the lock of the subunit
    pc,         \* where each thread is
    want,       \* what it called load_subunit for
    kept        \* history: what nobody has discarded

vars == <<file, mem, readers, writers, pc, want, kept>>

Lock == INSTANCE RWLock

Wants == {"load", "reload", "acquire", "read_acquire"}
PCs == {"creating", "idle", "loadCheck", "loadLock", "recheck", "loading", "lock",
        "scope", "saving", "bounceLock", "bounceSave", "bounceSaving", "bounceClear"}

TypeOK ==
    /\ file \in SUBSET Item /\ mem \in SUBSET Item /\ kept \in SUBSET Item
    /\ readers \in SUBSET Thread /\ writers \in SUBSET Thread
    /\ pc \in [Thread -> PCs]
    /\ want \in [Thread -> Wants]

\* The subunit has been added to subunits, which holds it for reading.
Init ==
    /\ file = Base /\ mem = {} /\ kept = Base
    /\ Lock!Init
    /\ pc = [t \in Thread |-> IF t = Creator THEN "creating" ELSE "idle"]
    /\ want = [t \in Thread |-> "load"]

At(t, l)   == pc[t] = l
Goto(t, l) == pc' = [pc EXCEPT ![t] = l]

LockUnchanged == UNCHANGED <<readers, writers>>
DataUnchanged == UNCHANGED <<file, mem, kept>>

\* Mutant of Loaded: a reload does not return like a load.
LoadedNotReload(t) == Goto(t, IF want[t] = "load" THEN "idle"
                              ELSE IF want[t] = "reload" THEN "reload" ELSE "lock")

\* The end of load_subunit: its caller goes on to lock, or it was called alone.
Loaded(t) == Goto(t, IF want[t] \in {"load", "reload"} THEN "idle" ELSE "lock")

-----------------------------------------------------------------------------
(* load_subunit *)

\* load_subunit(path) of a new path: the file is loaded before unlock.
Create ==
    /\ At(Creator, "creating")
    /\ mem' = file
    /\ Lock!Release(Creator)
    /\ Goto(Creator, "idle")
    /\ UNCHANGED <<file, want, kept>>

\* load_subunit, load_subunit(.., true), acquire_subunit, read_acquire_subunit.
CallLoad(t, w) ==
    /\ At(t, "idle")
    /\ want' = [want EXCEPT ![t] = w]
    /\ Goto(t, "loadCheck")
    /\ DataUnchanged /\ LockUnchanged

\* if(!subunit->empty() && !overwrite_cache) return, before the lock.
LoadCheck(t) ==
    /\ At(t, "loadCheck")
    /\ IF mem # {} /\ want[t] # "reload" THEN Loaded(t) ELSE Goto(t, "loadLock")
    /\ DataUnchanged /\ LockUnchanged /\ UNCHANGED want

LoadLock(t) ==
    /\ At(t, "loadLock")
    /\ Lock!AcquireWrite(t)
    /\ Goto(t, "recheck")
    /\ DataUnchanged /\ UNCHANGED want

\* Mutant of LoadRecheck: what was seen before the lock is believed.
LoadNoRecheck(t) ==
    /\ At(t, "recheck")
    /\ Goto(t, "loading") /\ LockUnchanged
    /\ DataUnchanged /\ UNCHANGED want

\* The same test again, now with the lock.
LoadRecheck(t) ==
    /\ At(t, "recheck")
    /\ IF mem # {} /\ want[t] # "reload"
       THEN Lock!Release(t) /\ Loaded(t)
       ELSE LockUnchanged /\ Goto(t, "loading")
    /\ DataUnchanged /\ UNCHANGED want

\* load_snapshot_col replaces the columns.  A reload discards what was written
\* since the last save.
LoadFile(t) ==
    /\ At(t, "loading")
    /\ mem' = file
    /\ kept' = IF want[t] = "reload" THEN file ELSE kept
    /\ Lock!Release(t)
    /\ Loaded(t)
    /\ UNCHANGED <<file, want>>

-----------------------------------------------------------------------------
(* Scopes of acquire and read_acquire. *)

\* The second half of acquire_subunit and read_acquire_subunit.
EnterScope(t) ==
    /\ At(t, "lock")
    /\ IF want[t] = "acquire" THEN Lock!AcquireWrite(t) ELSE Lock!AcquireRead(t)
    /\ Goto(t, "scope")
    /\ DataUnchanged /\ UNCHANGED want

Write(t, i) ==
    /\ At(t, "scope")
    /\ want[t] = "acquire"
    /\ Careful => mem # {}
    /\ i \notin mem
    /\ mem' = mem \cup {i}
    /\ kept' = kept \cup {i}
    /\ LockUnchanged /\ UNCHANGED <<file, pc, want>>

LeaveScope(t) ==
    /\ At(t, "scope")
    /\ Lock!Release(t)
    /\ Goto(t, "idle")
    /\ DataUnchanged /\ UNCHANGED want

\* save_subunit: opening the stream truncates the file, then it is written.
OpenFile(t) ==
    /\ \/ At(t, "scope") /\ (Careful => mem # {}) /\ Goto(t, "saving")
       \/ At(t, "bounceSave") /\ Goto(t, "bounceSaving")
    /\ file' = {}
    /\ LockUnchanged /\ UNCHANGED <<mem, want, kept>>

WriteFile(t) ==
    /\ \/ At(t, "saving") /\ Goto(t, "scope")
       \/ At(t, "bounceSaving") /\ Goto(t, "bounceClear")
    /\ file' = mem
    /\ LockUnchanged /\ UNCHANGED <<mem, want, kept>>

-----------------------------------------------------------------------------
(* bounce_subunit *)

CallBounce(t) ==
    /\ At(t, "idle")
    /\ t \in Janitors
    /\ mem # {}
    /\ Goto(t, "bounceLock")
    /\ DataUnchanged /\ LockUnchanged /\ UNCHANGED want

\* Mutant of BounceLock: a reader's lock is enough to save.
BounceReadLock(t) ==
    /\ At(t, "bounceLock")
    /\ Lock!AcquireRead(t)
    /\ Goto(t, "bounceSave")
    /\ DataUnchanged /\ UNCHANGED want

BounceLock(t) ==
    /\ At(t, "bounceLock")
    /\ Lock!AcquireWrite(t)
    /\ Goto(t, "bounceSave")
    /\ DataUnchanged /\ UNCHANGED want

BounceClear(t) ==
    /\ At(t, "bounceClear")
    /\ mem' = {}
    /\ Lock!Release(t)
    /\ Goto(t, "idle")
    /\ UNCHANGED <<file, want, kept>>

Load(t) ==
    \/ \E w \in Wants : CallLoad(t, w)
    \/ LoadCheck(t) \/ LoadLock(t) \/ LoadRecheck(t) \/ LoadFile(t)

Scope(t) ==
    \/ EnterScope(t) \/ LeaveScope(t)
    \/ \E i \in Item : Write(t, i)
    \/ OpenFile(t) \/ WriteFile(t)

Bounce(t) == CallBounce(t) \/ BounceLock(t) \/ BounceClear(t)

Next == Create \/ \E t \in Thread : Load(t) \/ Scope(t) \/ Bounce(t)

Spec == Init /\ [][Next]_vars

-----------------------------------------------------------------------------
(* Properties. *)

\* What was in the file at first or was written in a scope since is still in
\* memory or in the file, unless a reload has discarded it.
NothingLost == kept \subseteq mem \cup file

\* Of several threads that find the subunit empty one loads it: a load never
\* replaces content somebody may have written to.
LoadsOnlyEmpty ==
    \A t \in Thread : At(t, "loading") /\ want[t] # "reload" => mem = {}

\* While a thread is in its scope the content changes only by its own writes:
\* nobody loads, bounces or writes under it.
HeldContentStable ==
    [][\A t \in Thread :
          At(t, "scope") /\ mem' # mem =>
              \E i \in Item : Write(t, i)]_vars

\* A scope of acquire finds the content of the file.
AcquiredIsLoaded == \A t \in Thread : At(t, "scope") => mem # {}
=============================================================================
