------------------------------ MODULE ColLock ------------------------------
(***************************************************************************)
(* The reader-writer lock in the atomic byte Col::live of Acorn-Type.hpp,  *)
(* one step per atomic access: try_lock and try_read in their three forms  *)
(* (one attempt, for a time, forever) and unlock.  The top bit of the byte *)
(* (128 in the code, WBit here) is the writer's, the rest counts readers.  *)
(*                                                                         *)
(* A writer that waits takes the bit first, which keeps new readers out,   *)
(* and then waits for the readers inside to leave.  unlock is one function *)
(* for both: it looks at the byte to find out who is calling.              *)
(*                                                                         *)
(* Time is abstracted: a thread with the timed form may give up wherever   *)
(* the code tests the clock.  Users unlock what they acquired, once; that  *)
(* is what acquire, read_acquire and the try_..._then functions do, and    *)
(* what scripts that call unlock themselves must keep to.                  *)
(***************************************************************************)
EXTENDS Integers, FiniteSets

CONSTANTS
    Thread,
    Creator,        \* the thread that made the column
    WBit            \* 128 in the code

ASSUME ThreadAssumption == IsFiniteSet(Thread) /\ Creator \in Thread
ASSUME WBitAssumption == WBit \in Nat \ {0, 1}

VARIABLES
    live,   \* Col::live, a uint8_t: 0 .. 2 * WBit - 1
    pc,     \* where each thread is
    mode,   \* the form of its current try_lock or try_read
    cur     \* its local variable cur

vars == <<live, pc, mode, cur>>

Modes == {"once", "timed", "forever"}
PCs == {"idle", "lockOnce", "lockLoad", "lockCas", "drain", "writing", "clear",
        "readLoad", "readCas", "reading", "sub"}

Readers == {t \in Thread : pc[t] \in {"reading", "sub"}}
Writers == {t \in Thread : pc[t] \in {"writing", "clear"}}

\* Threads that have set the writer's bit and not given up.
BitHolders == {t \in Thread : pc[t] = "drain"} \cup Writers

\* Going on inside a call with cur loaded or no longer needed, and returning.
\* Locals that are not needed any more are reset, to tell fewer states apart.
GotoWith(t, l, c) ==
    /\ pc' = [pc EXCEPT ![t] = l]
    /\ cur' = [cur EXCEPT ![t] = c]
    /\ UNCHANGED mode
Goto(t, l) == GotoWith(t, l, 0)
Return(t, l) ==
    /\ pc' = [pc EXCEPT ![t] = l]
    /\ cur' = [cur EXCEPT ![t] = 0]
    /\ mode' = [mode EXCEPT ![t] = "once"]

TypeOK ==
    /\ live \in 0 .. 2 * WBit - 1
    /\ pc \in [Thread -> PCs]
    /\ mode \in [Thread -> Modes]
    /\ cur \in [Thread -> 0 .. 2 * WBit - 1]

\* live = true: a new column counts one reader, the thread that made it
\* (load_subunit unlocks what it made when it is loaded).
Init ==
    /\ live = 1
    /\ pc = [t \in Thread |-> IF t = Creator THEN "reading" ELSE "idle"]
    /\ mode = [t \in Thread |-> "once"]
    /\ cur = [t \in Thread |-> 0]

-----------------------------------------------------------------------------
(* try_lock(wait_for) *)

\* The call: wait_for = 0, > 0 or < 0.
BeginLock(t, m) ==
    /\ pc[t] = "idle"
    /\ mode' = [mode EXCEPT ![t] = m]
    /\ pc' = [pc EXCEPT ![t] = IF m = "once" THEN "lockOnce" ELSE "lockLoad"]
    /\ UNCHANGED <<live, cur>>

\* Mutant of LockOnce: the attempt only looks at the writer's bit.
LockOnceOverReaders(t) ==
    /\ pc[t] = "lockOnce"
    /\ \/ live < WBit /\ live' = WBit /\ Return(t, "writing")
       \/ live >= WBit /\ Return(t, "idle") /\ UNCHANGED live

\* compare_exchange_strong(0, 128).
LockOnce(t) ==
    /\ pc[t] = "lockOnce"
    /\ \/ live = 0 /\ live' = WBit /\ Return(t, "writing")
       \/ live # 0 /\ Return(t, "idle") /\ UNCHANGED live

\* Mutant of LockLoad: another writer's bit is not looked at.
LockLoadAnyway(t) ==
    /\ pc[t] = "lockLoad"
    /\ GotoWith(t, "lockCas", live)
    /\ UNCHANGED live

\* cur = live.load(): another writer's bit ends the timed form, the other
\* form reads again.
LockLoad(t) ==
    /\ pc[t] = "lockLoad"
    /\ \/ live < WBit /\ GotoWith(t, "lockCas", live)
       \/ live >= WBit /\ mode[t] = "timed" /\ Return(t, "idle")
       \/ live >= WBit /\ mode[t] = "forever" /\ Goto(t, "lockLoad")
    /\ UNCHANGED live

\* Mutant of LockCas: load and store instead of a compare and exchange.
LockStore(t) ==
    /\ pc[t] = "lockCas"
    /\ live' = cur[t] + WBit
    /\ Goto(t, "drain")

\* compare_exchange_weak(cur, cur | 128), which may fail without reason.
LockCas(t) ==
    /\ pc[t] = "lockCas"
    /\ \/ live = cur[t] /\ live' = cur[t] + WBit /\ Goto(t, "drain")
       \/ Goto(t, "lockLoad") /\ UNCHANGED live

\* Mutant of Drain: the last reader is not waited for.
DrainOneEarly(t) ==
    /\ pc[t] = "drain"
    /\ live \in {WBit, WBit + 1}
    /\ Return(t, "writing")
    /\ UNCHANGED live

\* live.load() == 128: the last reader has left.
Drain(t) ==
    /\ pc[t] = "drain"
    /\ live = WBit
    /\ Return(t, "writing")
    /\ UNCHANGED live

\* The time is up: the function returns false.  A bit it has set stays set.
LockTimeout(t) ==
    /\ pc[t] \in {"lockLoad", "drain"}
    /\ mode[t] = "timed"
    /\ Return(t, "idle")
    /\ UNCHANGED live

-----------------------------------------------------------------------------
(* try_read(wait_for) *)

BeginRead(t, m) ==
    /\ pc[t] = "idle"
    /\ mode' = [mode EXCEPT ![t] = m]
    /\ pc' = [pc EXCEPT ![t] = "readLoad"]
    /\ UNCHANGED <<live, cur>>

\* Mutant of ReadLoad: readers are let in while a writer waits.
ReadLoadAnyway(t) ==
    /\ pc[t] = "readLoad"
    /\ GotoWith(t, "readCas", live)
    /\ UNCHANGED live

\* cur = live.load(): 127 and more (a full count or a writer) keep readers out.
ReadLoad(t) ==
    /\ pc[t] = "readLoad"
    /\ \/ live < WBit - 1 /\ GotoWith(t, "readCas", live)
       \/ live >= WBit - 1 /\ mode[t] = "once" /\ Return(t, "idle")
       \/ live >= WBit - 1 /\ mode[t] # "once" /\ Goto(t, "readLoad")
    /\ UNCHANGED live

\* compare_exchange(cur, cur + 1).  A failure ends the form with one attempt,
\* whose exchange is the strong one; the others read again.
ReadCas(t) ==
    /\ pc[t] = "readCas"
    /\ \/ live = cur[t] /\ live' = cur[t] + 1 /\ Return(t, "reading")
       \/ live # cur[t] /\ mode[t] = "once" /\ Return(t, "idle") /\ UNCHANGED live
       \/ mode[t] # "once" /\ Goto(t, "readLoad") /\ UNCHANGED live

ReadTimeout(t) ==
    /\ pc[t] = "readLoad"
    /\ mode[t] = "timed"
    /\ Return(t, "idle")
    /\ UNCHANGED live

-----------------------------------------------------------------------------
(* unlock *)

\* cur = live.load(): exactly 128 can only be seen by the writer.
UnlockLoad(t) ==
    /\ pc[t] \in {"reading", "writing"}
    /\ Goto(t, IF live = WBit THEN "clear" ELSE "sub")
    /\ UNCHANGED live

\* Mutant of UnlockClear: the writer subtracts like a reader.
UnlockClearSub(t) ==
    /\ pc[t] = "clear"
    /\ live' = live - 1
    /\ Return(t, "idle")

\* live.store(0)
UnlockClear(t) ==
    /\ pc[t] = "clear"
    /\ live' = 0
    /\ Return(t, "idle")

\* live.fetch_sub(1), modulo 256.
UnlockSub(t) ==
    /\ pc[t] = "sub"
    /\ live' = IF live = 0 THEN 2 * WBit - 1 ELSE live - 1
    /\ Return(t, "idle")

Begin(t) == \E m \in Modes : BeginLock(t, m) \/ BeginRead(t, m)

Lock(t)   == LockOnce(t) \/ LockLoad(t) \/ LockCas(t) \/ Drain(t) \/ LockTimeout(t)
Read(t)   == ReadLoad(t) \/ ReadCas(t) \/ ReadTimeout(t)
Unlock(t) == UnlockLoad(t) \/ UnlockClear(t) \/ UnlockSub(t)

Next == \E t \in Thread : Begin(t) \/ Lock(t) \/ Read(t) \/ Unlock(t)

Spec == Init /\ [][Next]_vars

\* A thread inside a call, or holding the lock, goes on: the scheduler runs
\* every thread and the work done under the lock ends.  Nobody has to call.
FairSpec == Spec /\ \A t \in Thread : WF_vars(Lock(t) \/ Read(t) \/ Unlock(t))

-----------------------------------------------------------------------------
(* Properties. *)

\* A writer is alone: what acquire promises to the scope it runs.
MutualExclusion ==
    /\ Writers # {} => Readers = {}
    /\ \A t, u \in Writers : t = u

\* Writer preference: a thread of try_lock_forever that has set the bit gets
\* the lock, however many readers keep calling.
PendingWriterEnters ==
    \A t \in Thread : (pc[t] = "drain" /\ mode[t] = "forever") ~> pc[t] = "writing"

\* The bit belongs to a thread that waits for the readers to leave or writes:
\* those who see it "wait for other writters to finish".  It stays behind
\* without such a thread only when a timed try_lock that has set it gives up.
OnlyTimeoutsLeaveBit ==
    [][live' >= WBit /\ BitHolders' = {} =>
          \/ live >= WBit /\ BitHolders = {}
          \/ \E t \in Thread : pc[t] = "drain" /\ mode[t] = "timed"]_vars

\* The bit is cleared again unless it was left behind that way, so that nobody
\* is kept out for good.
BitClears == (live >= WBit) ~> (live < WBit \/ BitHolders = {})

\* The byte is the readers plus the bit, and a holder of the bit has set it.
CountExact ==
    \/ live = Cardinality(Readers) /\ BitHolders = {}
    \/ live = Cardinality(Readers) + WBit

\* The count never reaches the bit.
ReadersFit == Cardinality(Readers) < WBit

OneBitHolder == \A t, u \in BitHolders : t = u

WriterAlone == Writers # {} => Readers = {}

\* The value a thread is about to exchange is one it may add to.
CasGuarded ==
    \A t \in Thread :
        /\ pc[t] = "lockCas" => cur[t] < WBit
        /\ pc[t] = "readCas" => cur[t] < WBit - 1

\* The inductive invariant.
IInv ==
    /\ TypeOK
    /\ CountExact
    /\ ReadersFit
    /\ OneBitHolder
    /\ WriterAlone
    /\ CasGuarded

Abstract == INSTANCE RWLock WITH readers <- Readers, writers <- Writers

\* The byte behaves like a lock with a set of readers and a writer.
ImplementsRWLock == Abstract!Spec
=============================================================================
