------------------------------- MODULE RWLock -------------------------------
(***************************************************************************)
(* What the lock of a column promises its users: readers, or one writer.   *)
(* It has no source of its own, module ColLock implements it.              *)
(***************************************************************************)
CONSTANTS Thread, Creator

VARIABLES
    readers,    \* threads that hold the lock for reading
    writers     \* threads that hold it for writing, at most one

\* A new column is held for reading by whoever makes it.
Init == readers = {Creator} /\ writers = {}

AcquireRead(t) ==
    /\ writers = {}
    /\ t \notin readers
    /\ readers' = readers \cup {t}
    /\ UNCHANGED writers

AcquireWrite(t) ==
    /\ readers = {} /\ writers = {}
    /\ writers' = {t}
    /\ UNCHANGED readers

Release(t) ==
    /\ t \in readers \cup writers
    /\ readers' = readers \ {t}
    /\ writers' = writers \ {t}

Next == \E t \in Thread : AcquireRead(t) \/ AcquireWrite(t) \/ Release(t)

Spec == Init /\ [][Next]_<<readers, writers>>
=============================================================================
