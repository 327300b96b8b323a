-------------------------- MODULE ColumnAllocator --------------------------
(***************************************************************************)
(* What the column pools promise to the rest of the program.  Every        *)
(* allocation is a fresh identity, a place in one of its uses, that no     *)
(* outstanding Ptr denotes.  A Ptr is either exclusive to one client or    *)
(* shared (copied into nodes, scopes, values); recycling through a shared  *)
(* Ptr ends its own identity and nothing else, so a stale one is harmless. *)
(* The exception is a stray: a Ptr issued under an error may name a place  *)
(* that is somebody's, and from then on the unchecked recycles of that     *)
(* place, and of no other, end whatever identity it has.                   *)
(***************************************************************************)
CONSTANTS Client, Place, Use

VARIABLES
    live,       \* identities of the columns in use
    own,        \* own[cl]: identities only cl holds
    shared,     \* identities that any client may hold a copy of
    strays,     \* places that Ptrs issued under an error name
    err         \* ERROR_FLAG

vars == <<live, own, shared, strays, err>>

Outstanding == shared \cup UNION {own[cl] : cl \in Client}

At(p) == {id \in live : id[1] = p}

\* Identities nobody denotes, of places nobody uses.
Fresh == {id \in Place \X Use : id \notin Outstanding /\ At(id[1]) = {}}

\* What the exclusive holder ends: nothing but its own, where it has no rival.
Ended(id) == IF id[1] \in strays THEN At(id[1]) ELSE {id}

Init ==
    /\ live = {}
    /\ own = [cl \in Client |-> {}]
    /\ shared = {}
    /\ strays = {}
    /\ err = FALSE

Allocate(cl) ==
    /\ ~err
    /\ \E id \in Fresh :
          /\ live' = live \cup {id}
          /\ own' = [own EXCEPT ![cl] = @ \cup {id}]
    /\ UNCHANGED <<shared, strays, err>>

\* Under an error at most one place is used up and some place is given away.
Misallocate ==
    /\ err
    /\ live' = live \/ \E id \in Fresh : live' = live \cup {id}
    /\ \E p \in Place : strays' = strays \cup {p}
    /\ UNCHANGED <<own, shared, err>>

Share(cl, id) ==
    /\ id \in own[cl]
    /\ own' = [own EXCEPT ![cl] = @ \ {id}]
    /\ shared' = shared \cup {id}
    /\ UNCHANGED <<live, strays, err>>

Release(cl, id) ==
    /\ id \in own[cl]
    /\ live' = IF err THEN live ELSE live \ Ended(id)
    /\ own' = [own EXCEPT ![cl] = @ \ {id}]
    /\ shared' = shared \cup {id}
    /\ UNCHANGED <<strays, err>>

ReleaseShared(id) ==
    /\ id \in shared
    /\ live' = IF err THEN live ELSE live \ {id}
    /\ UNCHANGED <<own, shared, strays, err>>

\* The checked recycle of a whole record reports a dead identity.
ReleaseOrFail(id) ==
    /\ id \in shared
    /\ ~err
    /\ IF id \in live
       THEN live' = live \ {id} /\ UNCHANGED err
       ELSE err' = TRUE /\ UNCHANGED live
    /\ UNCHANGED <<own, shared, strays>>

ReleaseStray(p) ==
    /\ p \in strays
    /\ ~err
    /\ live' = live \ At(p)
    /\ UNCHANGED <<own, shared, strays, err>>

Forget(id) ==
    /\ id \in shared \ live
    /\ shared' = shared \ {id}
    /\ UNCHANGED <<live, own, strays, err>>

ReleaseAll ==
    /\ live' = {}
    /\ own' = [cl \in Client |-> {}]
    /\ shared' = Outstanding
    /\ UNCHANGED <<strays, err>>

SetError(e) == err' = e /\ UNCHANGED <<live, own, shared, strays>>

Next ==
    \/ \E cl \in Client :
          \/ Allocate(cl)
          \/ \E id \in own[cl] : Share(cl, id) \/ Release(cl, id)
    \/ \E id \in shared : ReleaseShared(id) \/ ReleaseOrFail(id) \/ Forget(id)
    \/ Misallocate
    \/ \E p \in strays : ReleaseStray(p)
    \/ ReleaseAll
    \/ \E e \in BOOLEAN : SetError(e)

Spec == Init /\ [][Next]_vars
=============================================================================
