---------------------------- MODULE SubunitStore ----------------------------
(***************************************************************************)
(* What a subunit promises to the scripts that keep data in it, whether    *)
(* its columns happen to be in memory or in its file: a pool is found by   *)
(* its label; unloading and loading are invisible; a save makes what there *)
(* is survive the end of the process; a reload goes back to the last save. *)
(* The price is in the specification too: while the file is being written  *)
(* nothing is saved.                                                       *)
(***************************************************************************)
EXTENDS SubunitContent

CONSTANT Torn   \* a file whose writing has begun and not ended

VARIABLES
    content,    \* what the subunit holds; Torn when it is gone for good
    saved,      \* what a new process would find
    up,         \* is there a process
    broken      \* a step outside the promise has been taken

vars == <<content, saved, up, broken>>

Init ==
    /\ content \in Content /\ content # <<>>
    /\ saved = content
    /\ up = FALSE
    /\ broken = FALSE

AddPool(l) ==
    /\ ~HasLabel(content, l)
    /\ content' = AddedPool(content, l)

Take(p) ==
    /\ CanCreate(content[p].pool)
    /\ content' = Taken(content, p)

Work ==
    /\ up /\ content \in Content
    /\ \/ \E l \in Label : AddPool(l) \/ \E p \in DOMAIN content :
                              content[p].label = l /\ Take(p)
       \/ \E p \in DOMAIN content, i \in Column :
             \/ \E d \in Datum : content' = Stored(content, p, i, d)
             \/ content' = Recycled(content, p, i)
    /\ UNCHANGED <<saved, up, broken>>

BeginSave ==
    /\ up
    /\ saved' = Torn
    /\ UNCHANGED <<content, up, broken>>

EndSave ==
    /\ up /\ saved = Torn
    /\ saved' = content
    /\ UNCHANGED <<content, up, broken>>

Reload ==
    /\ up /\ saved # Torn
    /\ content' = saved
    /\ UNCHANGED <<saved, up, broken>>

Crash ==
    /\ up
    /\ content' = saved
    /\ up' = FALSE
    /\ UNCHANGED <<saved, broken>>

Restart ==
    /\ ~up /\ saved # Torn
    /\ up' = TRUE
    /\ UNCHANGED <<content, saved, broken>>

\* Nothing is promised once a reload has taken pools away or the unloaded
\* subunit has been saved.
Break == up /\ ~broken /\ broken' = TRUE
Broken == broken /\ broken'

Next ==
    \/ Work \/ BeginSave \/ EndSave \/ Reload \/ Crash \/ Restart
    \/ Break \/ Broken

Spec == Init /\ [][Next]_vars
=============================================================================
