-------------------------------- MODULE KeyQueue --------------------------------
(***************************************************************************)
(* What the reconciliation of one job may assume of the process around it: *)
(* the informers, the work queue, the workers, the leader election and the *)
(* restarts of the operator.  GroupJobController is written against this   *)
(* promise (its dirty and pc are due and busy of one key); Operator is     *)
(* shown to keep it.                                                       *)
(***************************************************************************)
CONSTANT Keys

VARIABLES
    due,    \* keys that a sync has to follow
    busy,   \* keys that a sync is running for, anywhere in the cluster
    failing \* those of the busy keys whose sync has returned an error

vars == <<due, busy, failing>>

\* An object of the job has changed.
Request(key) == due' = due \cup {key} /\ UNCHANGED <<busy, failing>>

\* A worker takes the key.  Unless the caches lag behind the change, or the
\* queue holds the key twice, the sync is the one that was due.
Begin(key) ==
    /\ key \in due \ busy
    /\ due' \in {due, due \ {key}}
    /\ busy' = busy \cup {key}
    /\ UNCHANGED failing

Fail(key) ==
    /\ key \in busy \ failing
    /\ failing' = failing \cup {key}
    /\ UNCHANGED <<due, busy>>

\* The sync is over; one that returned an error makes another one due.
End(key) ==
    /\ key \in busy
    /\ busy' = busy \ {key}
    /\ failing' = failing \ {key}
    /\ due' = IF key \in failing THEN due \cup {key} ELSE due

\* The operator stops, in the middle of any syncs; whoever takes over lists
\* every job.
Restart ==
    /\ due' = Keys
    /\ \E cut \in SUBSET busy : busy' = busy \ cut /\ failing' = failing \ cut

Init == due \in SUBSET Keys /\ busy = {} /\ failing = {}

Next ==
    \/ \E key \in Keys : Request(key) \/ Begin(key) \/ Fail(key) \/ End(key)
    \/ Restart

\* Whatever the other keys do, a due key is taken.
Fairness == \A key \in Keys : WF_vars(Begin(key))

Safety == Init /\ [][Next]_vars

Spec == Safety /\ Fairness
=============================================================================
