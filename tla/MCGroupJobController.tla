------------------------ MODULE MCGroupJobController ------------------------
(***************************************************************************)
(* Instances of GroupJobController for TLC: the specs users give the job.  *)
(***************************************************************************)
EXTENDS GroupJobController

S(replicas, suspend, clean, creation) ==
    [replicas |-> replicas, suspend |-> suspend, cleanPodPolicy |-> clean,
     launcherCreationPolicy |-> creation, reconciled |-> TRUE]

\* One job, suspended and resumed.
SuspendSpecs == {S(1, suspend, "Running", "AtStartup") : suspend \in BOOLEAN}

\* One job, scaled between one and two workers, whose launcher waits for them.
\* One version of its spec does not pass validation.
ScalingSpecs == {S(n, FALSE, "None", "WaitForWorkersReady") : n \in 1 .. 2} \cup
    {[S(1, FALSE, "None", "WaitForWorkersReady") EXCEPT !.reconciled = FALSE]}

\* One gang-scheduled job, scaled or suspended.
GangSpecs == {S(0, FALSE, "All", "AtStartup"), S(1, FALSE, "All", "AtStartup"),
              S(1, TRUE, "All", "AtStartup")}

\* A job created suspended whose launcher must wait for the workers.
WaitingSpecs == {S(1, suspend, "None", "WaitForWorkersReady") : suspend \in BOOLEAN}
=============================================================================
