----------------------------- MODULE MCJobObjects -----------------------------
(* Instances of JobObjects for TLC.                                        *)
EXTENDS JobObjects

\* Classes "high" and "low" exist, "gone" does not.
Classes == [high |-> 2, low |-> 1]

Lists == UNION {[some -> 0 .. 3] : some \in {{"cpu"}, {"cpu", "gpu"}}}

Container(cpus, gpus) ==
    [requests |-> [cpu |-> cpus], limits |-> [cpu |-> cpus + 1, gpu |-> gpus]]

Replica(containers, class) ==
    [replicas |-> Absent, restartPolicy |-> Absent, containers |-> containers,
     priorityClass |-> class]

\* All that a user has to give.
Minimal ==
    [length |-> 10,
     launcher |-> Replica(<<Container(1, 0)>>, Absent),
     worker |-> Absent,
     slotsPerWorker |-> Absent, runLauncherAsWorker |-> FALSE,
     sshAuthMountPath |-> Absent, mpiImplementation |-> Absent,
     launcherCreationPolicy |-> Absent, cleanPodPolicy |-> Absent,
     limits |-> [l \in Limits |-> Absent], managedBy |-> Absent,
     minAvailable |-> Absent, minResources |-> Absent, policyPriorityClass |-> Absent]

Workers(n, class) ==
    [Replica(<<Container(2, 1), Container(1, 0)>>, class) EXCEPT !.replicas = n]

\* Names around the limit, gangs of several sizes and priorities.
Scaled ==
    {[Minimal EXCEPT !.length = length, !.worker = Workers(n, Absent),
                     !.runLauncherAsWorker = asWorker, !.launcherCreationPolicy = policy] :
        length \in 53 .. 55, n \in 1 .. 3, asWorker \in BOOLEAN,
        policy \in {Absent, "WaitForWorkersReady"}}

GangOf(n, launcherClass, workerClass, minAvailable) ==
    [Minimal EXCEPT !.worker = Workers(n, workerClass), !.launcher.priorityClass = launcherClass,
                    !.minAvailable = minAvailable]

\* Gangs of every size below, at and above the job's, in which the launcher comes
\* first, last, or neither; and classes that are unknown or not given.
Gangs ==
    {GangOf(n, class, "low", minAvailable) :
        n \in {1, 3}, class \in {"high", "low"}, minAvailable \in {Absent, 0, 2, 5}}
    \cup {GangOf(n, "low", "high", minAvailable) : n \in {1, 3}, minAvailable \in {Absent, 2}}
    \cup {GangOf(1, class, high, Absent) :
            class \in {"high", "gone", Absent}, high \in {"high", "gone", Absent}}

\* One field at a time.
Variants ==
    {[Minimal EXCEPT !.length = length] : length \in {54, 55}}
    \cup {[Minimal EXCEPT !.worker = Workers(n, Absent)] : n \in {Absent, -1, 0}}
    \cup {[Minimal EXCEPT !.launcher.replicas = n] : n \in {0, 1, 2}}
    \cup {[Minimal EXCEPT !.launcher.restartPolicy = r] :
            r \in {"Always", "OnFailure", "Never", "ExitCode"}}
    \cup {[Minimal EXCEPT !.launcher = Absent], [Minimal EXCEPT !.launcher.containers = <<>>]}
    \cup {[Minimal EXCEPT !.slotsPerWorker = n] : n \in {-1, 0, 2}}
    \cup {[Minimal EXCEPT !.mpiImplementation = i, !.runLauncherAsWorker = TRUE] :
            i \in {"OpenMPI", "Intel", "MPICH", "other"}}
    \cup {[Minimal EXCEPT !.cleanPodPolicy = p] : p \in {"All", "other"}}
    \cup {[Minimal EXCEPT !.limits[l] = n] : l \in Limits, n \in {-1, 0}}
    \cup {[Minimal EXCEPT !.managedBy = m] :
            m \in {"kubeflow.org/group-operator", "kueue.x-k8s.io/multikueue", "other"}}
    \cup {[Minimal EXCEPT !.minResources = [cpu |-> 1], !.policyPriorityClass = "high"]}

AllSpecs == {Minimal} \cup Scaled \cup Gangs \cup Variants

\* Operators with Volcano, and a few cases for the others.
AllSubmissions ==
    {[scheduler |-> "volcano", spec |-> s] : s \in AllSpecs}
    \cup {[scheduler |-> other, spec |-> [Minimal EXCEPT !.worker = Workers(n, "high")]] :
            other \in {"scheduler-plugins", Absent}, n \in {1, 2}}

Edits == {0, 1, 3}
=============================================================================
