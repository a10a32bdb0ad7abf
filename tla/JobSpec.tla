-------------------------------- MODULE JobSpec --------------------------------
(***************************************************************************)
(* The spec of a GroupJob, its defaults                                    *)
(* (pkg/apis/kubeflow/v2beta1/default.go) and its validation               *)
(* (pkg/apis/kubeflow/validation/validation.go).                           *)
(*                                                                         *)
(* Absent stands for a nil pointer and for an empty string.  A name is     *)
(* known by its length, and indices are written with Radix digits: what    *)
(* can be wrong with a name that an API server has accepted is that it is  *)
(* too long once the controller has appended to it.                        *)
(***************************************************************************)
EXTENDS Integers, Sequences

CONSTANTS
    Absent,         \* no value
    Radix,          \* digits of an index; 10 in the code
    ResourceLists   \* what a container may ask for: functions from resources to quantities

\* Absent is told apart from every value that SetDefaults fills in.
ASSUME AbsentAssumption ==
    Absent \notin Int \cup {"Never", "OnFailure", "None", "AtStartup", "OpenMPI", "/root/.ssh"}

ASSUME RadixAssumption == Radix \in Nat /\ Radix > 1

\* A DNS label has at most 63 characters.
MaxLabel == 63

Power[d \in Nat] == IF d = 0 THEN 1 ELSE Radix * Power[d - 1]

\* The number of digits of an index.
Digits(n) ==
    IF n = 0 THEN 1
    ELSE CHOOSE d \in 1 .. n : Power[d - 1] <= n /\ n < Power[d]

\* The lengths of what the controller appends to the job's name: "-worker-",
\* "-launcher", "-config" and "-ssh".
SuffixLengths == [none |-> 0, worker |-> 8, launcher |-> 9, config |-> 7, ssh |-> 4]

\* The name of an object of the job; only workers are numbered.
Name(suffix, index) == [suffix |-> suffix, index |-> index]

NameLength(length, name) ==
    length + SuffixLengths[name.suffix] + IF name.suffix = "worker" THEN Digits(name.index) ELSE 0

workerName(index) == Name("worker", index)

-----------------------------------------------------------------------------
(* A ReplicaSpec has replicas, a restartPolicy, and of its pod template    *)
(* the containers and the priority class.  A spec has the length of the    *)
(* job's name and the fields of GroupJobSpec and RunPolicy, of which       *)
(* limits has the three bounds that are handed to the launcher's Job.      *)

CleanPodPolicies == {"All", "Running", "None"}

MPIImplementations == {"OpenMPI", "Intel", "MPICH"}

ReplicaTypes == {"launcher", "worker"}

\* Who may be asked to manage a job: this operator or MultiKueue.
Managers == {"kubeflow.org/group-operator", "kueue.x-k8s.io/multikueue"}

Limits == {"ttlSecondsAfterFinished", "activeDeadlineSeconds", "backoffLimit"}

Values(S) == S \cup {Absent}

ReplicaSpecType ==
    [replicas : Values(Int),
     restartPolicy : Values({"Always", "OnFailure", "Never", "ExitCode"}),
     containers : Seq([requests : ResourceLists, limits : ResourceLists]),
     priorityClass : Values(STRING)]

SpecType ==
    [length : Nat,
     launcher : Values(ReplicaSpecType), worker : Values(ReplicaSpecType),
     slotsPerWorker : Values(Int),
     runLauncherAsWorker : BOOLEAN,
     sshAuthMountPath : Values(STRING),
     mpiImplementation : Values(STRING),
     launcherCreationPolicy : Values(STRING),
     cleanPodPolicy : Values(STRING),
     limits : [Limits -> Values(Int)],
     managedBy : Values(STRING),
     minAvailable : Values(Int),
     minResources : Values(ResourceLists),
     policyPriorityClass : Values(STRING)]

-----------------------------------------------------------------------------
(* Defaults.                                                               *)

OrElse(value, default) == IF value = Absent THEN default ELSE value

setDefaultsReplicas(spec, restartPolicy, replicas) ==
    IF spec = Absent THEN Absent
    ELSE [spec EXCEPT !.restartPolicy = OrElse(@, restartPolicy),
                      !.replicas = OrElse(@, replicas)]

\* Mutant of setDefaultsTypeLauncher: the defaults of the workers.
MutSetDefaultsTypeLauncher(spec) == setDefaultsReplicas(spec, "Never", 0)

setDefaultsTypeLauncher(spec) == setDefaultsReplicas(spec, "OnFailure", 1)

setDefaultsTypeWorker(spec) == setDefaultsReplicas(spec, "Never", 0)

\* SetDefaults_GroupJob with setDefaultsRunPolicy.
SetDefaults(spec) ==
    [spec EXCEPT !.cleanPodPolicy = OrElse(@, "None"),
                 !.slotsPerWorker = OrElse(@, 1),
                 !.sshAuthMountPath = OrElse(@, "/root/.ssh"),
                 !.mpiImplementation = OrElse(@, "OpenMPI"),
                 !.launcherCreationPolicy = OrElse(@, "AtStartup"),
                 !.launcher = setDefaultsTypeLauncher(@),
                 !.worker = setDefaultsTypeWorker(@)]

-----------------------------------------------------------------------------
(* Copies (zz_generated.deepcopy.go).  addGroupJob sets the defaults in the *)
(* object of the informer's cache while a worker may be copying it, field   *)
(* by field and without a lock: a copy holds of every field the value       *)
(* before or after.  (A string is two words; a worker that reads one torn   *)
(* apart dies, and leaves nothing behind.)                                  *)

ReplicaSpecCopies(spec, defaulted) ==
    IF spec = Absent THEN {Absent}
    ELSE {[spec EXCEPT !.replicas = replicas, !.restartPolicy = restartPolicy] :
            replicas \in {spec.replicas, defaulted.replicas},
            restartPolicy \in {spec.restartPolicy, defaulted.restartPolicy}}

\* The one field of a RunPolicy that has a default.
RunPolicyCopies(spec, defaulted) ==
    {[spec EXCEPT !.cleanPodPolicy = policy] :
        policy \in {spec.cleanPodPolicy, defaulted.cleanPodPolicy}}

\* A copy with the policy of runPolicy, of which the fields in done have defaults.
SpecCopy(runPolicy, defaulted, done, l, w) ==
    [f \in DOMAIN runPolicy |-> CASE f = "launcher" -> l
                                 [] f = "worker" -> w
                                 [] f \in done -> defaulted[f]
                                 [] OTHER -> runPolicy[f]]

GroupJobSpecCopies(spec) ==
    LET defaulted == SetDefaults(spec) IN
    UNION {{SpecCopy(runPolicy, defaulted, done, l, w) :
              l \in ReplicaSpecCopies(spec.launcher, defaulted.launcher),
              w \in ReplicaSpecCopies(spec.worker, defaulted.worker)} :
           runPolicy \in RunPolicyCopies(spec, defaulted),
           done \in SUBSET {"slotsPerWorker", "sshAuthMountPath", "mpiImplementation",
                            "launcherCreationPolicy"}}

-----------------------------------------------------------------------------
(* Validation: the fields that are at fault.                               *)

If(fault, field) == IF fault THEN {field} ELSE {}

\* Mutant of maximumPodHostname: the first worker's hostname is checked.
MutMaximumPodHostname(spec) == workerName(0)

\* The hostname of the last worker, or of the first one if there are none: it
\* is as long as the launcher's.
maximumPodHostname(spec) ==
    LET asked == IF spec.worker = Absent THEN 1 ELSE OrElse(spec.worker.replicas, 1) IN
    workerName((IF asked > 0 THEN asked ELSE 1) - 1)

validateGroupJobName(spec) ==
    If(NameLength(spec.length, maximumPodHostname(spec)) > MaxLabel, <<"name">>)

validateReplicaSpec(spec, path) ==
    If(spec.replicas = Absent, <<path, "replicas">>)
    \cup If(spec.restartPolicy \notin {"Never", "OnFailure"}, <<path, "restartPolicy">>)
    \cup If(spec.containers = <<>>, <<path, "containers">>)

validateLauncherReplicaSpec(spec) ==
    IF spec = Absent THEN {<<"launcher">>}
    ELSE validateReplicaSpec(spec, "launcher")
         \cup If(spec.replicas \notin {Absent, 1}, <<"launcher", "replicas">>)

validateWorkerReplicaSpec(spec) ==
    IF spec = Absent THEN {}
    ELSE validateReplicaSpec(spec, "worker")
         \cup If(spec.replicas # Absent /\ spec.replicas <= 0, <<"worker", "replicas">>)

Negative(value) == value # Absent /\ value < 0

validateRunPolicy(spec) ==
    If(spec.cleanPodPolicy \notin CleanPodPolicies, <<"cleanPodPolicy">>)
    \cup {<<limit>> : limit \in {l \in Limits : Negative(spec.limits[l])}}
    \cup If(spec.managedBy \notin Values(Managers), <<"managedBy">>)

\* ValidateGroupJob with validateGroupJobSpec.  launcherCreationPolicy is not
\* looked at.
ValidateGroupJob(spec) ==
    validateGroupJobName(spec)
    \cup validateLauncherReplicaSpec(spec.launcher)
    \cup validateWorkerReplicaSpec(spec.worker)
    \cup If(spec.slotsPerWorker = Absent \/ Negative(spec.slotsPerWorker),
            <<"slotsPerWorker">>)
    \cup validateRunPolicy(spec)
    \cup If(spec.sshAuthMountPath = Absent, <<"sshAuthMountPath">>)
    \cup If(spec.mpiImplementation \notin MPIImplementations, <<"mpiImplementation">>)

managedByExternalController(spec) ==
    spec.managedBy \notin {Absent, "kubeflow.org/group-operator"}

workerReplicas(spec) ==
    IF spec.worker = Absent THEN 0 ELSE OrElse(spec.worker.replicas, 0)
=============================================================================
