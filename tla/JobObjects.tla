------------------------------- MODULE JobObjects -------------------------------
(***************************************************************************)
(* From a spec to the objects of a job: defaults, validation, and the      *)
(* objects that syncHandler (pkg/controller/mpi_job_controller.go) creates *)
(* and keeps up to date, one after another, while the user edits the spec. *)
(*                                                                         *)
(* Objects that fit together were built by one sync from one spec.  Here   *)
(* a sync may end after any of its calls, and the next one has another     *)
(* spec; the Service, ConfigMap and PodGroup are then updated, the pods    *)
(* are not.  Caches are current; DependentObjects and GroupJobController   *)
(* are about those that are not.                                           *)
(***************************************************************************)
EXTENDS PodGroupResources, FiniteSets

CONSTANTS
    Submissions,    \* specs that users submit, to operators with a gang scheduler or not
    MaxWorkers,     \* the most workers they ask for
    ReplicaEdits,   \* what they change the worker replicas to
    EditKinds,      \* which fields they edit
    MaxEdits        \* how often

ASSUME EditsAssumption ==
    /\ MaxWorkers \in Nat /\ ReplicaEdits \subseteq -1 .. MaxWorkers /\ MaxEdits \in Nat
    /\ Submissions \subseteq [scheduler : {Absent, "volcano", "scheduler-plugins"},
                              spec : SpecType]
    /\ \A s \in Submissions : workerReplicas(s.spec) <= MaxWorkers
    /\ EditKinds \subseteq {"replicas", "minAvailable", "asWorker", "implementation"}

VARIABLES
    scheduler,      \* --gang-scheduling of the operator, or Absent
    spec,           \* the job's spec in the API server
    pc, job,        \* where the sync stands, its copy of the job
    scaling,        \* has it found too many pods?
    refused,        \* what validation found in the last sync
    settled,        \* the job of a sync that reached its end, until the next one
    \* The job's objects, or Absent.
    service, configMap, secret, podGroup, launcher,
    pods,           \* worker pods by the index in their name
    running,        \* indices of those that run
    edits

objects == <<service, configMap, secret, podGroup, launcher>>
podVars == <<pods, running>>
vars == <<scheduler, spec, pc, job, scaling, refused, settled, objects, podVars, edits>>

Index == 0 .. MaxWorkers - 1

Stages == {"idle", "Service", "ConfigMap", "Secret", "PodGroup", "ScaleDown", "Workers",
           "Launcher"}

Init ==
    /\ \E s \in Submissions : scheduler = s.scheduler /\ spec = s.spec
    /\ pc = "idle" /\ job = Absent /\ scaling = FALSE /\ refused = {} /\ settled = Absent
    /\ service = Absent /\ configMap = Absent /\ secret = Absent /\ podGroup = Absent
    /\ launcher = Absent
    /\ pods = [i \in Index |-> Absent] /\ running = {}
    /\ edits = 0

-----------------------------------------------------------------------------
(* syncHandler, for a job that is neither suspended nor finished.          *)

\* Mutant of accepted: only a spec without a launcher is refused.
MutAccepted(faults) == <<"launcher">> \notin faults

accepted(faults) == faults = {}

\* The sync works on a copy with the defaults.  It ends here if another
\* controller manages the job or the spec is not valid.
SyncStart ==
    /\ pc = "idle"
    /\ LET copy == SetDefaults(spec)
           faults == ValidateGroupJob(copy)
       IN
        /\ ~managedByExternalController(copy)
        /\ refused' = faults
        /\ IF accepted(faults) THEN pc' = "Service" /\ job' = copy ELSE UNCHANGED <<pc, job>>
    /\ settled' = Absent
    /\ UNCHANGED <<scheduler, spec, scaling, objects, podVars, edits>>

\* Mutant of Successor: the launcher is created before the Secret.
MutSuccessor(stage) ==
    CASE stage = "Service" -> "ConfigMap"
      [] stage = "ConfigMap" -> "Launcher"
      [] stage = "Secret" -> IF scheduler = Absent THEN "ScaleDown" ELSE "PodGroup"
      [] stage = "PodGroup" -> "ScaleDown"
      [] stage = "ScaleDown" -> "Workers"
      [] stage = "Launcher" -> "Secret"

\* The order of the calls.
Successor(stage) ==
    CASE stage = "Service" -> "ConfigMap"
      [] stage = "ConfigMap" -> "Secret"
      [] stage = "Secret" -> IF scheduler = Absent THEN "ScaleDown" ELSE "PodGroup"
      [] stage = "PodGroup" -> "ScaleDown"
      [] stage = "ScaleDown" -> "Workers"
      [] stage = "Workers" -> "Launcher"

\* getOrCreateService, getOrCreateConfigMap, getOrCreateSSHAuthSecret and
\* getOrCreatePodGroups: what is missing is created, what differs is updated.
Call ==
    /\ \/ /\ pc = "Service" /\ service' = newJobService
          /\ UNCHANGED <<configMap, secret, podGroup>>
       \/ /\ pc = "ConfigMap" /\ configMap' = newConfigMap(job, running)
          /\ UNCHANGED <<service, secret, podGroup>>
       \/ /\ pc = "Secret" /\ secret' = newSSHAuthSecret
          /\ UNCHANGED <<service, configMap, podGroup>>
       \/ /\ pc = "PodGroup" /\ podGroup' \in newPodGroups(scheduler, job)
          /\ UNCHANGED <<service, configMap, secret>>
    /\ pc' = Successor(pc)
    /\ UNCHANGED <<scheduler, spec, job, scaling, refused, settled, launcher, podVars, edits>>

created == {i \in Index : pods[i] # Absent}

\* The pods that getOrCreateWorker deletes if there are too many pods: it looks
\* at their labels.
surplus == {i \in created : pods[i].labels.index >= workerReplicas(job)}

missing == {i \in 0 .. workerReplicas(job) - 1 : pods[i] = Absent}

\* getOrCreateWorker deletes them one by one, in any order.
ScaleDown ==
    /\ pc = "ScaleDown"
    /\ IF job.worker # Absent /\ surplus # {}
         /\ (Cardinality(created) > workerReplicas(job) \/ scaling)
       THEN \E i \in surplus :
                /\ pods' = [pods EXCEPT ![i] = Absent] /\ running' = running \ {i}
                /\ scaling' = TRUE /\ UNCHANGED pc
       ELSE pc' = Successor(pc) /\ scaling' = FALSE /\ UNCHANGED podVars
    /\ UNCHANGED <<scheduler, spec, job, refused, settled, objects, edits>>

\* Then it creates the missing ones in the order of their indices.
GetOrCreateWorker ==
    /\ pc = "Workers"
    /\ IF missing = {} THEN pc' = Successor(pc) /\ UNCHANGED pods
       ELSE LET i == CHOOSE i \in missing : \A j \in missing : i <= j IN
            pods' = [pods EXCEPT ![i] = newWorker(scheduler, job, i)] /\ UNCHANGED pc
    /\ UNCHANGED <<scheduler, spec, job, refused, settled, scaling, objects, running, edits>>

\* newLauncherJob, once.  Unless the policy is AtStartup, all workers have to
\* run first.
CreateLauncher ==
    /\ pc = "Launcher"
    /\ launcher' =
         IF /\ launcher = Absent
            /\ job.launcherCreationPolicy = "AtStartup"
               \/ 0 .. workerReplicas(job) - 1 \subseteq running
         THEN newLauncherPodTemplate(scheduler, job) ELSE launcher
    /\ pc' = "idle" /\ job' = Absent /\ settled' = job
    /\ UNCHANGED <<scheduler, spec, scaling, refused, service, configMap, secret, podGroup, podVars, edits>>

\* A call fails, or the process dies.
SyncFails ==
    /\ pc # "idle"
    /\ pc' = "idle" /\ job' = Absent /\ scaling' = FALSE
    /\ UNCHANGED <<scheduler, spec, refused, settled, objects, podVars, edits>>

-----------------------------------------------------------------------------
(* The user and the kubelet.                                               *)

\* The pods and the pod template of the launcher.
made == {pods[i] : i \in created} \cup ({launcher} \ {Absent})

Edited(kind, s) ==
    /\ kind \in EditKinds /\ edits < MaxEdits
    /\ s # spec
    /\ spec' = s /\ edits' = edits + 1
    /\ UNCHANGED <<scheduler, pc, job, scaling, refused, settled, objects, podVars>>

\* The user scales the job, sets or removes the size of the gang, or turns to
\* another MPI implementation.  Whether the launcher works too is decided before
\* the job starts: pods keep the labels they were made with.
Edit ==
    \/ /\ spec.worker # Absent
       /\ \E n \in ReplicaEdits : Edited("replicas", [spec EXCEPT !.worker.replicas = n])
    \/ \E n \in {Absent, 1} : Edited("minAvailable", [spec EXCEPT !.minAvailable = n])
    \/ /\ pc = "idle" /\ made = {}
       /\ Edited("asWorker", [spec EXCEPT !.runLauncherAsWorker = ~ @])
    \/ \E implementation \in {"OpenMPI", "Intel"} :
            Edited("implementation", [spec EXCEPT !.mpiImplementation = implementation])

PodRuns ==
    /\ \E i \in created \ running : running' = running \cup {i}
    /\ UNCHANGED <<scheduler, spec, pc, job, scaling, refused, settled, objects, pods, edits>>

Next ==
    \/ SyncStart \/ Call \/ ScaleDown \/ GetOrCreateWorker \/ CreateLauncher \/ SyncFails
    \/ Edit \/ PodRuns

Spec == Init /\ [][Next]_vars

-----------------------------------------------------------------------------
(* Properties.                                                             *)

\* Every variable has its type; a sync in progress has a job that passed.
TypeOK ==
    /\ scaling \in BOOLEAN /\ pc \in Stages /\ (pc = "idle") = (job = Absent)
    /\ job # Absent => ValidateGroupJob(job) = {} /\ job.launcher # Absent
    /\ service \in {Absent, newJobService} /\ secret \in {Absent, newSSHAuthSecret}
    /\ configMap # Absent => DOMAIN configMap = {"hostfile", "discoverHosts"}
    /\ podGroup # Absent => podGroup.minMember \in Int
    /\ \A i \in Index : pods[i] # Absent => pods[i].hostname = workerName(i)
    /\ running \subseteq created
    /\ edits \in 0 .. MaxEdits

\* The API server accepts what a validated job is turned into: all names and
\* hostnames are DNS labels, also those of workers that a later edit adds and
\* the launcher's, which validateGroupJobName never looks at, and the restart
\* policy is one that a Job may have.
AcceptedByServer ==
    /\ \A name \in {t.hostname : t \in made}
                    \cup (IF service = Absent THEN {} ELSE {serviceName})
                    \cup (IF configMap = Absent THEN {} ELSE {configName})
                    \cup (IF secret = Absent THEN {} ELSE {sshName}) :
            NameLength(spec.length, name) <= MaxLabel
    /\ \A t \in made : t.restartPolicy \in {"Never", "OnFailure"}

\* After a sync every host of the hostfile is a pod, and every pod is found
\* under its DNS name: it has the hostname and the subdomain of the Service,
\* and the Service selects it (newWorker, "Matches job' Service name").
HostsMatchPods ==
    settled # Absent =>
        /\ \A line \in configMap.hostfile :
            \/ \E t \in made : line.host = Host(t.hostname)
            \/ line.host = Host(launcherName) /\ launcher = Absent
        /\ \A t \in made : Host(t.hostname).subdomain = t.subdomain
                           /\ t.labels.role \in service.roles

\* What a pod mounts exists before the pod, with every key that it asks for,
\* and the file that the MPI implementation is told to read is mounted there.
MountsPresent ==
    \A t \in made :
        /\ \A mount \in t.mounts :
            \/ mount.volume.source = sshName /\ secret # Absent
               /\ mount.volume.keys \subseteq secret
            \/ mount.volume.source = configName /\ configMap # Absent
               /\ mount.volume.keys \subseteq configKeys
        /\ \A v \in t.env : Len(v) = 3 =>
            \E mount \in t.mounts : mount.path = v[2] /\ v[3] \in mount.volume.files

\* Every pod that the gang scheduler has to place, the launcher's too, waits for
\* a PodGroup that was there before it, and no pod does if the operator has no
\* gang scheduler.  Unless the user says how many, the gang never asks for more
\* pods than a sync leaves behind, with a launcher that is still to come.
GangMembers ==
    /\ \A t \in made :
        IF scheduler = Absent THEN t.podGroup = Absent
        ELSE /\ podGroup # Absent
             /\ t.schedulerName = scheduler
             /\ \A key \in DOMAIN t.podGroup : t.podGroup[key] = podGroupName
    /\ settled # Absent /\ podGroup # Absent /\ settled.minAvailable = Absent =>
        podGroup.minMember <= Cardinality(created) + 1

\* Pods that take part in the computation have different indices, the launcher
\* too if it does (workerReplicaIndexLabel, "to have a valid and unique index
\* label"), however often the job is scaled.
IndexUnique ==
    \A t, u \in made :
        t # u /\ t.labels.index = u.labels.index => t.labels.index = NoIndex

\* The resources of the pods of a gang, one after another.
Gang(s) ==
    LET l == [replicaPriority("launcher", s.launcher) EXCEPT !.replicas = 1]
        w == [replicaPriority("worker", s.worker) EXCEPT !.replicas = 1]
    IN  <<l>> \o IF s.worker = Absent THEN <<>> ELSE [n \in 1 .. workerReplicas(s) |-> w]

LauncherFirst(s) ==
    s.worker = Absent \/ replicaPriority("launcher", s.launcher).priority
                            >= replicaPriority("worker", s.worker).priority

\* Without resources of the user's, the PodGroup asks for those of its
\* minMember pods with the highest priority (calculatePGMinResources), if that
\* of the launcher is not below the workers'.
MinResourcesRight ==
    settled # Absent /\ podGroup # Absent
    /\ settled.minResources = Absent /\ LauncherFirst(settled) =>
        LET gang == Gang(settled)
            needed == Total(SubSeq(gang, 1, IF podGroup.minMember < Len(gang)
                                              THEN podGroup.minMember ELSE Len(gang)))
        IN  IF podGroup.minMember = 0 THEN podGroup.minResources = Absent
            ELSE \A r \in DOMAIN podGroup.minResources \cup DOMAIN needed :
                    Quantity(podGroup.minResources, r) = Quantity(needed, r)

\* Did the user give the field?  Some have no default.
Given(field) ==
    IF Len(field) = 2 THEN field[2] = "containers" \/ spec[field[1]][field[2]] # Absent
    ELSE field[1] \in Limits \cup {"name", "launcher"} \/ spec[field[1]] # Absent

\* A spec is never refused for a field its author left to the defaults, except
\* for the replicas of the workers, whose default of 0 is not valid.  Whatever
\* addGroupJob has set when syncHandler copies the cached object, the sync works
\* on all the defaults and nothing else.
DefaultsAccepted ==
    /\ \A field \in ValidateGroupJob(SetDefaults(spec)) :
            Given(field) \/ field = <<"worker", "replicas">>
    /\ service = Absent =>
        \A copy \in GroupJobSpecCopies(spec) : SetDefaults(copy) = SetDefaults(spec)
=============================================================================
