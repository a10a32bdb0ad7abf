---------------------------- MODULE DependentObjects ----------------------------
(***************************************************************************)
(* The objects a GroupJob needs around its pods (getOrCreateService,       *)
(* getOrCreateConfigMap, getOrCreateSSHAuthSecret), its worker pods as the *)
(* hosts the ConfigMap lists, and its launcher, in                         *)
(* pkg/controller/mpi_job_controller.go.                                   *)
(*                                                                         *)
(* Objects are found by name and owned by UID: a job may be deleted and    *)
(* created again under its name while the objects of the first one are     *)
(* still there, and other people's objects may have the names the          *)
(* controller uses.  GroupJobController follows one incarnation of a job   *)
(* and takes this part as one call that may fail.                          *)
(***************************************************************************)
EXTENDS Integers, FiniteSets, Sequences, Functions

CONSTANTS
    Dependents,     \* the dependents of an instance, in the order of their calls
    MaxReplicas,    \* workers have an index in 0 .. MaxReplicas - 1
    NewReplicas,    \* how many of them a user asks for at first
    MaxUID,         \* incarnations of the job
    MaxEvents,      \* how many edits, failures and acts of others may happen
    EventKinds      \* those of this instance

Index == 0 .. MaxReplicas - 1
UIDs == 1 .. MaxUID

ASSUME DependentsAssumption ==
    /\ Dependents \in Seq({"Service", "ConfigMap", "Secret"}) /\ Dependents # <<>>
    /\ \A m, n \in DOMAIN Dependents : Dependents[m] = Dependents[n] => m = n
ASSUME DependentsBounds == MaxReplicas \in Nat /\ MaxUID \in Nat /\ MaxEvents \in Nat
                       /\ NewReplicas \subseteq 0 .. MaxReplicas
ASSUME DependentsEvents ==
    EventKinds \subseteq
        {"apiError", "lostReply", "crash", "podFails", "edit", "orphan", "meddle",
         "unlabelled"}

VARIABLES
    \* Objects in the API server, and the UID given last.
    job, deps, pods, lastUID,
    \* The informer caches, and the events that they have still to deliver.
    jobC, jobFresh, depsC, depsNews, podsC, podsNews,
    \* The controller: the key in the queue, where syncHandler stands, and its
    \* local variables.
    dirty, pc, sync,
    \* Budget.
    events,
    \* History: in what ways a pod with the workers' labels was not one that the
    \* controller makes.  No action reads it.
    strangers

jobVars == <<job, jobC, jobFresh, lastUID>>
depVars == <<deps, depsC, depsNews>>
podVars == <<pods, podsC, podsNews, strangers>>
controllerVars == <<dirty, pc, sync>>
vars == <<jobVars, depVars, podVars, controllerVars, events>>

-----------------------------------------------------------------------------
(* Objects.                                                                *)

Nobody == 0         \* owner of an object that does not exist
Foreign == -1       \* somebody else: no GroupJob controls the object

Owners == UIDs \cup {Foreign}

NoJob == [uid |-> 0, replicas |-> 0]

JobType == [uid : 0 .. MaxUID, replicas : 0 .. MaxReplicas]

Kinds == Range(Dependents) \cup {"Launcher"}

\* What the controller compares.  Of the ConfigMap, the replicas in the
\* hostfile and the hosts in discover_hosts.sh; of the Service its selector
\* and of the Secret its keys, intact or not.
DataType == [hostfile : 0 .. MaxReplicas, hosts : SUBSET Index, intact : BOOLEAN]

DepType == [owner : Owners \cup {Nobody}, data : DataType]

PlainData == [hostfile |-> 0, hosts |-> {}, intact |-> TRUE]
NoDep == [owner |-> Nobody, data |-> PlainData]

\* The pod of a name.  All of them carry the labels that workerSelector asks
\* for; one that somebody else made may lack the replica-index label.
PodType == [owner : Owners \cup {Nobody}, phase : {"Pending", "Running", "Failed"},
            indexed : BOOLEAN]

NoPod == [owner |-> Nobody, phase |-> "Pending", indexed |-> TRUE]

Strange == {"foreign", "unlabelled"}

Exists(object) == object.owner # Nobody

\* Mutant of IsControlledBy: any GroupJob of the name will do.
MutIsControlledBy(object, uid) == object.owner \in UIDs

\* metav1.IsControlledBy compares UIDs.
IsControlledBy(object, uid) == object.owner = uid

\* launcherExists is the launcher pointer after getLauncherJob.
NoSync == [uid |-> 0, replicas |-> 0, launcherExists |-> FALSE, ix |-> 0, todo |-> {}]

SyncType == [uid : 0 .. MaxUID, replicas : 0 .. MaxReplicas, launcherExists : BOOLEAN,
             ix : 0 .. MaxReplicas, todo : SUBSET Index]

Stages == Kinds \cup {"idle", "scaledown", "workers"}

Init ==
    /\ job = NoJob /\ jobC = NoJob /\ jobFresh = TRUE /\ lastUID = 0
    /\ deps = [k \in Kinds |-> NoDep] /\ depsC = deps /\ depsNews = [k \in Kinds |-> "none"]
    /\ pods = [i \in Index |-> NoPod] /\ podsC = pods /\ podsNews = [i \in Index |-> "none"]
    /\ strangers = {}
    /\ dirty = FALSE /\ pc = "idle" /\ sync = NoSync
    /\ events = 0

\* The events an object's cache has still to deliver: none, in which case it is
\* current, none about an object of a GroupJob, or some.
NewsType == {"none", "others", "owned"}

\* An event shows the new object, or the last state of one that was deleted.
MoreNews(news, old, new) ==
    LET owner == IF Exists(new) THEN new.owner ELSE old.owner IN
    IF owner \in UIDs \/ news = "owned" THEN "owned" ELSE "others"

SetDep(k, object) ==
    /\ deps' = [deps EXCEPT ![k] = object]
    /\ depsNews' = [depsNews EXCEPT ![k] = MoreNews(@, deps[k], object)]

\* It belongs to somebody else; it has no replica-index label.
Strangeness(pod) ==
    (IF pod.owner = Foreign THEN {"foreign"} ELSE {})
    \cup (IF pod.indexed THEN {} ELSE {"unlabelled"})

SetPod(i, pod) ==
    /\ pods' = [pods EXCEPT ![i] = pod]
    /\ podsNews' = [podsNews EXCEPT ![i] = MoreNews(@, pods[i], pod)]
    /\ strangers' = strangers \cup Strangeness(pod)

-----------------------------------------------------------------------------
(* API calls, as in GroupJobController.                                    *)

Replies(accepted) ==
    {IF accepted THEN "ok" ELSE "rejected"} \cup
    {f \in EventKinds \cap {"apiError", "lostReply"} :
        events < MaxEvents /\ (f = "lostReply" => accepted)}

Applied(reply) == reply \in {"ok", "lostReply"}

Goto(stage, s) == pc' = stage /\ sync' = s /\ UNCHANGED dirty

Return == Goto("idle", NoSync)

\* Mutant of Fails: the key is forgotten although the sync failed.
MutFails == pc' = "idle" /\ sync' = NoSync /\ UNCHANGED dirty

\* syncHandler returns an error: processNextWorkItem puts the key back.
Fails == pc' = "idle" /\ sync' = NoSync /\ dirty' = TRUE

EndCall(reply, Advance) ==
    /\ events' = IF reply \in {"apiError", "lostReply"} THEN events + 1 ELSE events
    /\ IF reply = "ok" THEN Advance ELSE Fails

-----------------------------------------------------------------------------
(* syncHandler.                                                            *)

foreignLauncher ==
    Exists(depsC["Launcher"]) /\ ~IsControlledBy(depsC["Launcher"], jobC.uid)

\* The lister's Get by the namespace and the name of the key.
listed == jobC.uid # 0

\* The key leaves the queue.  There may be no such job any more, and the Job of
\* the launcher's name may be somebody else's (getLauncherJob), which is an
\* error.
SyncStart ==
    /\ pc = "idle" /\ dirty
    /\ \/ ~listed /\ dirty' = FALSE /\ UNCHANGED <<pc, sync>>
       \/ listed /\ foreignLauncher /\ Fails
       \/ /\ listed /\ ~foreignLauncher
          /\ dirty' = FALSE /\ pc' = Dependents[1]
          /\ sync' = [NoSync EXCEPT !.uid = jobC.uid, !.replicas = jobC.replicas,
                                    !.launcherExists = Exists(depsC["Launcher"])]
    /\ UNCHANGED <<jobVars, depVars, podVars, events>>

\* workerSelector looks at the labels only.
workerPods == {i \in Index : Exists(podsC[i])}

\* Mutant of getRunningWorkerPods: pods that do not run yet are hosts too.
MutGetRunningWorkerPods == workerPods

getRunningWorkerPods == {i \in workerPods : podsC[i].phase = "Running"}

\* Mutant of newData: the launcher has a line in every hostfile.
MutNewData(k, s) ==
    IF k = "ConfigMap"
      THEN [PlainData EXCEPT !.hostfile = s.replicas + 1, !.hosts = getRunningWorkerPods]
      ELSE PlainData

\* newJobService, newConfigMap with updateDiscoverHostsInConfigMap, and
\* newSSHAuthSecret, as far as the comparison with the cached object goes.
newData(k, s) ==
    IF k = "ConfigMap"
      THEN [PlainData EXCEPT !.hostfile = s.replicas, !.hosts = getRunningWorkerPods]
      ELSE PlainData

\* The copy of the cached object carries its resourceVersion.
currentVersion(k) == depsNews[k] = "none"

\* getOrCreateWorker begins by listing the pods; if they are more than the
\* replicas, it goes through all of them.
Advance(k) ==
    LET n == CHOOSE n \in DOMAIN Dependents : Dependents[n] = k IN
    IF n < Len(Dependents) THEN Goto(Dependents[n + 1], sync)
    ELSE IF Cardinality(workerPods) > sync.replicas
      THEN Goto("scaledown", [sync EXCEPT !.todo = workerPods])
      ELSE Goto("workers", sync)

\* The object is created, taken as it is, updated from a copy of the cached
\* one, or somebody else's, which is an error.
GetOrCreate(k) ==
    /\ pc = k /\ k # "Launcher"
    /\ \/ /\ ~Exists(depsC[k])
          /\ \E reply \in Replies(~Exists(deps[k])) :
              /\ IF Applied(reply)
                   THEN SetDep(k, [owner |-> sync.uid, data |-> newData(k, sync)])
                   ELSE UNCHANGED <<deps, depsNews>>
              /\ EndCall(reply, Advance(k))
       \/ /\ Exists(depsC[k]) /\ ~IsControlledBy(depsC[k], sync.uid)
          /\ Fails
          /\ UNCHANGED <<deps, depsNews, events>>
       \/ /\ IsControlledBy(depsC[k], sync.uid) /\ depsC[k].data # newData(k, sync)
          /\ \E reply \in Replies(currentVersion(k)) :
              /\ IF Applied(reply)
                   THEN SetDep(k, [depsC[k] EXCEPT !.data = newData(k, sync)])
                   ELSE UNCHANGED <<deps, depsNews>>
              /\ EndCall(reply, Advance(k))
       \/ /\ IsControlledBy(depsC[k], sync.uid) /\ depsC[k].data = newData(k, sync)
          /\ Advance(k)
          /\ UNCHANGED <<deps, depsNews, events>>
    /\ UNCHANGED <<jobVars, depsC, podVars>>

AfterScaleDown(rest) ==
    Goto(IF rest = {} THEN "workers" ELSE "scaledown", [sync EXCEPT !.todo = rest])

\* The pods are visited in any order: those with a high index are deleted,
\* whoever owns them.  A pod without an index ends getOrCreateWorker, without
\* an error and without any worker.
ScaleDown ==
    /\ pc = "scaledown"
    /\ \E i \in sync.todo :
        \/ /\ ~podsC[i].indexed
           /\ Goto("Launcher", [sync EXCEPT !.todo = {}])
           /\ UNCHANGED <<pods, podsNews, strangers, events>>
        \/ /\ podsC[i].indexed /\ i < sync.replicas
           /\ AfterScaleDown(sync.todo \ {i})
           /\ UNCHANGED <<pods, podsNews, strangers, events>>
        \/ /\ podsC[i].indexed /\ i >= sync.replicas
           /\ \E reply \in Replies(Exists(pods[i])) :
               /\ IF Applied(reply) THEN SetPod(i, NoPod) ELSE UNCHANGED <<pods, podsNews, strangers>>
               /\ EndCall(reply, AfterScaleDown(sync.todo \ {i}))
    /\ UNCHANGED <<jobVars, depVars, podsC>>

newWorker(uid) == [owner |-> uid, phase |-> "Pending", indexed |-> TRUE]

\* getOrCreateWorker, the pod of one index.
GetOrCreateWorker ==
    LET i == sync.ix
        next == [sync EXCEPT !.ix = @ + 1]
    IN
    /\ pc = "workers"
    /\ \/ /\ i = sync.replicas
          /\ Goto("Launcher", sync)
          /\ UNCHANGED <<pods, podsNews, strangers, events>>
       \/ /\ i < sync.replicas /\ ~Exists(podsC[i])
          /\ \E reply \in Replies(~Exists(pods[i])) :
              /\ IF Applied(reply) THEN SetPod(i, newWorker(sync.uid))
                                   ELSE UNCHANGED <<pods, podsNews, strangers>>
              /\ EndCall(reply, Goto("workers", next))
       \/ /\ i < sync.replicas /\ Exists(podsC[i])
          /\ IF IsControlledBy(podsC[i], sync.uid) THEN Goto("workers", next) ELSE Fails
          /\ UNCHANGED <<pods, podsNews, strangers, events>>
    /\ UNCHANGED <<jobVars, depVars, podsC>>

\* The launcher Job is created if getLauncherJob had found none.  The status
\* update that follows changes nothing here.
CreateLauncher ==
    /\ pc = "Launcher"
    /\ \/ sync.launcherExists /\ Return /\ UNCHANGED <<deps, depsNews, events>>
       \/ /\ ~sync.launcherExists
          /\ \E reply \in Replies(~Exists(deps["Launcher"])) :
              /\ IF Applied(reply)
                   THEN SetDep("Launcher", [owner |-> sync.uid, data |-> PlainData])
                   ELSE UNCHANGED <<deps, depsNews>>
              /\ EndCall(reply, Return)
    /\ UNCHANGED <<jobVars, depsC, podVars>>

Controller ==
    \/ SyncStart \/ \E k \in Kinds : GetOrCreate(k)
    \/ ScaleDown \/ GetOrCreateWorker \/ CreateLauncher

-----------------------------------------------------------------------------
(* The informers.                                                          *)

\* addGroupJob and the update handler; there is none for a deletion.
DeliverJob ==
    /\ ~jobFresh
    /\ jobC' = job /\ jobFresh' = TRUE
    /\ dirty' = (dirty \/ job.uid # 0)
    /\ UNCHANGED <<job, lastUID, depVars, podVars, pc, sync, events>>

\* Mutant of handleObject: no job is found for the owner of a dependent.
MutHandleObject(news) == FALSE

\* handleObject enqueues the job that has the name of the owner, whatever its
\* UID, if the cache has it; nothing for an object no GroupJob controls.
handleObject(news) == news = "owned" /\ listed

DeliverDep(k) ==
    /\ depsNews[k] # "none"
    /\ depsC' = [depsC EXCEPT ![k] = deps[k]]
    /\ depsNews' = [depsNews EXCEPT ![k] = "none"]
    /\ dirty' = (dirty \/ handleObject(depsNews[k]))
    /\ UNCHANGED <<deps, jobVars, podVars, pc, sync, events>>

DeliverPod ==
    /\ \E i \in Index :
        /\ podsNews[i] # "none"
        /\ podsC' = [podsC EXCEPT ![i] = pods[i]]
        /\ podsNews' = [podsNews EXCEPT ![i] = "none"]
        /\ dirty' = (dirty \/ handleObject(podsNews[i]))
    /\ UNCHANGED <<pods, strangers, jobVars, depVars, pc, sync, events>>

-----------------------------------------------------------------------------
(* The rest of the cluster.                                                *)

Event(kind) == kind \in EventKinds /\ events < MaxEvents /\ events' = events + 1

\* A user creates the job, perhaps again under the name of a deleted one,
\* changes its replicas, or deletes it; the last incarnation stays.
CreateJob ==
    /\ job.uid = 0 /\ lastUID < MaxUID
    /\ \E replicas \in NewReplicas : job' = [uid |-> lastUID + 1, replicas |-> replicas]
    /\ lastUID' = lastUID + 1 /\ jobFresh' = FALSE
    /\ UNCHANGED <<jobC, depVars, podVars, controllerVars, events>>

EditJob ==
    /\ job.uid # 0
    /\ Event("edit")
    /\ \E replicas \in 0 .. MaxReplicas \ {job.replicas} :
            job' = [job EXCEPT !.replicas = replicas]
    /\ jobFresh' = FALSE
    /\ UNCHANGED <<lastUID, jobC, depVars, podVars, controllerVars>>

DeleteJob ==
    /\ job.uid \in 1 .. MaxUID - 1
    /\ job' = NoJob /\ jobFresh' = FALSE
    /\ UNCHANGED <<lastUID, jobC, depVars, podVars, controllerVars, events>>

Dead(object) == object.owner \in UIDs \ {job.uid}

\* The garbage collector removes what belongs to a job that is gone, or, if
\* that was deleted with the orphan policy, removes the owner reference.
GarbageCollect ==
    /\ \/ /\ \E k \in Kinds :
             /\ Dead(deps[k])
             /\ \/ SetDep(k, NoDep) /\ UNCHANGED events
                \/ Event("orphan") /\ SetDep(k, [deps[k] EXCEPT !.owner = Foreign])
          /\ UNCHANGED <<pods, podsNews, strangers>>
       \/ /\ \E i \in Index :
             /\ Dead(pods[i])
             /\ \/ SetPod(i, NoPod) /\ UNCHANGED events
                \/ Event("orphan") /\ SetPod(i, [pods[i] EXCEPT !.owner = Foreign])
          /\ UNCHANGED <<deps, depsNews>>
    /\ UNCHANGED <<jobVars, depsC, podsC, controllerVars>>

\* Other people create objects under the names of the job's, change or delete
\* the job's objects, and in the end remove their own.
MeddleWithDep ==
    /\ \E k \in Kinds :
        \/ /\ ~Exists(deps[k]) /\ Event("meddle")
           /\ SetDep(k, [owner |-> Foreign, data |-> PlainData])
        \/ deps[k].owner \in UIDs /\ Event("meddle") /\ SetDep(k, NoDep)
        \/ /\ deps[k].owner \in UIDs /\ k # "Launcher" /\ deps[k].data.intact
           /\ Event("meddle") /\ SetDep(k, [deps[k] EXCEPT !.data.intact = FALSE])
        \/ deps[k].owner = Foreign /\ SetDep(k, NoDep) /\ UNCHANGED events
    /\ UNCHANGED <<jobVars, depsC, podVars, controllerVars>>

MeddleWithPod ==
    /\ \E i \in Index :
        \/ /\ ~Exists(pods[i])
           /\ \E kind \in {"meddle", "unlabelled"} :
               /\ Event(kind)
               /\ SetPod(i, [owner |-> Foreign, phase |-> "Running",
                             indexed |-> kind # "unlabelled"])
        \/ pods[i].owner \in UIDs /\ Event("meddle") /\ SetPod(i, NoPod)
        \/ pods[i].owner = Foreign /\ SetPod(i, NoPod) /\ UNCHANGED events
    /\ UNCHANGED <<jobVars, depVars, podsC, controllerVars>>

\* The kubelet runs a pod; a pod that runs may fail.
PodRuns ==
    /\ \E i \in Index :
        /\ Exists(pods[i]) /\ pods[i].phase = "Pending"
        /\ SetPod(i, [pods[i] EXCEPT !.phase = "Running"])
    /\ UNCHANGED <<jobVars, depVars, podsC, controllerVars, events>>

PodFails ==
    /\ Event("podFails")
    /\ \E i \in Index :
        /\ pods[i].phase = "Running"
        /\ SetPod(i, [pods[i] EXCEPT !.phase = "Failed"])
    /\ UNCHANGED <<jobVars, depVars, podsC, controllerVars>>

\* The operator restarts, as in GroupJobController.
Crash ==
    /\ Event("crash")
    /\ pc' = "idle" /\ sync' = NoSync /\ dirty' = (job.uid # 0)
    /\ jobC' = job /\ jobFresh' = TRUE
    /\ depsC' = deps /\ depsNews' = [k \in Kinds |-> "none"]
    /\ podsC' = pods /\ podsNews' = [i \in Index |-> "none"]
    /\ UNCHANGED <<job, lastUID, deps, pods, strangers>>

Deliver == DeliverJob \/ (\E k \in Kinds : DeliverDep(k)) \/ DeliverPod

Cluster ==
    \/ CreateJob \/ EditJob \/ DeleteJob \/ GarbageCollect
    \/ MeddleWithDep \/ MeddleWithPod \/ PodRuns \/ PodFails \/ Crash

Next == Controller \/ Deliver \/ Cluster

\* The workers, the kubelet, the garbage collector and each of the informers,
\* which have a goroutine of their own, keep going.
Fairness ==
    /\ WF_vars(Controller)
    /\ WF_vars(DeliverJob) /\ WF_vars(DeliverPod)
    /\ \A k \in Kinds : WF_vars(DeliverDep(k))
    /\ WF_vars(PodRuns) /\ WF_vars(GarbageCollect)

Safety == Init /\ [][Next]_vars

Spec == Safety /\ Fairness

-----------------------------------------------------------------------------
(* Properties.                                                             *)

\* Every variable has its type.
TypeOK ==
    /\ job \in JobType /\ jobC \in JobType /\ jobFresh \in BOOLEAN
    /\ lastUID \in 0 .. MaxUID
    /\ deps \in [Kinds -> DepType] /\ depsC \in [Kinds -> DepType]
    /\ depsNews \in [Kinds -> NewsType]
    /\ pods \in [Index -> PodType] /\ podsC \in [Index -> PodType]
    /\ podsNews \in [Index -> NewsType] /\ strangers \subseteq Strange
    /\ dirty \in BOOLEAN /\ pc \in Stages /\ sync \in SyncType
    /\ events \in 0 .. MaxEvents

\* A step of a sync, and none of the cluster around it.
Syncing == pc # "idle" /\ <<pc, sync>>' # <<pc, sync>>

\* A sync never changes or replaces an object that is not its job's, although
\* it finds objects by name in caches that lag behind (MessageResourceExists,
\* "already exists and is not managed by GroupJob").  The pods that a
\* scale-down deletes are the exception.
OthersUntouched ==
    [][Syncing =>
        /\ \A k \in Kinds : deps[k].owner \notin {Nobody, sync.uid} => deps'[k] = deps[k]
        /\ \A i \in Index : pods[i].owner \notin {Nobody, sync.uid} /\ pods'[i] # pods[i] =>
                i >= sync.replicas]_vars

\* Nobody else's object has a name of the job's.
Unhindered ==
    /\ job.uid # 0
    /\ \A k \in Kinds : deps[k].owner # Foreign
    /\ \A i \in Index : pods[i].owner # Foreign

\* A job ends with dependents, launcher and workers of its own, also when it
\* found those of an earlier job of its name, or other people's that went away
\* without an event for it; unless a pod with the workers' labels had no index,
\* for which getOrCreateWorker returns neither workers nor an error.
JobGetsItsOwn ==
    <>[](Unhindered /\ "unlabelled" \notin strangers =>
            /\ \A k \in Kinds : deps[k].owner = job.uid /\ deps[k].data.intact
            /\ \A i \in Index :
                    pods[i].owner = IF i < job.replicas THEN job.uid ELSE Nobody)

\* discover_hosts.sh ends up with the running workers, and the hostfile with
\* all of them, however the pods come and go; unless pods of others had the
\* labels of the workers, which are listed and leave without an event.
HostsListed ==
    <>[](Unhindered /\ "foreign" \notin strangers =>
            /\ deps["ConfigMap"].data.hosts = {i \in Index : pods[i].phase = "Running"}
            /\ deps["ConfigMap"].data.hostfile = job.replicas)

\* The job has what it needs, and the sync of its last change is over: nothing
\* is queued, running, or on its way from the server to the caches.
AtRest ==
    /\ job.uid # 0 /\ jobFresh /\ pc = "idle" /\ ~dirty
    /\ \A k \in Kinds : depsNews[k] = "none"
    /\ \A i \in Index : podsNews[i] = "none"

\* Nothing is forgotten: whatever syncs, failures and events there were, when
\* none is left to make the controller look again, all is as the job asks for:
\* its dependents, launcher and pods, and the hosts of these that run.  Pods
\* without an index are excepted as for JobGetsItsOwn.
NothingForgotten ==
    AtRest /\ "unlabelled" \notin strangers =>
        /\ \A k \in Kinds : deps[k].owner = job.uid
        /\ \A i \in Index : pods[i].owner = job.uid <=> i < job.replicas
        /\ \A k \in Kinds \ {"Launcher"} : deps[k].data.intact
        /\ \A k \in Kinds \cap {"ConfigMap"} :
              /\ deps[k].data.hostfile = job.replicas
              /\ \A i \in 0 .. job.replicas - 1 :
                      i \in deps[k].data.hosts <=> pods[i].phase = "Running"
=============================================================================
