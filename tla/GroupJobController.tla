------------------------- MODULE GroupJobController -------------------------
(***************************************************************************)
(* The life of one GroupJob under the controller of                        *)
(* pkg/controller/mpi_job_controller.go.                                   *)
(*                                                                         *)
(* The controller never sees the API server's objects: syncHandler reads   *)
(* informer caches that lag behind, and writes with calls that may be      *)
(* rejected, fail, or be applied while their reply is lost.  A sync is     *)
(* therefore a sequence of steps, one per API call, and between two of     *)
(* them the user, the Job controller, the kubelet, the informers and a     *)
(* crash may act.  The work queue never hands one key to two workers, so   *)
(* there is at most one sync of the job at a time.                         *)
(***************************************************************************)
EXTENDS GroupJobConditions, Integers, FiniteSets

CONSTANTS
    MaxReplicas,        \* worker pods have an index in 0 .. MaxReplicas - 1
    Specs,              \* the specs users give the job
    MaxEdits,           \* how often users change the spec
    MaxFaults,          \* how many of the events in FaultKinds may happen
    FaultKinds,         \* the failures of this instance
    GangScheduling,     \* is --gang-scheduling set?
    RunLauncherAsWorker,\* spec.runLauncherAsWorker
    LauncherTTL         \* when a finished launcher Job may be deleted

Index == 0 .. MaxReplicas - 1

\* "Spec" is the part of the GroupJob spec the controller branches on:
\* replicas is 0 when there is no Worker replica spec, and reconciled is
\* FALSE when managedBy names another controller, validation fails or the
\* job is terminating.
SpecType == [replicas : 0 .. MaxReplicas, suspend : BOOLEAN,
             cleanPodPolicy : {"None", "Running", "All"},
             launcherCreationPolicy : {"AtStartup", "WaitForWorkersReady"},
             reconciled : BOOLEAN]

CallFaults == {"apiError", "lostReply"}
PodFaults == {"podFails", "podEvicted", "podExits", "podDeleted"}

ASSUME ReplicasAssumption == MaxReplicas \in Nat
ASSUME SpecsAssumption == Specs \subseteq SpecType
ASSUME BoundsAssumption == MaxEdits \in Nat /\ MaxFaults \in Nat
ASSUME FaultsAssumption == FaultKinds \subseteq CallFaults \cup PodFaults \cup {"crash"}
ASSUME FlagsAssumption ==
    /\ GangScheduling \in BOOLEAN
    /\ RunLauncherAsWorker \in BOOLEAN
    /\ LauncherTTL \in {"never", "afterObserved", "any"}

VARIABLES
    \* Objects in the API server.
    job,                \* spec and status of the GroupJob
    launcher,           \* the launcher Job
    launcherRunning,    \* does the launcher Job have a Running pod?
    pods,               \* phase of the worker pod of each index
    podGroup,           \* minMember of the PodGroup, 0 when there is none
    \* The informer caches.
    jobC, launcherC, launcherRunningC, podsC, podGroupC,
    \* What the caches know: who holds the current resourceVersion of the job
    \* and of the launcher; the worker pods of which every event has been
    \* delivered; the same for the launcher's pod and for the PodGroup.
    jobFresh, launcherFresh, podsFresh, launcherPodFresh, podGroupFresh,
    \* The controller.
    dirty,              \* is the key in the work queue (or to be put back)?
    pc,                 \* where syncHandler stands, "idle" between syncs
    sync,               \* its local variables
    \* Budgets.
    edits, faults

jobVars == <<job, jobC, jobFresh>>
launcherVars == <<launcher, launcherC, launcherFresh>>
launcherPodVars == <<launcherRunning, launcherRunningC, launcherPodFresh>>
podVars == <<pods, podsC, podsFresh>>
podGroupVars == <<podGroup, podGroupC, podGroupFresh>>
objectVars == <<jobVars, launcherVars, launcherPodVars, podVars, podGroupVars>>
controllerVars == <<dirty, pc, sync>>
budgetVars == <<edits, faults>>
vars == <<objectVars, controllerVars, budgetVars>>

-----------------------------------------------------------------------------
(* Objects.                                                                *)

WorkerCounts == [set : BOOLEAN, active : 0 .. MaxReplicas,
                 succeeded : 0 .. MaxReplicas, failed : 0 .. MaxReplicas]

\* status.replicaStatuses has an entry for a replica type once it was
\* initialised; launcher.failed is left out.
StatusType == [conds : Conditions, started : BOOLEAN, completed : BOOLEAN,
               worker : WorkerCounts,
               launcher : {"unset", "inactive", "active", "succeeded"}]

JobType == [spec : SpecType, status : StatusType]

LauncherType == [state : {"absent", "active", "complete", "failed"},
                 suspend : BOOLEAN]

PodPhases == {"absent", "Pending", "Running", "Ready",
              "Succeeded", "Failed", "Evicted"}

UnsetCounts == [set |-> FALSE, active |-> 0, succeeded |-> 0, failed |-> 0]

ZeroCounts == [set |-> TRUE, active |-> 0, succeeded |-> 0, failed |-> 0]

NewStatus == [conds |-> NoConditions, started |-> FALSE, completed |-> FALSE,
              worker |-> UnsetCounts, launcher |-> "unset"]

NoLauncher == [state |-> "absent", suspend |-> FALSE]

NoPods == [i \in Index |-> "absent"]

\* "cache" in jobFresh: the informer holds the current version of the job;
\* "sync": so does the running sync (meaningless between syncs).
Holders == {"cache", "sync"}

\* Mutant of isJobFinished: a failed launcher does not count.
MutIsJobFinished(l) == l.state = "complete"

isJobFinished(l) == l.state \in {"complete", "failed"}

\* Ready pods are Running pods whose readiness condition is true.
isPodRunning(phase) == phase \in {"Running", "Ready"}

\* Mutant of isCleanUpPods: the Running policy is forgotten.
MutIsCleanUpPods(spec) == spec.cleanPodPolicy = "All"

isCleanUpPods(spec) == spec.cleanPodPolicy \in {"All", "Running"}

\* Mutant of Done: a failed job is not taken for finished.
MutDone(status) == isSucceeded(status.conds) /\ status.completed

\* The test that ends the reconciliation of a job.
Done(status) == isFinished(status.conds) /\ status.completed

\* The local variables of syncHandler: its copy of the job, its pointer to
\* the launcher (cached: still the very object the lister holds), the phases
\* in the worker slice, a loop index and the pods still to be deleted.
SyncType == [job : JobType, launcher : LauncherType, cached : BOOLEAN,
             workers : [Index -> PodPhases], ix : 0 .. MaxReplicas,
             todo : SUBSET Index]

NoSync == [job |-> [spec |-> [replicas |-> 0, suspend |-> FALSE,
                              cleanPodPolicy |-> "None",
                              launcherCreationPolicy |-> "AtStartup",
                              reconciled |-> FALSE],
                    status |-> NewStatus],
           launcher |-> NoLauncher, cached |-> FALSE,
           workers |-> NoPods, ix |-> 0, todo |-> {}]

Stages == {"idle", "deps", "podgroup", "scaledown", "workers", "launch",
           "align", "cleanup", "finish", "status"}

Init ==
    /\ job \in [spec : Specs, status : {NewStatus}]
    /\ launcher = NoLauncher /\ launcherRunning = FALSE
    /\ pods = NoPods /\ podGroup = 0
    /\ jobC = job /\ launcherC = NoLauncher /\ launcherRunningC = FALSE
    /\ podsC = NoPods /\ podGroupC = 0
    /\ jobFresh = {"cache"} /\ launcherFresh = {"cache"}
    /\ podsFresh = Index /\ launcherPodFresh = TRUE /\ podGroupFresh = TRUE
    /\ dirty = TRUE /\ pc = "idle" /\ sync = NoSync
    /\ edits = 0 /\ faults = 0

-----------------------------------------------------------------------------
(* API calls.  "accepted" is whether the server takes the call: a Create   *)
(* needs the name to be free, an Update the current resourceVersion, a     *)
(* Delete the object to be there.                                          *)

Replies(accepted) ==
    {IF accepted THEN "ok" ELSE "rejected"} \cup
    {f \in FaultKinds \cap CallFaults :
        faults < MaxFaults /\ (f = "lostReply" => accepted)}

Applied(reply) == reply \in {"ok", "lostReply"}

\* The sync goes on to the stage with the local variables s.
Goto(stage, s) == pc' = stage /\ sync' = s /\ UNCHANGED dirty

\* syncHandler returns nil: the key is forgotten, unless an event has put it
\* back meanwhile.
Return == Goto("idle", NoSync)

\* Mutant of Fails: the key is forgotten although the sync failed.
MutFails == pc' = "idle" /\ sync' = NoSync /\ UNCHANGED dirty

\* syncHandler returns an error: processNextWorkItem puts the key back.
Fails == pc' = "idle" /\ sync' = NoSync /\ dirty' = TRUE

\* Every error of a call ends the sync, one that was applied all the same too.
EndCall(reply, Advance) ==
    /\ faults' = IF reply \in CallFaults THEN faults + 1 ELSE faults
    /\ IF reply = "ok" THEN Advance ELSE Fails

\* The server's pod i gets a phase; "absent" deletes it.
SetPod(i, phase) ==
    /\ pods' = [pods EXCEPT ![i] = phase]
    /\ podsFresh' = IF pods[i] = phase THEN podsFresh ELSE podsFresh \ {i}

-----------------------------------------------------------------------------
(* The order of the stages.                                                *)

Keep(s) == s.job.spec.replicas

countReadyWorkerPods(s) == Cardinality({i \in Index : s.workers[i] = "Ready"})

\* The worker slice has one pod per replica once getOrCreateWorker ran, and
\* none if it was skipped.
Members(s) == {i \in Index : s.workers[i] # "absent"}

\* Stage after the dependents of the job are in place: what is left to do for
\* the launcher, then for a suspended job its clean-up, then the status.
AfterAlign(s) == IF s.job.spec.suspend THEN "cleanup" ELSE "status"

\* Mutant of AfterLaunch: the suspension of the launcher is never aligned.
MutAfterLaunch(s) == AfterAlign(s)

AfterLaunch(s) ==
    IF s.launcher.state # "absent" /\ s.launcher.suspend # s.job.spec.suspend
      THEN "align" ELSE AfterAlign(s)

AfterWorkers(s) ==
    IF /\ s.launcher.state = "absent"
       /\ \/ s.job.spec.launcherCreationPolicy = "AtStartup"
          \/ countReadyWorkerPods(s) = Cardinality(Members(s))
      THEN "launch" ELSE AfterLaunch(s)

\* Mutant of Label: worker labels are always padded by one.
MutLabel(i) == i + 1

\* getOrCreateWorker lists the cached worker pods and, if they are more than
\* the replicas, deletes those whose replica-index label is too high.
Label(i) == IF RunLauncherAsWorker THEN i + 1 ELSE i

\* Mutant of Surplus: off by one, the pod whose index equals the replicas stays.
MutSurplus(s) ==
    LET podFullList == {i \in Index : podsC[i] # "absent"} IN
    IF Cardinality(podFullList) > Keep(s)
      THEN {i \in podFullList : Label(i) > Keep(s)}
      ELSE {}

Surplus(s) ==
    LET podFullList == {i \in Index : podsC[i] # "absent"} IN
    IF Cardinality(podFullList) > Keep(s)
      THEN {i \in podFullList : Label(i) >= Keep(s)}
      ELSE {}

EnterWorkers(s) ==
    IF Keep(s) = 0 THEN Goto(AfterWorkers(s), s)
    ELSE IF Surplus(s) # {} THEN Goto("scaledown", [s EXCEPT !.todo = Surplus(s)])
    ELSE Goto("workers", s)

-----------------------------------------------------------------------------
(* syncHandler.                                                            *)

\* The copy of the job syncHandler works on, with its first modifications.
\* A job without a Created condition has no condition at all.
Prepared(j) ==
    LET conds == IF j.status.conds = NoConditions
                   THEN setCondition(j.status.conds, "Created", "True", "GroupJobCreated")
                   ELSE j.status.conds
        copy  == [j EXCEPT !.status.conds = conds]
    IN IF Done(j.status) \/ j.spec.suspend
         THEN copy ELSE [copy EXCEPT !.status.started = TRUE]

\* The key leaves the queue, or, as every event adds it with a delay of its own
\* (AddRateLimited), is still to be added for an earlier one: WorkQueue has the
\* delays, here the queue may keep the key.  Nothing is done for a job that
\* must not be reconciled or that is done and keeps its pods.
SyncSkip ==
    /\ pc = "idle" /\ dirty
    /\ \/ ~jobC.spec.reconciled
       \/ Done(jobC.status) /\ ~isCleanUpPods(jobC.spec)
    /\ dirty' \in BOOLEAN
    /\ UNCHANGED <<objectVars, pc, sync, budgetVars>>

\* Otherwise the sync reads the job and the launcher from the caches.
SyncStart ==
    /\ pc = "idle" /\ dirty
    /\ jobC.spec.reconciled
    /\ Done(jobC.status) => isCleanUpPods(jobC.spec)
    /\ dirty' \in BOOLEAN
    /\ LET s == [NoSync EXCEPT !.job = Prepared(jobC), !.launcher = launcherC,
                               !.cached = launcherC.state # "absent"]
       IN IF Done(jobC.status)
            THEN /\ sync' = [s EXCEPT !.launcher = NoLauncher, !.cached = FALSE]
                 /\ pc' = "cleanup"
            ELSE /\ sync' = s
                 /\ pc' = IF isJobFinished(launcherC) THEN AfterLaunch(s) ELSE "deps"
    /\ jobFresh' = IF "cache" \in jobFresh THEN Holders ELSE {}
    /\ launcherFresh' = IF "cache" \in launcherFresh THEN Holders ELSE {}
    /\ UNCHANGED <<job, jobC, launcher, launcherC, launcherPodVars, podVars, podGroupVars,
                   budgetVars>>

\* getOrCreateService, getOrCreateConfigMap and getOrCreateSSHAuthSecret: the
\* three dependents are not modelled here, only that one of the calls may fail.
EnsureDependents ==
    /\ pc = "deps"
    /\ \E reply \in Replies(TRUE) :
        EndCall(reply, IF sync.job.spec.suspend THEN Goto(AfterWorkers(sync), sync)
                       ELSE IF GangScheduling THEN Goto("podgroup", sync)
                       ELSE EnterWorkers(sync))
    /\ UNCHANGED <<objectVars, edits>>

\* Mutant of pgSpecsAreEqual: any PodGroup will do.
MutPgSpecsAreEqual(minMember) == podGroupC # 0

\* Does the cached PodGroup ask for minMember pods?
pgSpecsAreEqual(minMember) == podGroupC = minMember

\* Mutant of calculateMinAvailable: the launcher counts twice.
MutCalculateMinAvailable(s) == Keep(s) + 2

\* The workers and the launcher; schedulingPolicy.minAvailable is not given.
calculateMinAvailable(s) == Keep(s) + 1

\* Writes the new spec into the cached object before it is sent, so the cache
\* changes whatever the reply is; a PodGroup that is created is not cached yet.
updatePodGroup(minMember) == podGroupC' = IF podGroupC = 0 THEN 0 ELSE minMember

\* getOrCreatePodGroups.
GetOrCreatePodGroup ==
    LET minMember == calculateMinAvailable(sync) IN
    /\ pc = "podgroup"
    /\ \/ /\ pgSpecsAreEqual(minMember)
          /\ EnterWorkers(sync)
          /\ UNCHANGED <<podGroup, podGroupC, podGroupFresh, faults>>
       \/ /\ ~pgSpecsAreEqual(minMember)
          /\ \E reply \in Replies(IF podGroupC = 0 THEN podGroup = 0 ELSE podGroupFresh) :
              /\ updatePodGroup(minMember)
              /\ IF Applied(reply)
                   THEN podGroup' = minMember /\ podGroupFresh' = FALSE
                   ELSE UNCHANGED <<podGroup, podGroupFresh>>
              /\ EndCall(reply, EnterWorkers(sync))
    /\ UNCHANGED <<jobVars, launcherVars, launcherPodVars, podVars, edits>>

\* getOrCreateWorker, the deletion of pods when replicas are scaled down: any
\* error of a Delete is returned, "not found" included.
ScaleDown ==
    /\ pc = "scaledown"
    /\ \E i \in sync.todo :
        LET rest == [sync EXCEPT !.todo = @ \ {i}] IN
        \E reply \in Replies(pods[i] # "absent") :
            /\ IF Applied(reply) THEN SetPod(i, "absent") ELSE UNCHANGED <<pods, podsFresh>>
            /\ EndCall(reply, Goto(IF rest.todo = {} THEN "workers" ELSE "scaledown", rest))
    /\ UNCHANGED <<jobVars, launcherVars, launcherPodVars, podsC, podGroupVars, edits>>

\* getOrCreateWorker, one turn of the loop over the replicas: the cached pod
\* is taken, or a pod is created.
GetOrCreateWorker ==
    LET i == sync.ix
        With(phase) == [sync EXCEPT !.workers[i] = phase, !.ix = i + 1]
        Step(phase) == IF i + 1 < Keep(sync)
                         THEN Goto("workers", With(phase))
                         ELSE Goto(AfterWorkers(With(phase)), [With(phase) EXCEPT !.ix = 0])
    IN
    /\ pc = "workers"
    /\ \/ /\ podsC[i] # "absent"
          /\ Step(podsC[i])
          /\ UNCHANGED <<pods, podsFresh, faults>>
       \/ /\ podsC[i] = "absent"
          /\ \E reply \in Replies(pods[i] = "absent") :
              /\ IF Applied(reply) THEN SetPod(i, "Pending") ELSE UNCHANGED <<pods, podsFresh>>
              /\ EndCall(reply, Step("Pending"))
    /\ UNCHANGED <<jobVars, launcherVars, launcherPodVars, podsC, podGroupVars, edits>>

\* The launcher Job is created, suspended if the job is.  The pods of an
\* earlier launcher Job do not match the selector of the new one: whatever the
\* pod cache holds of them no longer counts as a running launcher pod.
CreateLauncher ==
    LET new == [state |-> "active", suspend |-> sync.job.spec.suspend]
        s   == [sync EXCEPT !.launcher = new]
    IN
    /\ pc = "launch"
    /\ \E reply \in Replies(launcher.state = "absent") :
        /\ IF Applied(reply)
             THEN /\ launcher' = new
                  /\ launcherFresh' = {"sync"}
                  /\ launcherRunningC' = FALSE
             ELSE UNCHANGED <<launcher, launcherFresh, launcherRunningC>>
        /\ EndCall(reply, Goto(AfterLaunch(s), s))
    /\ UNCHANGED <<jobVars, launcherC, launcherRunning, launcherPodFresh, podVars,
                   podGroupVars, edits>>

\* The launcher is suspended or resumed along with the job.  The new value is
\* written into the object the sync holds, which is the cached one unless the
\* informer has replaced it meanwhile.
AlignLauncher ==
    LET suspend == sync.job.spec.suspend
        s       == [sync EXCEPT !.launcher.suspend = suspend]
    IN
    /\ pc = "align"
    /\ launcherC' = IF sync.cached THEN [launcherC EXCEPT !.suspend = suspend] ELSE launcherC
    /\ \E reply \in Replies("sync" \in launcherFresh) :
        /\ IF Applied(reply)
             THEN launcher' = [launcher EXCEPT !.suspend = suspend] /\ launcherFresh' = {}
             ELSE UNCHANGED <<launcher, launcherFresh>>
        /\ EndCall(reply, Goto(AfterAlign(s), s))
    /\ UNCHANGED <<jobVars, launcherPodVars, podVars, podGroupVars, edits>>

\* cleanUpWorkerPods: deleteWorkerPods, one turn of its loop over the replicas.
DeleteWorkerPod ==
    LET i    == sync.ix
        kept == \/ podsC[i] = "absent"
                \/ /\ sync.job.spec.cleanPodPolicy = "Running"
                   /\ ~isPodRunning(podsC[i])
                   /\ podsC[i] # "Pending"
        Step == Goto("cleanup", [sync EXCEPT !.ix = i + 1])
    IN
    /\ pc = "cleanup" /\ sync.ix < Keep(sync)
    /\ \/ kept /\ Step /\ UNCHANGED <<pods, podsFresh, faults>>
       \/ /\ ~kept
          /\ \E reply \in Replies(TRUE) :
              /\ IF Applied(reply) THEN SetPod(i, "absent") ELSE UNCHANGED <<pods, podsFresh>>
              /\ EndCall(reply, Step)
    /\ UNCHANGED <<jobVars, launcherVars, launcherPodVars, podsC, podGroupVars, edits>>

\* What cleanUpWorkerPods leaves in the local variables: the worker counts of
\* the copy of the job are reset.
CleanedUp(s) == [s EXCEPT !.job.status.worker = ZeroCounts, !.ix = 0]

\* cleanUpWorkerPods, after the loop: deletePodGroups deletes the PodGroup the
\* cache holds, if any.
DeletePodGroup ==
    LET s    == CleanedUp(sync)
        Step == Goto(IF Done(s.job.status) THEN "finish" ELSE "status", s)
    IN
    /\ pc = "cleanup" /\ sync.ix >= Keep(sync)
    /\ \/ /\ ~GangScheduling \/ podGroupC = 0
          /\ Step
          /\ UNCHANGED <<podGroup, podGroupFresh, faults>>
       \/ /\ GangScheduling /\ podGroupC # 0
          /\ \E reply \in Replies(podGroup # 0) :
              /\ IF Applied(reply)
                   THEN podGroup' = 0 /\ podGroupFresh' = FALSE
                   ELSE UNCHANGED <<podGroup, podGroupFresh>>
              /\ EndCall(reply, Step)
    /\ UNCHANGED <<jobVars, launcherVars, launcherPodVars, podVars, podGroupC, edits>>

\* Mutant of SuspendedCond: nothing is reported when the job is resumed.
MutSuspendedCond(conds, spec) ==
    IF spec.suspend
      THEN setCondition(conds, "Suspended", "True", "GroupJobSuspended")
      ELSE conds

\* The new status updateGroupJobStatus computes, condition by condition in the
\* order of the code.
SuspendedCond(conds, spec) ==
    IF spec.suspend
      THEN setCondition(conds, "Suspended", "True", "GroupJobSuspended")
    ELSE IF isPresent(conds, "Suspended")
      THEN setCondition(conds, "Suspended", "False", "GroupJobResumed")
    ELSE conds

\* Mutant of OutcomeCond: any finished launcher counts as a success.
MutOutcomeCond(conds, l) ==
    IF isJobFinished(l)
      THEN setCondition(conds, "Succeeded", "True", "GroupJobSucceeded")
      ELSE conds

OutcomeCond(conds, l) ==
    CASE l.state = "complete" -> setCondition(conds, "Succeeded", "True", "GroupJobSucceeded")
      [] l.state = "failed"   -> setCondition(conds, "Failed", "True", "GroupJobFailed")
      [] OTHER                -> conds

EvictedCond(conds, workers) ==
    IF \E i \in Index : workers[i] = "Evicted"
      THEN setCondition(conds, "Failed", "True", "GroupJobEvicted")
      ELSE conds

RunningCond(conds, spec, allRunning) ==
    IF spec.suspend
      THEN setCondition(conds, "Running", "False", "GroupJobSuspended")
    ELSE IF allRunning
      THEN setCondition(conds, "Running", "True", "GroupJobRunning")
    ELSE conds

HowMany(s, phases) == Cardinality({i \in Index : s.workers[i] \in phases})

\* Mutant of NewWorkerStatus: the counts are not reset before the pods are
\* counted again.
MutNewWorkerStatus(s) ==
    [s.job.status.worker EXCEPT !.set = TRUE,
                                !.active = @ + HowMany(s, {"Running", "Ready"})]

NewWorkerStatus(s) ==
    [set |-> TRUE, active |-> HowMany(s, {"Running", "Ready"}),
     succeeded |-> HowMany(s, {"Succeeded"}),
     failed |-> HowMany(s, {"Failed", "Evicted"})]

NewLauncherStatus(s, podRunning) ==
    CASE s.launcher.state = "absent"   -> s.job.status.launcher
      [] s.launcher.state = "complete" -> "succeeded"
      [] s.launcher.state = "failed"   -> "inactive"
      [] OTHER                         -> IF podRunning THEN "active" ELSE "inactive"

\* jobPods and countRunningPods of the launcher, if there is one: it has at most
\* one running pod.
launcherPodsRun(s, podRunning) == s.launcher.state # "absent" /\ podRunning

NewJobStatus(s, podRunning) ==
    LET spec       == s.job.spec
        old        == s.job.status
        allRunning == /\ launcherPodsRun(s, podRunning)
                      /\ HowMany(s, {"Running", "Ready"}) = Cardinality(Members(s))
        suspended  == SuspendedCond(old.conds, spec)
        outcome    == OutcomeCond(suspended, s.launcher)
        evicted    == EvictedCond(outcome, s.workers)
        resumed    == ~spec.suspend /\ suspended # old.conds
    IN [conds     |-> RunningCond(evicted, spec, allRunning),
        started   |-> old.started \/ resumed,
        completed |-> old.completed \/ s.launcher.state \in {"complete", "failed"},
        worker    |-> NewWorkerStatus(s),
        launcher  |-> NewLauncherStatus(s, podRunning)]

\* Is the resourceVersion that the copy of the job carries the current one?
versionCurrent == "sync" \in jobFresh

\* doUpdateJobStatus.  The spec is not written; the server changes nothing
\* when the status is the one it has.
WriteStatus(status) ==
    \E reply \in Replies(versionCurrent) :
        /\ IF Applied(reply) /\ job.status # status
             THEN job' = [job EXCEPT !.status = status] /\ jobFresh' = {}
             ELSE UNCHANGED <<job, jobFresh>>
        /\ EndCall(reply, Return)

\* updateGroupJobStatus: the status is written only if it has changed since
\* the function began.
UpdateStatus ==
    LET status == NewJobStatus(sync, launcherRunningC) IN
    /\ pc = "status"
    /\ IF status = sync.job.status
         THEN Return /\ UNCHANGED <<job, jobFresh, faults>>
         ELSE WriteStatus(status)
    /\ UNCHANGED <<jobC, launcherVars, launcherPodVars, podVars, podGroupVars, edits>>

\* The unconditional status update after the clean-up of a finished job.
UpdateFinishedStatus ==
    /\ pc = "finish"
    /\ WriteStatus(sync.job.status)
    /\ UNCHANGED <<jobC, launcherVars, launcherPodVars, podVars, podGroupVars, edits>>

Controller ==
    \/ SyncSkip \/ SyncStart \/ EnsureDependents \/ GetOrCreatePodGroup
    \/ ScaleDown \/ GetOrCreateWorker \/ CreateLauncher \/ AlignLauncher
    \/ DeleteWorkerPod \/ DeletePodGroup \/ UpdateStatus \/ UpdateFinishedStatus

-----------------------------------------------------------------------------
(* The informers: a cache catches up with the server on one object, and    *)
(* the handler enqueues the GroupJob that owns it.                         *)

DeliverJob ==
    /\ "cache" \notin jobFresh
    /\ jobC' = job /\ jobFresh' = jobFresh \cup {"cache"} /\ dirty' = TRUE
    /\ UNCHANGED <<job, launcherVars, launcherPodVars, podVars, podGroupVars, pc, sync,
                   budgetVars>>

\* The cached object is replaced: a sync that still points to the old one no
\* longer writes into the cache.
DeliverLauncher ==
    /\ "cache" \notin launcherFresh
    /\ launcherC' = launcher /\ launcherFresh' = launcherFresh \cup {"cache"}
    /\ sync' = [sync EXCEPT !.cached = FALSE]
    /\ dirty' = TRUE
    /\ UNCHANGED <<launcher, jobVars, launcherPodVars, podVars, podGroupVars, pc,
                   budgetVars>>

\* Mutant of ownerFound: the owner of a launcher pod is never looked up.
MutOwnerFound == FALSE

\* handleObject finds the job of a launcher pod through the cached launcher,
\* and drops the event when the cache has none yet.
ownerFound == launcherC.state # "absent"

DeliverLauncherPod ==
    /\ ~launcherPodFresh
    /\ launcherRunningC' = launcherRunning /\ launcherPodFresh' = TRUE
    /\ dirty' = (dirty \/ ownerFound)
    /\ UNCHANGED <<launcherRunning, jobVars, launcherVars, podVars, podGroupVars, pc, sync,
                   budgetVars>>

DeliverPod ==
    /\ \E i \in Index :
        /\ i \notin podsFresh
        /\ podsC' = [podsC EXCEPT ![i] = pods[i]]
        /\ podsFresh' = podsFresh \cup {i}
    /\ dirty' = TRUE
    /\ UNCHANGED <<pods, jobVars, launcherVars, launcherPodVars, podGroupVars, pc, sync,
                   budgetVars>>

DeliverPodGroup ==
    /\ ~podGroupFresh
    /\ podGroupC' = podGroup /\ podGroupFresh' = TRUE /\ dirty' = TRUE
    /\ UNCHANGED <<podGroup, jobVars, launcherVars, launcherPodVars, podVars, pc, sync,
                   budgetVars>>

Deliver ==
    \/ DeliverJob \/ DeliverLauncher \/ DeliverLauncherPod
    \/ DeliverPod \/ DeliverPodGroup

-----------------------------------------------------------------------------
(* The rest of the cluster.                                                *)

\* A user replaces the spec of the job.
UserEdit ==
    /\ edits < MaxEdits
    /\ \E spec \in Specs \ {job.spec} : job' = [job EXCEPT !.spec = spec]
    /\ jobFresh' = {} /\ edits' = edits + 1
    /\ UNCHANGED <<jobC, launcherVars, launcherPodVars, podVars, podGroupVars,
                   controllerVars, faults>>

\* A gang scheduler lets the pods of a PodGroup wait until there are as many of
\* them as it asks for; without a PodGroup they do not wait.
gangComplete ==
    podGroup <= Cardinality({i \in Index : pods[i] # "absent"})
                + IF launcher.state = "active" /\ ~launcher.suspend THEN 1 ELSE 0

\* The Job controller starts the pod of a launcher Job that is not suspended
\* and removes that of a suspended one; each updates the Job's status.
LauncherPodStart ==
    /\ launcher.state = "active" /\ ~launcher.suspend /\ ~launcherRunning
    /\ gangComplete
    /\ launcherRunning' = TRUE /\ launcherPodFresh' = FALSE /\ launcherFresh' = {}
    /\ UNCHANGED <<launcher, launcherC, launcherRunningC, jobVars, podVars, podGroupVars,
                   controllerVars, budgetVars>>

LauncherPodStop ==
    /\ launcher.state = "active" /\ launcher.suspend /\ launcherRunning
    /\ launcherRunning' = FALSE /\ launcherPodFresh' = FALSE /\ launcherFresh' = {}
    /\ UNCHANGED <<launcher, launcherC, launcherRunningC, jobVars, podVars, podGroupVars,
                   controllerVars, budgetVars>>

\* The launcher Job completes once its pod has run; it fails at its deadline
\* or back-off limit.
LauncherFinish ==
    /\ launcher.state = "active"
    /\ \/ launcherRunning /\ launcher' = [launcher EXCEPT !.state = "complete"]
       \/ ~launcher.suspend /\ launcher' = [launcher EXCEPT !.state = "failed"]
    /\ launcherRunning' = FALSE /\ launcherFresh' = {}
    /\ launcherPodFresh' = (launcherPodFresh /\ ~launcherRunning)
    /\ UNCHANGED <<launcherC, launcherRunningC, jobVars, podVars, podGroupVars,
                   controllerVars, budgetVars>>

\* ttlSecondsAfterFinished expires.  "afterObserved" stands for a time to live
\* that is long enough for the controller to have seen the job completed.
LauncherExpire ==
    /\ isJobFinished(launcher)
    /\ \/ LauncherTTL = "any"
       \/ /\ LauncherTTL = "afterObserved"
          /\ jobC.status.completed
          /\ pc = "idle" \/ sync.job.status.completed
    /\ launcher' = NoLauncher /\ launcherFresh' = {}
    /\ UNCHANGED <<launcherC, launcherPodVars, jobVars, podVars, podGroupVars,
                   controllerVars, budgetVars>>

\* The kubelet runs a worker pod and reports it ready.
PodProgress ==
    /\ \E i \in Index :
        \/ pods[i] = "Pending" /\ gangComplete /\ SetPod(i, "Running")
        \/ pods[i] = "Running" /\ SetPod(i, "Ready")
    /\ UNCHANGED <<podsC, jobVars, launcherVars, launcherPodVars, podGroupVars,
                   controllerVars, budgetVars>>

PodEnd == [podFails |-> "Failed", podEvicted |-> "Evicted",
           podExits |-> "Succeeded", podDeleted |-> "absent"]

\* A worker pod fails, is evicted, exits or is deleted by somebody else.
PodFault ==
    /\ faults < MaxFaults
    /\ \E i \in Index, kind \in FaultKinds \cap PodFaults :
        /\ pods[i] \in {"Running", "Ready"}
        /\ SetPod(i, PodEnd[kind])
    /\ faults' = faults + 1
    /\ UNCHANGED <<podsC, jobVars, launcherVars, launcherPodVars, podGroupVars,
                   controllerVars, edits>>

\* The controller dies or loses its lease.  Its successor fills the caches
\* from the server before any worker runs, and enqueues every job it lists.
Crash ==
    /\ "crash" \in FaultKinds /\ faults < MaxFaults
    /\ faults' = faults + 1
    /\ pc' = "idle" /\ sync' = NoSync /\ dirty' = TRUE
    /\ jobC' = job /\ launcherC' = launcher /\ launcherRunningC' = launcherRunning
    /\ podsC' = pods /\ podGroupC' = podGroup
    /\ jobFresh' = {"cache"} /\ launcherFresh' = {"cache"}
    /\ podsFresh' = Index /\ launcherPodFresh' = TRUE /\ podGroupFresh' = TRUE
    /\ UNCHANGED <<job, launcher, launcherRunning, pods, podGroup, edits>>

Cluster ==
    \/ UserEdit \/ LauncherPodStart \/ LauncherPodStop \/ LauncherFinish
    \/ LauncherExpire \/ PodProgress \/ PodFault \/ Crash

Next == Controller \/ Deliver \/ Cluster

\* The controller's workers, the informers, the kubelet and the Job controller
\* keep going.  Nobody is obliged to edit a job, to fail or to finish.
Fairness ==
    /\ WF_vars(Controller)
    /\ WF_vars(Deliver)
    /\ WF_vars(PodProgress \/ LauncherPodStart \/ LauncherPodStop)

Safety == Init /\ [][Next]_vars

Spec == Safety /\ Fairness

-----------------------------------------------------------------------------
(* Properties.                                                             *)

\* Every variable has its type.
TypeOK ==
    /\ job \in JobType /\ jobC \in JobType
    /\ launcher \in LauncherType /\ launcherC \in LauncherType
    /\ launcherRunning \in BOOLEAN /\ launcherRunningC \in BOOLEAN
    /\ pods \in [Index -> PodPhases] /\ podsC \in [Index -> PodPhases]
    /\ podGroup \in 0 .. MaxReplicas + 1 /\ podGroupC \in 0 .. MaxReplicas + 1
    /\ jobFresh \subseteq Holders /\ launcherFresh \subseteq Holders
    /\ podsFresh \subseteq Index /\ launcherPodFresh \in BOOLEAN
    /\ podGroupFresh \in BOOLEAN /\ dirty \in BOOLEAN
    /\ pc \in Stages /\ sync \in SyncType
    /\ edits \in 0 .. MaxEdits /\ faults \in 0 .. MaxFaults

\* A job never reports success and failure at once, although an eviction may
\* have marked it Failed before its launcher succeeds (filterOutCondition).
OutcomeNotBoth == ~(isSucceeded(job.status.conds) /\ isFailed(job.status.conds))

\* The result of the launcher, remembered by the job status once it is
\* recorded, and the result the status records.
reportedResult ==
    IF ~job.status.completed THEN "none"
    ELSE IF isSucceeded(job.status.conds) THEN "Succeeded"
    ELSE IF isFailed(job.status.conds) THEN "Failed"
    ELSE "none"

launcherResult ==
    CASE launcher.state = "complete" -> "Succeeded"
      [] launcher.state = "failed"   -> "Failed"
      [] OTHER                       -> reportedResult

Outcome == INSTANCE JobOutcome WITH result <- launcherResult, reported <- reportedResult

\* The job reports the result of its launcher, once, for good and eventually,
\* whatever the caches, retries, lost replies and restarts do
\* (updateGroupJobStatus, and the early return of syncHandler).
ReportsOutcome == Outcome!Spec

\* The launcher of a completed job is not started again, even if its Job has
\* expired: "we want to cleanup and stop retrying the GroupJob".
NoRelaunch ==
    [][job.status.completed /\ launcher.state = "absent"
          => launcher'.state = "absent"]_vars

\* No worker pod is created for a completed job, not by a sync that still
\* reads an older version of the job either (syncHandler, "done").
NoWorkerAfterCompletion ==
    [][job.status.completed =>
          \A i \in Index : pods[i] = "absent" => pods'[i] = "absent"]_vars

Removed(i) == pods[i] # "absent" /\ pods'[i] = "absent"

\* The controller takes a worker pod away only from a job it sees suspended or
\* done, or when its index is beyond the replicas (getOrCreateWorker,
\* "Remove Pods when replicas are scaled down", and cleanUpWorkerPods).
RemovalJustified ==
    [][\A i \in Index : Removed(i) /\ pc # "idle" /\ faults' = faults =>
          \/ sync.job.spec.suspend
          \/ Done(sync.job.status)
          \/ i >= Keep(sync)]_vars

\* The job still runs, or will: it is reconciled and has no result.
Live == job.spec.reconciled /\ ~job.status.completed /\ ~isJobFinished(launcher)

Wanted == {i \in Index : i < job.spec.replicas}

\* A job left suspended ends with no worker pod, with a suspended launcher
\* and with a status that says so.
SuspensionHonoured ==
    <>[](Live /\ job.spec.suspend =>
            /\ \A i \in Wanted : pods[i] = "absent"
            /\ launcher.state = "active" => launcher.suspend
            /\ hasCondition(job.status.conds, "Suspended")
            /\ ~hasCondition(job.status.conds, "Running"))

\* A job left running ends with all its workers, with a launcher that is not
\* suspended, and is not reported suspended.
ResumptionHonoured ==
    <>[](Live /\ ~job.spec.suspend =>
            /\ \A i \in Wanted : pods[i] # "absent"
            /\ launcher.state = "active" => ~launcher.suspend
            /\ ~hasCondition(job.status.conds, "Suspended"))

\* After a change of the replicas the surplus workers go away.
ScalingHonoured ==
    <>[](Live /\ ~job.spec.suspend /\ job.spec.replicas > 0 =>
            \A i \in Index : pods[i] # "absent" <=> i \in Wanted)

\* The launcher Job is created as soon as its creation policy allows.
LauncherCreated ==
    <>[](/\ Live
         /\ \/ job.spec.launcherCreationPolicy = "AtStartup"
            \/ \A i \in Wanted : pods[i] = "Ready"
         => launcher.state # "absent")

\* When everything runs the job is reported Running with all its workers
\* active; the pod events that lead there reach the controller in any order.
RunningReported ==
    <>[](/\ Live /\ ~job.spec.suspend /\ launcherRunning
         /\ \A i \in Wanted : isPodRunning(pods[i])
         => /\ hasCondition(job.status.conds, "Running")
            /\ job.status.worker.active = Cardinality(Wanted))

\* A completed job ends with its workers cleaned up as its policy asks, and
\* without a PodGroup.
CleanUpHonoured ==
    <>[](job.spec.reconciled /\ job.status.completed =>
            /\ job.spec.cleanPodPolicy = "All" => \A i \in Wanted : pods[i] = "absent"
            /\ job.spec.cleanPodPolicy = "Running" =>
                  \A i \in Wanted : pods[i] \notin {"Pending", "Running", "Ready"}
            /\ isCleanUpPods(job.spec) => podGroup = 0)

\* The PodGroup asks for the launcher and all the workers of a running job,
\* and there is none for a suspended one.
PodGroupHonoured ==
    <>[](GangScheduling /\ Live =>
            podGroup = IF job.spec.suspend THEN 0 ELSE job.spec.replicas + 1)

\* The gang of a job that is left running is scheduled: the PodGroup never asks
\* for more pods than the controller brings together, after scaling, suspending
\* and resuming either, so that launcher and workers do not wait for each other.
GangScheduled ==
    <>[](/\ GangScheduling /\ Live /\ ~job.spec.suspend
         /\ job.spec.launcherCreationPolicy = "AtStartup"
         => launcherRunning /\ \A i \in Wanted : pods[i] = "Ready")

\* Nothing is left that would make the controller look at the job again: the
\* key is not queued, no sync runs, and the informers have delivered all there
\* was to deliver.
AtRest ==
    /\ pc = "idle" /\ ~dirty
    /\ "cache" \in jobFresh /\ "cache" \in launcherFresh
    /\ podsFresh = Index /\ launcherPodFresh /\ podGroupFresh

\* The phases of the worker pods that cleanUpWorkerPods leaves behind.
LeftPhases ==
    IF job.spec.cleanPodPolicy = "Running"
      THEN {"absent", "Succeeded", "Failed", "Evicted"} ELSE {"absent"}

\* The PodGroup asks for so many pods, or the cache holds an update that the
\* server did not take.
GroupAsAsked(minMember) == GangScheduling => podGroup = minMember \/ podGroupC # podGroup

EndedAsAsked ==
    isCleanUpPods(job.spec) =>
        /\ \A i \in Wanted : pods[i] \in LeftPhases
        /\ GroupAsAsked(0)
        /\ job.status.worker = ZeroCounts

SuspendedAsAsked ==
    /\ \A i \in Wanted : pods[i] \in LeftPhases
    /\ GroupAsAsked(0)
    /\ launcher.state = "active"
    /\ hasCondition(job.status.conds, "Suspended")
    /\ ~hasCondition(job.status.conds, "Running")
    /\ job.status.worker = ZeroCounts

WantedIn(phases) == Cardinality({i \in Wanted : pods[i] \in phases})

RunningAsAsked ==
    /\ job.spec.replicas > 0 => \A i \in Index : pods[i] # "absent" <=> i \in Wanted
    /\ GroupAsAsked(job.spec.replicas + 1)
    /\ \/ job.spec.launcherCreationPolicy = "AtStartup"
       \/ \A i \in Wanted : pods[i] = "Ready"
       => launcher.state = "active"
    /\ ~hasCondition(job.status.conds, "Suspended")
    /\ launcherRunning /\ (\A i \in Wanted : isPodRunning(pods[i])) =>
            hasCondition(job.status.conds, "Running")
    /\ (\E i \in Wanted : pods[i] = "Evicted") => isFailed(job.status.conds)
    /\ job.status.worker = [set |-> TRUE, active |-> WantedIn({"Running", "Ready"}),
                            succeeded |-> WantedIn({"Succeeded"}),
                            failed |-> WantedIn({"Failed", "Evicted"})]

\* Nothing is forgotten: whatever order calls, failures and events came in,
\* when nothing is left to make the controller look again, pods, launcher,
\* PodGroup and status are as the job's spec asks.
NothingForgotten ==
    AtRest /\ job.spec.reconciled =>
        IF Done(job.status) THEN EndedAsAsked
        ELSE /\ ~isJobFinished(launcher)
             /\ \/ launcher.state = "absent"
                \/ launcher.suspend = job.spec.suspend
                \/ launcherC.suspend # launcher.suspend
             /\ launcher.state = "active" =>
                    job.status.launcher = IF launcherRunning THEN "active" ELSE "inactive"
             /\ IF job.spec.suspend THEN SuspendedAsAsked ELSE RunningAsAsked

(* Statements of the comments that the code does not keep.                 *)

\* "the GroupJob controller [...] will suspend the Launcher Job" (and resume
\* it): once the user leaves the spec alone, an active launcher Job is
\* suspended exactly if its job is.
LauncherAligned ==
    <>[](Live /\ launcher.state = "active" => launcher.suspend = job.spec.suspend)

\* "Set the running condition status to be false when current condition failed
\* or succeeded": a completed job is not reported Running.
CompletedNotRunning ==
    job.status.completed => ~hasCondition(job.status.conds, "Running")

\* "the launcher is created only after all workers are in Ready state": the
\* launcher of a job that is left running is created in the end.
WaitingEnds == <>[](Live /\ ~job.spec.suspend => launcher.state # "absent")

\* "postponed until all workers are in ready state": the pod of a launcher that
\* waits for the workers does not start before they are ready.
WaitsForWorkers ==
    [][/\ ~launcherRunning /\ launcherRunning'
       /\ job.spec.launcherCreationPolicy = "WaitForWorkersReady"
       => \A i \in Wanted : pods[i] = "Ready"]_vars
=============================================================================
