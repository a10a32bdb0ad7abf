# A verification of the GroupJob operator

The repository is a Kubernetes operator. A user creates a `GroupJob` (an
MPIJob): one launcher that runs `mpirun` and a number of workers it reaches
over SSH. The operator turns it into a Service, a ConfigMap with the hostfile,
a Secret with SSH keys, worker Pods, a launcher `batch/v1` Job and, with gang
scheduling, a PodGroup; it follows what becomes of them, scales, suspends,
resumes and cleans up, and reports the state of the job in
`status.conditions`.

These modules describe what the code does when its caches lag, its calls fail,
its processes die and its user changes his mind at any moment. TLC checks small
instances of them, TLAPS proves part of the result for every instance.

    JobOutcome                    what a user is promised
      ^ implemented by
    GroupJobController            syncHandler for one job: caches, calls, cluster
      extends GroupJobConditions    the condition list
      MCGroupJobController          instances: Lifecycle, Suspension, Scaling, Gang, ...
      GroupJobControllerProofs      proof of the type invariant
        GroupJobOutcomeProofs       proofs about results, the refinement, removals

    KeyQueue                      what syncHandler may assume of the process around it
      ^ implemented by
    Operator                      processes, election, informers, queue, workers
      extends WorkQueue             the queue
      MCOperator                    instance: Operators
      LeaderElectionProofs          proof that there is one leader
      WorkQueueProofs               lemmas about the queue
        OperatorProofs              proof of one sync per job, on filled caches
          KeyQueueProofs            proof of the refinement

    DependentObjects              objects by name and owner, several incarnations of a job
      MCDependentObjects            instance: Dependents
      DependentObjectsProofs        proof that other people's objects are left alone

    JobSpec                       defaults and validation
      PodTemplates                  what is built from a spec
        PodGroupResources             what a gang asks for
          JobObjects                    the objects of a job while its spec changes
            MCJobObjects                  instance: Building
            JobObjectsProofs              proof that these objects fit together

Four modules have a state machine of their own (`GroupJobController`,
`Operator`, `DependentObjects`, `JobObjects`). Each keeps one aspect exact and
abstracts the others, and the seams are these: `GroupJobController` takes the
queue as `KeyQueue` promises it, and the Service, ConfigMap and Secret as
one call that may fail (`EnsureDependents`); `DependentObjects` is that call,
with names, owners and deleted jobs; `JobObjects` is what the same calls write,
with caches that are current.

## Inventory

### The parts and how they interact

| Part | State it keeps | Operations | Talks to |
|---|---|---|---|
| Reconciliation: `syncHandler` and what it calls | none between two syncs; its local copy of the job, pointers to cached objects | one sync: read caches, create or change what is missing, write the status | caches (reads, and writes by accident), API server (calls), queue (result of the sync) |
| Status: `mpi_job_controller_status.go`, `updateGroupJobStatus` | `status.conditions`, `replicaStatuses`, start and completion time | `setCondition`, `filterOutCondition`, `initializeGroupJobStatuses` | the local copy of the job |
| Informer caches and handlers: `addGroupJob`, `handleObject`, `handleObjectUpdate`, the generated factory | the last delivered version of every object | deliver an event; find the owner and enqueue it | API server (watch), queue |
| Work queue: `runWorker`, `processNextWorkItem` | keys queued, being processed, to be put back | get, forget, add with back-off | `syncHandler` |
| PodGroups: `podgroup.go` | one PodGroup per gang-scheduled job | create, compare, update, delete; compute minimum resources | API server, scheduler |
| Dependents: Service, ConfigMap, SSH Secret | one of each per job | get or create, check the owner, update | API server |
| Host discovery: `updateDiscoverHostsInConfigMap` | the list of running worker hosts | recompute from the pod cache | ConfigMap |
| Pod templates: `newWorker`, `newLauncherPodTemplate` | none | build objects | none |
| Defaults and validation | none | fill in, accept or reject a spec | the head of `syncHandler`, `addGroupJob` |
| Server: leader election, signals, health check | the lease | start the controller, end the process | API server |
| Metrics and events | counters | increment | nobody in the program reads them |
| API types and generated clients | none | generated code | all of the above |

The cluster around the program takes part as well: the user who edits the
spec, the Job controller that runs and finishes the launcher Job, the
TTL controller and the garbage collector that delete it, the gang scheduler,
the kubelet that moves the Pods, and whoever evicts or deletes them.

### What is hard about it

* **Stale reads.** Every decision is made on caches. They lag behind by any
  time, each object on its own, so a sync may see the launcher finished and
  its pod still running, or a job without a launcher that it created itself.
* **Partial failure.** A sync is up to a dozen API calls, each of which may
  be rejected (name taken, resourceVersion outdated, object gone), may fail, or
  may be applied although the reply is lost. Any error ends the sync in the
  middle; the key goes back into the queue and everything is read again.
* **Interleaving.** Between two calls of one sync the user, the cluster and
  the informers act; between two processes that both believe they lead there
  is only time.
* **Crash.** Losing the lease, a refused watch or a signal ends the process at
  any point (`server.go:252`, `mpi_job_controller.go:361-366`).
* **Shared cached objects.** `syncHandler` copies the job before changing it,
  but not the launcher Job and the PodGroup, and `addGroupJob` changes the
  cached job itself.
* **Names and owners.** Objects are found by name or label and owned by UID; a
  job deleted and created again meets what its predecessor left.
* **Liveness.** No informer resyncs (period 0, `server.go:146-147`,
  `podgroup.go:79`), so a step that neither fails nor triggers an event is
  never repeated.

`PROJECT.json` lists the hazards line by line, each with the properties that
cover it or the reason why none does.

### What makes each part correct

* Reconciliation: the launcher runs at most once to an end; no worker is
  created for a completed job; workers are removed only for a reason; and
  whatever the user left the job at (suspended, resumed, scaled) is what the
  cluster ends at.
* Status: one outcome, the launcher's, reported once and for good; `Running`
  and `Suspended` follow the truth.
* Handlers and queue: no event that matters is lost; a key is never synced by
  two workers or two processes at a time; a failed sync is retried; no sync
  reads a cache that was never filled.
* PodGroups: they ask for the pods of the job and for their resources, exist
  before the pods they hold back, never wait for a pod that cannot come, and
  go away with the job.
* Dependents and host discovery: objects of other owners are never touched; a
  job ends with objects of its own; the host list converges to the running
  workers.
* Templates: hostfile, Service, hostnames, mounts and environment variables of
  one job fit together although they were built at different times.
* Defaults and validation: a spec is not refused for what its author left out,
  and the API server accepts what an accepted spec is turned into.

## GroupJobController: one job under the controller

### State

| Variable | In the code |
|---|---|
| `job`, `launcher`, `launcherRunning`, `pods`, `podGroup` | the objects in the API server: the GroupJob (spec and status), the launcher Job, whether it has a Running pod, the phase of worker pod *i*, the PodGroup's `minMember` |
| `jobC`, `launcherC`, `launcherRunningC`, `podsC`, `podGroupC` | the same in the informer caches |
| `jobFresh`, `launcherFresh` | who holds the object's current resourceVersion: the cache, the running sync |
| `podsFresh`, `launcherPodFresh`, `podGroupFresh` | of which objects the last event was delivered |
| `dirty` | the key is in the queue, or marked to be put back while it is being processed |
| `pc`, `sync` | where `syncHandler` stands and its local variables (`mpiJob`, `launcher`, `worker`, loop index) |
| `edits`, `faults` | budgets that keep an instance finite |

### Actions

| Action | Code (`mpi_job_controller.go` unless said otherwise) |
|---|---|
| `SyncSkip`, `SyncStart` | `processNextWorkItem` and the head of `syncHandler`: managed-by, defaults and validation, first condition, start time, the early return for a finished job, the decision `done` |
| `EnsureDependents` | `getOrCreateService`, `getOrCreateConfigMap`, `getOrCreateSSHAuthSecret`, as one call that may fail (see `DependentObjects`) |
| `GetOrCreatePodGroup` | `getOrCreatePodGroups`, `pgSpecsAreEqual`, `updatePodGroup` |
| `ScaleDown`, `GetOrCreateWorker` | `getOrCreateWorker`: the deletion of surplus pods, then one turn of the loop per replica |
| `CreateLauncher`, `AlignLauncher` | the launcher part of `syncHandler`: creation under its policy, suspension and resumption |
| `DeleteWorkerPod`, `DeletePodGroup` | `cleanUpWorkerPods`: `deleteWorkerPods` pod by pod, `deletePodGroups` |
| `UpdateStatus`, `UpdateFinishedStatus` | `updateGroupJobStatus` with its final write, and the write after the clean-up of a finished job |
| `DeliverJob`, `DeliverLauncher`, `DeliverLauncherPod`, `DeliverPod`, `DeliverPodGroup` | an informer takes the current version of one object and the handler enqueues the owner, or drops the event (`handleObject`) |
| `UserEdit`, `LauncherPodStart`, `LauncherPodStop`, `LauncherFinish`, `LauncherExpire`, `PodProgress`, `PodFault` | the cluster, where `gangComplete` is the gang scheduler: no pod of a PodGroup starts before there are `minMember` pods |
| `Crash` | the process ends; its successor lists everything and enqueues the job |

Each controller action is one API call with what the code does before it and
after its reply. `Replies(accepted)` gives its outcomes: taken or rejected by
the server, and, while the fault budget lasts, an error without effect
(`apiError`) or an effect without reply (`lostReply`). Two neighbouring cache
reads without a call between them are one step.

### Nothing is forgotten

The controller has no resync: what makes it look at a job is an event or an
error. `NothingForgotten` is the property that the liveness of the controller
rests on, as an invariant: when the key is not queued, no sync runs and the
informers have delivered everything (`AtRest`), then the job is as its spec
asks. A suspended job (`SuspendedAsAsked`) has a suspended launcher, no worker
pod that the clean-up policy would remove, no PodGroup, no counts, and says
`Suspended`. A running one (`RunningAsAsked`) has exactly its workers, the
launcher unless that waits for them, the right PodGroup, `Running` when all
pods run, and counts that are those of the pods. A finished one has been cleaned up
(`EndedAsAsked`). There are two exceptions, both of them defects described
below: the PodGroup and the launcher's suspension, where the cached object holds a
write that the server did not take. Worker pods at or beyond the replicas of a
suspended job are not spoken of, as `deleteWorkerPods` does not visit them.

### What is abstracted

* **Incarnations.** One GroupJob from its creation on: it is not deleted and
  created anew, and no object of another owner has its name. Ownership checks
  and UID comparisons are `DependentObjects`' part.
* **Delivery.** A cache jumps to the current version of an object and skips
  intermediate ones. Informers do coalesce; a handler that sees more versions
  only enqueues the same key more often.
* **Pods.** A deleted pod is gone at once; graceful termination is left out. The
  launcher's pod is one Boolean: whether the Job has a Running pod. The
  replica-index label is modelled, the rest of the template is not.
* **Status.** Conditions are a function from types to a status and a reason:
  the slice holds at most one entry per type and its order is never read.
  Times are Booleans (set or not), messages are left out, the many reasons of
  a failure other than an eviction are one, `replicaStatuses.Launcher.failed`
  is left out.
* **Spec.** Replicas, suspend, clean-pod policy, launcher-creation policy, and
  whether the job is reconciled at all. A spec that fails validation, names
  another manager or belongs to a terminating job is `reconciled = FALSE`.
  `schedulingPolicy.minAvailable` is not given, so `minMember` is the
  workers plus one.
* **Launcher expiry.** `LauncherTTL` says when the finished Job may be
  deleted: never, once the controller has seen its job completed, or at any
  time. With `"any"` a very short TTL hides the result, and the
  controller starts the launcher again: this is why `NoRelaunch` is about
  completed jobs, and is checked with `"afterObserved"`.

### Fairness

`Fairness` has three parts, and the code's scheduling gives each of them.

* `WF(Controller)`: `Run` starts workers that loop over the queue until the
  process ends, and a key whose sync failed is added again
  (`AddRateLimited`). The back-off delays it but does not drop it.
* `WF(Deliver)`: the informers' watches keep delivering; a broken watch is
  listed anew.
* `WF(PodProgress \/ LauncherPodStart \/ LauncherPodStop)`: the kubelet and the
  Job controller do their work.

Nobody is obliged to edit, to fail, to crash or to finish: a launcher may run
forever. Liveness is stated as `<>[](premise => goal)` for whatever the user leaves
the job at; edits and faults are finite in number, so such a moment exists.

The instances may stop: once a job is as its spec asks, its events are
delivered and the budgets used, nothing is left to do. That is the purpose of
a controller, and the `.cfg` files of this module say `CHECK_DEADLOCK FALSE`.

## JobOutcome: the promise

Two variables, the launcher's `result` and the `reported` one; two steps,
`Finish` and `Report`; and a result does not stay unreported (`[]<>` says it, since
neither a result nor a report is taken back). `ReportsOutcome`
is this specification under the refinement mapping of `GroupJobController`
(`launcherResult`, `reportedResult`). It rules out that a status
reports a result before there is one, another one than the launcher's, a
second one later, none at all, or that it takes one back. An
eviction is not a result: it sets `Failed` without a completion time, and a
job that was marked like this may still succeed.

## KeyQueue, WorkQueue and Operator: the process around a sync

### KeyQueue: the promise

Three sets of keys: `due`, those that a sync has to follow; `busy`, those
that are being synced, by whatever worker of whatever process; `failing`, the
busy ones whose sync has returned an error. A due key is taken by one worker at
a time; the key of a failed sync is due again when it ends; a restart makes every
key due; and, under fairness, a due key is taken. This is what
`GroupJobController` presumes with `dirty`, `pc`, `Fails` and `Crash`.

### WorkQueue

client-go's queue as the code relies on it (external), a record and its
operations: `Add`, `AddRateLimited`, `Get`, `QueueDone`, `ShutDown`. A key
added while it is being processed waits for its worker to call `Done`.
`enqueueGroupJob` uses `AddRateLimited` for every event and
`processNextWorkItem` for every error; a key so added waits in `waiting`.

### Operator

| Variable | In the code |
|---|---|
| `crd` | whether the GroupJob CRD is installed (`checkCRDExists`) |
| `holder`, `seen` | the identity in the lease; how long each candidate has seen it unchanged |
| `stage` | down, candidate (`RunOrDie` without the lease), syncing (`WaitForCacheSync`), working, draining (`controller.Run` has returned) |
| `signalled`, `renewal`, `timer` | the signal context; the leader's renew loop and its deadline |
| `informers`, `news` | whether each informer is requested, started or synced; for each job what the caches and handlers still lack |
| `queue`, `hands`, `erred` | the work queue; the key each worker holds; whether its sync has failed |

| Action | Code |
|---|---|
| `Start`, `Signal`, `Stopped`, `Crash` | `Run` in `server.go`: CRD check, signal handler, exit |
| `Observe`, `Acquire`, `Renew`, `LoseLease`, `Tick` | client-go's election with `leaseDuration`, `renewDuration`, `retryPeriod`, and `OnStartedLeading`, `OnStoppedLeading` |
| `StartInformer`, `SyncInformer`, `WatchRefused` | the generated factory's `Start`, the informers' first lists, `SetWatchErrorHandler` |
| `StartWorkers`, `StopController` | `GroupJobController.Run` |
| `Change`, `See`, `Hear` | an object changes, the watch brings it, the handler enqueues the key |
| `BackOffOver`, `Begin`, `SyncFails`, `End` | the queue's delay; `processNextWorkItem` before, in and after `syncHandler` |

A process that ends loses everything it has and starts again with a new
identity; `ReleaseOnCancel` is not set, so the lease stays with nobody
(`Departed`) until it expires. Stopping is not graceful: the comment above
`Run` says that it waits "for workers to finish processing their current work
items", but it returns when the queue is shut down, and the process exits under
the workers. That is harmless for the same reason as a crash: the
next leader lists everything.

**Time.** What matters of 15, 5 and 3 seconds is `RenewDeadline + RetryPeriod +
RenewDeadline < LeaseDuration`, the assumption `DurationsAssumption`; the
instance has 4, 1 and 1. `Tick` cannot pass a deadline at which the
leader has to act. This leaves out a process that is paused past its
deadline and goes on with a call afterwards, against which the code has no
protection, and a candidate whose acquiring call takes long.

**Fairness.** The kubelet restarts a process that has ended; the goroutines of
a live one run (election, each informer, each handler, the back-off timers,
each worker); time passes. Nobody is obliged to crash, to stop a process, to
change an object or to install the CRD.

## DependentObjects: names and owners

### State and actions

| Variable | In the code |
|---|---|
| `job`, `lastUID` | the GroupJob of the name, with the UID of this incarnation and its replicas |
| `deps` | the dependents (`Service`, `ConfigMap`, `Secret`) and the launcher Job: owner and data. The ConfigMap's data are the number of hostfile lines and the hosts of `discover_hosts.sh` |
| `pods` | worker pods by the index in their name: owner, phase, whether they have an index label |
| `strangers` | history, which no action reads: whether a worker pod was ever somebody else's, or without an index label |
| `jobC`, `depsC`, `podsC`, `depsNews`, `podsNews`, `jobFresh` | the caches, and which events are still to come; `"owned"` if any of them shows an object of a GroupJob |
| `dirty`, `pc`, `sync`, `events` | as in `GroupJobController`; `sync.uid` is the job the sync works for |

| Action | Code |
|---|---|
| `SyncStart` | the head of `syncHandler` with `getLauncherJob`, whose foreign Job is an error |
| `GetOrCreate` | `getOrCreateService`, `getOrCreateConfigMap`, `getOrCreateSSHAuthSecret`: created, taken, updated from a copy with its resourceVersion, or an error for an object of another owner |
| `ScaleDown`, `GetOrCreateWorker` | `getOrCreateWorker` with its listing by labels, the pod without an index label (line 961), and the ownership check |
| `CreateLauncher` | `newLauncherJob` and its creation |
| `DeliverJob`, `DeliverDep`, `DeliverPod` | `addGroupJob`, `handleObject`: the owner is looked up in the cache of jobs, by name; a missed deletion comes as a tombstone |
| `CreateJob`, `EditJob`, `DeleteJob`, `GarbageCollect`, `MeddleWithDep`, `MeddleWithPod`, `PodRuns`, `PodFails`, `Crash` | the cluster |

`OthersUntouched` says what a sync may do to an object that is not its
job's: nothing. The pods that a scale-down deletes are the exception, since they are
selected by labels and not by owner. Liveness (`JobGetsItsOwn`,
`HostsListed`) has two premises that stand for limits of the code: a pod that
has the workers' labels and no index stops the creation of workers without an
error, and a pod of somebody else's is listed as a host and leaves without an
event that would enqueue the job. `strangers` remembers whether the one or the other
has happened, so that a premise is on a state and not on the whole behaviour. Foreign
objects go away in the end or the properties ask for nothing (`Unhindered`).

`NothingForgotten` is their core without fairness, an invariant, in the states in which no
sync runs or is queued and no event is on its way (`AtRest`): every dependent, the launcher
and the wanted pods belong to this incarnation of the job, no other pod does, the
contents are those the controller writes, and the hosts of the ConfigMap are the
running workers. It needs only the premise on pods without an index, and none on foreign
objects: as long as one is in the way, syncs fail and the job is not at rest.

**Fairness.** The workers, each informer, the kubelet and the garbage collector
keep going. Users, faults and other people are not obliged to do anything.

## JobSpec, PodTemplates, PodGroupResources, JobObjects: what is built

* `JobSpec` is `default.go` and `validation.go`: `SetDefaults`,
  `ValidateGroupJob` and every rule under it; a name is known by its length,
  for what an appended suffix can do is make it too long. `GroupJobSpecCopies`
  are the copies a `DeepCopy` may see while `addGroupJob` sets the
  defaults in the cached object.
* `PodTemplates` is `newJobService`, `newConfigMap`, `newSSHAuthSecret`,
  `newWorker`, `newLauncherPodTemplate`, `decoratePodTemplateSpec`: of each
  object what refers to another one.
* `PodGroupResources` is the pure part of `podgroup.go`. The map of
  replica specs is iterated in any order, so `newPodGroups` is a set.
* `JobObjects` runs syncs over them: a submitted spec, defaults, validation, and
  the calls in the order of `syncHandler` (`Successor`), of which any may be
  the last of its sync (`SyncFails`), while the user edits the spec.
  `settled` is the spec of a sync that got to its end.

The properties relate objects that different calls, and syncs of different
specs, have built. `MinResourcesRight` compares `calPGMinResource` with a
definition that does not sort or adjust anything: the sum over the first
`minMember` pods of the gang, by priority. It presumes that the launcher's
priority is not below the workers'; otherwise line 374 of `podgroup.go`
raises the launcher's replicas to `minMember - 1`, and the PodGroup asks for
several launchers. A negative `minAvailable` without workers would read
`order[1]` of one entry (line 366).

The instance edits the replicas, the size of the gang, the MPI implementation,
and `runLauncherAsWorker` while nothing runs yet (`Edit` says so). Toggled on a
running job it would give two pods one index, since existing pods keep their
labels; the code has no rule against that edit, and `IndexUnique` says nothing
about it.

## Runs

| Run | Instance | What it shows |
|---|---|---|
| `Lifecycle` | 1 worker, 2 edits of `suspend`, 1 fault (API error, lost reply, crash, eviction, deletion), expiring launcher | `TypeOK`; `OutcomeNotBoth`: never Succeeded and Failed at once; `NoRelaunch`; `NoWorkerAfterCompletion`; `NothingForgotten`: at rest, the job is as its spec asks |
| `Suspension` | 1 worker, 1 edit, 1 lost reply or crash, fairness | `ReportsOutcome` (the refinement of `JobOutcome`); `SuspensionHonoured`, `ResumptionHonoured`, `CleanUpHonoured` |
| `Scaling` | 1 to 2 workers, a launcher that waits for them, one version of the spec invalid, 1 edit, 1 API error or lost reply, fairness | `RemovalJustified`, `ScalingHonoured`, `LauncherCreated`, `RunningReported`, `NothingForgotten` |
| `Gang` | gang scheduling, 0 or 1 workers, suspended or not, 1 edit, fairness | `PodGroupHonoured`; `GangScheduled`: launcher and workers never wait for each other; `NothingForgotten` |
| `Operators` | 2 processes, 2 workers each, 2 jobs, 2 informers, 1 change, 2 faults of 6 kinds, fairness | `TypeOK`, `AtMostOneLeader`, `OneSyncPerKey`, `SyncsReadFilledCaches`; `KeepsKeyQueue` (the refinement of `KeyQueue`) |
| `Dependents` | 2 incarnations of a job, 1 worker, the ConfigMap and the launcher, 1 event of 8 kinds, fairness | `TypeOK`, `OthersUntouched`, `JobGetsItsOwn`, `HostsListed`, `NothingForgotten` |
| `Building` | 103 specs, up to 3 workers, 2 edits, syncs that end anywhere | `TypeOK`, `AcceptedByServer`, `HostsMatchPods`, `MountsPresent`, `IndexUnique`, `GangMembers`, `MinResourcesRight`, `DefaultsAccepted` |
| `StaleSuspend` | as `Suspension`, with 1 API error | violates `LauncherAligned` |
| `RunningAfterEnd` | 1 worker, no edit, no fault | violates `CompletedNotRunning` |
| `ResumeUnready` | created suspended, waits for workers | violates `WaitsForWorkers` |
| `PaddedLabels` | 2 workers, `runLauncherAsWorker` | violates `RemovalJustified` |
| `GangWaits` | gang scheduling, waits for workers, no edit, no fault | violates `WaitingEnds` |

**Bounds.** In `GroupJobController`: `MaxReplicas` (1 or 2 worker pods),
`MaxEdits`, `MaxFaults`; nothing else is bounded, in particular not the number of
syncs, events or retries. The code treats worker pods alike and reads them only
through their index and through counts, so one worker shows every order of
events around a pod, and two show a loop that is interrupted in the middle, a
surplus of one and a remaining one. Two edits are a suspension and its
resumption, before, while or after the controller acts on either. One fault is
enough to leave any step half-done; a second would hit the retry, which starts
from the same caches.

In `Operators`, two processes make a succession of leaders, and two workers
and two keys a queue in which a key waits for another and a worker is idle. A
change is one event that meets a queue in any state; two faults are, for example,
a failing sync and the crash of its process, or the loss of two leases. Two
informers stand for nine: the one whose list enqueues jobs and one
more to wait for.

In `Dependents`, `MaxUID` 2 is a job and its successor. The last incarnation is
not deleted: then there is nothing to converge to. `Dependents` holds
the ConfigMap alone, the dependent with changing contents; Service and Secret
go through the same code paths with constant data.

In `Building`, `Radix` 2 makes the names of the third worker longer than that of
the second, so that lengths around the limit of 63 are met with 3
workers; the gangs are smaller than, as large as and larger than their job, with a
launcher whose priority is above, below or that of the workers, or that names an unknown
class or none; and every field of the spec has valid and invalid values on its own.

`Suspension` and `Gang` leave API errors out because with one of them the
liveness does not hold: that is what `StaleSuspend` shows, and
`podgroup.go:151` has the same defect. The instances other than
`Operators` may stop: once a job is as its spec asks, its events are delivered
and the budgets used, nothing is left to do, so their `.cfg` says
`CHECK_DEADLOCK FALSE`. An operator always has a lease to renew.

### Where the code disagrees with its comments

1. **`StaleSuspend`** (line 679). The launcher returned by
   `getLauncherJob` is the informer's own object. Its `suspend` is set in
   place before the Update is sent. If the Update fails, the cache already
   holds the wish, the retry sees nothing to do, and the launcher of a
   suspended job runs on. Line 577 says never to modify objects from the store.
   A conflict is harmless: the event that caused it repairs the cache.
   `updatePodGroup` (`podgroup.go:151` and 286) does the same to a PodGroup.
2. **`RunningAfterEnd`** (line 1128). When the launcher has finished, `worker` is
   nil and zero of zero workers run; if the pod cache still shows the
   launcher's pod, the job is reported `Succeeded` and `Running`, for good.
3. **`ResumeUnready`** (line 664). A job created suspended has no worker slice, and
   zero of zero workers are ready. Its launcher Job is created at once and
   starts with the resumption, before any worker, though
   `types.go:162` says the launcher waits for them.
4. **`PaddedLabels`** (line 965). With `runLauncherAsWorker` labels are padded by
   one, the scale-down compares them with the unpadded replicas and deletes a
   worker that should stay.
5. **`GangWaits`** (`podgroup.go:396`). The default `minMember` counts the
   launcher. A launcher that waits for ready workers is not there, so the gang
   is never complete and the workers never run. `types.go:62` says the
   default is the number of workers, with which the job would run.

Disagreements without a run:

* A job that is scaled down and suspended before the controller acts keeps the
  surplus worker pods while it is suspended: `deleteWorkerPods` (line 1021)
  visits only the indices below the present replicas. `types.go:133` says all
  active pods are deleted.
* `addGroupJob` (line 1179) sets defaults in the cached object, against line
  577, while a worker may be copying it. `DefaultsAccepted` shows that the sync
  completes whatever fields it copied; a string read half-written would
  end the process.
* `types.go:109` gives `Running` as the default clean-pod policy and
  `default.go:53` sets `None`; `types.go:350` gives 1 as the default of
  replicas, but a worker's is 0, which validation refuses.
* A job that is suspended keeps its start time (`types.go:137`); the PodGroup of a finished job
  with policy `None` is never deleted.
* `podgroup.go:106` lists `minResources: nil` among the defaults of Volcano's
  PodGroup; they are calculated, as line 173 says.

## Proofs

Everything here is proved for every value of the constants that satisfies the
named assumptions, all of which say that constants are of their types or, for
`DurationsAssumption`, what the three durations of `server.go` satisfy, or that
`Absent` is no other value. Theorems with a further hypothesis name it below.
`Safety` is the specification without fairness.

### GroupJobController

`GroupJobControllerProofs` and `GroupJobOutcomeProofs`, from
`ReplicasAssumption`, `SpecsAssumption`, `BoundsAssumption`,
`FaultsAssumption` and `FlagsAssumption`, for any number of workers, specs, edits and faults, with or
without gang scheduling:

* `TypeCorrect`: `Safety => []TypeOK`. Types alone are
  not inductive: that the loop index of `getOrCreateWorker` names a pod, and that
  `MaxReplicas` bounds it, depends on the stage. `TypeInv` adds `LoopOK`, which relates
  `pc`, `sync.ix` and the replicas of the sync's copy of the job. There is
  one lemma for each action and lemmas for what they share: `Goto`,
  `EndCall`, `SetPod`, `setCondition`, `NewJobStatus`.
* `OutcomeExclusive`: `Safety => []OutcomeNotBoth`. The
  condition functions do not ensure it: `filterOutCondition` lowers
  `Failed` when `Succeeded` comes in, but not the other way round, so a
  `Failed` that comes after a `Succeeded` leaves both True. What saves the
  job is the order in `syncHandler`. `OutcomeInv` says it: the statuses of
  the job, of its cached version and of the running sync's copy are exclusive
  (`Exclusive`), and, in `SyncDecides`, a sync that reaches a stage that may still set
  an outcome works on a job that is not decided yet (`Undecided`), and
  one that read no workers cannot find an evicted one (`WorkersUnread`). A stale status is no
  danger, since it is exclusive itself.
* `LauncherStartsOnce`: `NoRelaunch`, and `WorkersEndWithJob`:
  `NoWorkerAfterCompletion`. Both are about a step of a sync with an old cache,
  so the invariant must say what old caches can hold. `ResultInv` does:
  `CopiesLag`, the cached job and the sync's copy are not completed before the
  job is, and have its result if their resourceVersion is current;
  `EndOf`, a launcher that the cache or the sync takes for finished is, with that
  result, or has expired after the controller saw the job completed (`Observed`);
  `EndsKnown`, what one sync has found out, the next one finds in the caches
  again; `Recorded`, a completed job records its launcher's result, or
  the launcher has expired; `EarlyUndecided`, a sync in a stage up to the creation
  of the launcher works on a job that is not completed, in the server either.
  Their hypothesis is `LauncherTTL # "any"`: with `ttlSecondsAfterFinished`
  so short that a finished launcher may be deleted before the controller
  has seen it, the controller does start it again.
* `ImplementsJobOutcome`: `Safety => Outcome!Safety` under the same hypothesis, where
  `Outcome!Safety` is `JobOutcome` without its promise that a result is
  reported in the end: under the refinement mapping the initial states are
  initial, and every step is `Finish`, `Report` or a stutter.
* `RemovalsJustified`: `RemovalJustified`, if `~RunLauncherAsWorker`. `RemovalInv` says
  that a sync which deletes pods has a reason in its copy of the job: an index
  beyond the replicas, suspension, or the end of the job (`Justified`). The hypothesis
  excludes the defect that the run `PaddedLabels` exhibits.
* `NothingIsForgotten`: `Safety => []NothingForgotten`, with no hypothesis about the
  launcher. The invariant is `RestInv`, and its argument is that of the code: a
  call that changes anything makes a cache stale, and the event that refreshes
  the cache adds the key again. So, as long as the key is not queued and the
  caches of job, launcher Job, pods and PodGroup are current (`Quiet`), the
  running sync has changed nothing, and what it has passed is as the job asks
  (`Progress`, stage by stage: `Grouped`, `Taken`, `Staffed`, `Launched`,
  `Aligned`, `Cleaned`, `StatusDue`). When it has ended, the status it computed was
  the one already there (`Told`). `Quiet` leaves out the launcher's pod, because
  an event of it may be dropped (line 1228); it is only at rest that the
  theorem reads it. `CachesKnow` says what current caches hold, without what the
  code writes into them in place; `SuspendedCounts` that a status that says
  `Suspended` counts no workers, without which the early exit of a suspended
  job would leave old counts. That a scale-down which finds no surplus label leaves
  exactly the wanted pods is a pigeonhole argument on cardinalities
  (`StaffedPods`), which holds for labels padded by `runLauncherAsWorker` as well.
  TLC checked `RestInv` on the instances of four runs before it was
  proved. What is left of `SuspensionHonoured`, `ResumptionHonoured`,
  `ScalingHonoured`, `LauncherCreated`, `RunningReported`, `CleanUpHonoured` and
  `PodGroupHonoured` is that the controller comes to rest.

### Operator

`LeaderElectionProofs`, `WorkQueueProofs`, `OperatorProofs` and
`KeyQueueProofs`, from `DurationsAssumption`, `ConstantsAssumption`,
`OperatorBoundsAssumption` and `OperatorFaultsAssumption`, for any
number of processes, jobs, workers, informers and faults:

* `OneLeader`: `Safety => []AtMostOneLeader`. That a leader
  holds the lease (`LeaderHolds`) is not inductive, since another
  process takes it when it has seen it unchanged for `LeaseDuration`.
  `ElectionInv` adds that the leader's timer never passes its deadline
  (`TimerBounded`) and that no candidate has seen the lease unchanged for longer than
  the leader's phase and timer allow (`LeaseYoung`). The worst case is a lease
  written at the very start of a renewal whose reply takes `RenewDeadline`,
  then the pause of `RetryPeriod`, then a renewal that fails for another
  `RenewDeadline`: 5 + 3 + 5 < 15 seconds.
* `OperatorTypeCorrect`, `OneSyncAtATime`, `CachesFilled`: `TypeOK`,
  `OneSyncPerKey` and `SyncsReadFilledCaches` from one invariant,
  `OperatorInv`. Within a process the workers' hands hold different keys
  (`HandsApart`), and exactly those that the queue counts as processing
  (`HandsKnown`), none of which it still holds as queued (`QueueType`). Between
  processes it is the lease: whoever has a key in his hands leads
  (`HandsLead`), and by `ElectionInv` one process leads. Caches are filled since a
  process with workers has passed `WaitForCacheSync` (`WorkersWait`).
  `WorkQueueProofs` has the lemmas about the queue's operations, on
  sequences without repetition.
* `ImplementsKeyQueue`: `Safety => KQ!Safety`, where `KQ!Safety` is `KeyQueue`
  without its fairness. The steps that matter are those at which keys change
  hands between processes. `DueInv` adds that before a process has workers every job is
  on its way to them, by its informers or already in the queue (`Covered`), so
  that nothing is forgotten between the first list and the start of the workers;
  that a queue refuses keys only when the controller stops (`QueueOpen`); and that only a worker
  with a key has an error (`ErredBusy`). `MapInv` adds what the refinement mapping
  of `due` and `busy` is for each stage of a leader.

### DependentObjects

`DependentObjectsProofs`, from the assumptions of that module, for any number of
incarnations of the job, workers, dependents and events:

* `DependentsTypeCorrect`: `Safety => []TypeOK`.
* `OthersKept`: `OthersUntouched`. The controller decides on a cached object and
  acts on the server's. `CachesCurrent` is what makes that safe: a dependent
  without outstanding events is in the cache as it is in the server; with
  outstanding ones its resourceVersion makes the server reject the Update, and
  the creation of what exists is rejected for its name.
* `NothingIsForgotten`: `Safety => []NothingForgotten`, from `RestInv`. UIDs are not
  used twice (`UidsKnown`); a cache differs from the server only where an event is to
  come, and where none of them shows an object of a GroupJob, the object is not the
  job's (`NewsKnown`); a sync works for the cached incarnation and
  its replicas, unless the key has been queued since (`SyncKnown`). `ProgressInv` then says of each
  stage that every dependent and pod it has passed is right or has an event to come
  that will enqueue the job (`DepRight`, `PodMade`, `PodGone`). The
  scale-down begins only if there are more pods than replicas; that otherwise no
  pod beyond them exists once the first ones do (`NotMore`) is an argument on
  cardinalities again. As long as `strangers` has seen no pod without an index,
  every pod has one, in the caches too (`PodsLabelled`).

### JobObjects

`JobObjectsProofs`, for any set of submitted specs, any number of workers, any
radix and any number of edits, with calls that fail anywhere. Besides
`ResourceListsAssumption`, `AbsentAssumption`, `RadixAssumption`, `PriorityClassesAssumption` and
`EditsAssumption` the theorems have the hypothesis `AbsentApart`: `Absent`, which
stands for a nil pointer, is not a function, as records are, and not the
set of the Secret's keys. TLC takes a model value for `Absent`, which is different from
both; it cannot evaluate the formula, so it is a hypothesis and not an
assumption of the model.

* `ObjectsInvariant`: `Spec => []ObjectsInv`. The properties compare objects that
  different syncs, from different specs, have built, so the
  invariant says of each pod only what does not depend on the sync that made it:
  `WorkerPod` and `LauncherPod` (`PodsInv`). `StageInv` is the order of the calls: what
  exists at which stage, made from the spec of this sync. `NeedsInv` is what
  survives a failed sync: if there is any pod, then there is all that it needs.
  `JobInv` says that the sync's copy passed the validation, has the length of name
  of the spec, and the same `runLauncherAsWorker`, which only changes while no pod exists.
* `TypeCorrect`, `HostsFound`, `MountsFound`, `IndicesUnique`, `GangsComplete`:
  `TypeOK`, `HostsMatchPods`, `MountsPresent`, `IndexUnique` and `GangMembers`
  follow from it.
* `Accepting`: `AcceptedByServer`. `validateGroupJobName` checks one hostname, that of
  the last worker. That this is enough rests on `DigitsGrow`: a higher index has no
  fewer digits. `Digits` is defined by the powers of `Radix`, a recursive function; that
  it is a function, and grows, is proved by induction over a set of
  numbers (`Induction`, from `WellFoundedInduction`). The launcher's name fits since
  "-launcher" is as long as "-worker-" and one digit.
* `MinResourcesExact`: `MinResourcesRight`. `AskedInv` says that the PodGroup that a
  sync has made, and the one of `settled`, is one of those `newPodGroups` returns.
  The rest is about the pure functions. Containers and replica specs are added
  up by recursive functions over their indices, whose values are proved by
  induction over a set of numbers (`Recursion`, `Induction`): the sum is linear
  in the replicas, resource by resource, for the PodGroup and for the
  reference definition, which walks through the pods of the gang one at a time
  (`MinResourcesOfGang`). The two orders in which Go's map iteration may leave equal
  priorities need a case each. Besides `AbsentApart` the theorem has the
  hypothesis `MinMembersNatural`: no submitted `minAvailable` is negative.
  Validation does not look at it, and with a negative one line 372 of `podgroup.go`
  sets a negative number of replicas.
* `DefaultsSuffice`: `DefaultsAccepted`. Each fault of the validation is traced to
  a field that the user gave. `SpecCopies` is the race with `addGroupJob`: whichever
  fields of the cached object had their defaults when they were copied, the sync ends up with the
  same spec.
* `DefaultsIdempotent`: setting the defaults twice is setting them once.

### What stays with TLC

* Everything under fairness: `SuspensionHonoured`, `ResumptionHonoured`,
  `CleanUpHonoured`, `ScalingHonoured`, `LauncherCreated`, `RunningReported`,
  `PodGroupHonoured`, `GangScheduled`, `JobGetsItsOwn`, `HostsListed`, and the
  liveness halves of `ReportsOutcome` and `KeepsKeyQueue`. Liveness and
  `ENABLED` are out of the prover's reach.

No invariant and no action property of a run is left to TLC alone. What a
recursive definition computes is proved where it is a recursive function over
numbers (`Digits`, `Total`, `addContainers`): induction is then a statement about a set, and
needs no operator as a parameter.

## Plan

Modelled and checked: all of the modules above. Proved: every invariant and
every action property that a passing run checks, `NothingForgotten` in both
modules of the reconciliation, and the safety half of both refinements. What
is left:

1. What the seams promise one another: `EnsureDependents` of `GroupJobController`
   against `DependentObjects`, which have a common abstraction only in the prose
   above.
2. That the controller comes to rest once users and faults do. With
   `NothingForgotten` this is all that the liveness properties of the
   reconciliation add to what is proved, `GangScheduled` excepted, which also
   needs the scheduler and the kubelet; it needs fairness and stays with TLC.

## Not modelled

* **Metrics and events.** Written and never read. The counters are incremented
  before the status is written (line 605), so a repeated sync counts twice.
* **Flags, client sets, the health and metrics endpoints.** Start-up
  I/O; a failure ends the process, as `Crash` does.
* **Generated code.** The OpenAPI schema, the apply configurations, the clientset
  and its fakes are close to half of the lines of the implementation and have
  no behaviour of this program's. The informer factory, the lister and the deep copies are modelled
  as far as the controller depends on them.
* **Delays of the back-off.** A key added with `AddRateLimited` waits for some
  time. Since line 1193 adds keys that way for events too, an edit of a job whose
  syncs keep failing waits up to 1000 seconds (`server.go:74`); no property is
  about how long.
* **Contents that are copied from the user's pod templates**, the generation of
  SSH keys, timestamps, messages and the `Replicas` selector.
* **The launcher's `completions`, its pod failures and retries**: the
  `batch/v1` Job is external, and its result is `Complete` or `Failed`.
