-------------------------------- MODULE Operator --------------------------------
(***************************************************************************)
(* The operator processes of cmd/group-operator: of several that run, one  *)
(* holds the lease and runs the controller.  It starts its informers,      *)
(* waits for their caches, and lets its workers take keys from the queue   *)
(* until it is stopped, loses the lease or dies.                           *)
(*                                                                         *)
(* server.go hands the election to client-go with three durations.  Time   *)
(* is counted in ticks; what each process can tell is the time since it    *)
(* saw the lease change, never the clock of another.                       *)
(***************************************************************************)
EXTENDS WorkQueue, Integers, FiniteSets

CONSTANTS
    Procs,          \* the replicas of the operator
    Keys,           \* the GroupJobs, by their keys
    Workers,        \* --threadiness worker goroutines in each process
    Informers,      \* the informers the controller waits for
    LeaseDuration, RenewDeadline, RetryPeriod,
    MaxChanges,     \* how often objects of a job change
    MaxFaults,      \* how many of the events in FaultKinds may happen
    FaultKinds,     \* the failures of this instance
    Nobody, Departed, Nothing   \* values apart from processes and keys

\* The informer whose first list notifies of every job.
JobInformer == "GroupJob"

ASSUME ConstantsAssumption ==
    /\ JobInformer \in Informers
    /\ Nobody \notin Procs /\ Departed \notin Procs /\ Nothing \notin Keys
ASSUME DurationsAssumption ==
    /\ LeaseDuration \in Nat /\ RenewDeadline \in Nat /\ RetryPeriod \in Nat
    /\ RenewDeadline + RetryPeriod + RenewDeadline < LeaseDuration
ASSUME OperatorBoundsAssumption == MaxChanges \in Nat /\ MaxFaults \in Nat
ASSUME OperatorFaultsAssumption ==
    FaultKinds \subseteq {"crash", "signal", "leaseLost", "listError", "syncError",
                    "forbidden"}

VARIABLES
    \* The API server.
    crd,        \* is the GroupJob CRD installed?
    holder,     \* the identity in the lease
    \* Each process.
    stage,      \* see Stages
    signalled,  \* has the process received SIGTERM or SIGINT?
    renewal,    \* the renew loop of the holder
    timer,      \* time in this phase of the loop
    seen,       \* time since this process saw the lease change, or Unseen
    informers,  \* state of each informer
    news,       \* what the informers still have to say about each key
    queue,      \* the work queue
    hands,      \* the key each worker is processing, or Nothing
    erred,      \* the workers whose sync has returned an error
    \* Budgets.
    changes, faults

leaseVars == <<holder, renewal, timer, seen>>
processVars == <<crd, leaseVars, stage, signalled>>
controllerVars == <<informers, news, queue, hands, erred>>
vars == <<processVars, controllerVars, changes, faults>>

Unseen == -1

\* down: not running.  candidate: in RunOrDie, without the lease.  syncing: run
\* waits for the caches.  working: the workers are started.  draining:
\* controller.Run has returned, the process is still there.
Stages == {"down", "candidate", "syncing", "working", "draining"}

Leading(p) == stage[p] \in {"syncing", "working", "draining"}

\* resting: the last renewal succeeded.  trying: calls are under way.  renewed:
\* the server has renewed the lease, the reply is under way.
Renewals == {"resting", "trying", "renewed"}

InformerStates == {"requested", "started", "synced"}

\* unlisted: not in the cache.  unseen: the cache holds an older state.
\* unheard: the cache is current, the handler has not run.  heard: nothing.
NewsStates == {"unlisted", "unseen", "unheard", "heard"}

TypeOK ==
    /\ crd \in BOOLEAN
    /\ holder \in Procs \cup {Nobody, Departed}
    /\ stage \in [Procs -> Stages]
    /\ signalled \in [Procs -> BOOLEAN]
    /\ renewal \in [Procs -> Renewals]
    /\ timer \in [Procs -> 0 .. RenewDeadline + RetryPeriod]
    /\ seen \in [Procs -> Unseen .. LeaseDuration]
    /\ informers \in [Procs -> [Informers -> InformerStates]]
    /\ news \in [Procs -> [Keys -> NewsStates]]
    /\ queue \in [Procs -> QueueType(Keys)]
    /\ hands \in [Procs -> [Workers -> Keys \cup {Nothing}]]
    /\ erred \in [Procs -> SUBSET Workers]
    /\ changes \in 0 .. MaxChanges /\ faults \in 0 .. MaxFaults

\* The controller's constructor asks the factories for its informers, before
\* anything runs them; asked twice, a factory gives the same informer.
InformerFor == [i \in Informers |-> "requested"]

\* What NewGroupJobControllerWithClock builds.
NoController ==
    [informers |-> InformerFor,
     news |-> [k \in Keys |-> "unlisted"],
     queue |-> Empty,
     hands |-> [w \in Workers |-> Nothing],
     erred |-> {}]

Init ==
    /\ crd \in BOOLEAN /\ holder = Nobody
    /\ stage = [p \in Procs |-> "down"]
    /\ signalled = [p \in Procs |-> FALSE]
    /\ renewal = [p \in Procs |-> "resting"]
    /\ timer = [p \in Procs |-> 0]
    /\ seen = [p \in Procs |-> Unseen]
    /\ informers = [p \in Procs |-> NoController.informers]
    /\ news = [p \in Procs |-> NoController.news]
    /\ queue = [p \in Procs |-> NoController.queue]
    /\ hands = [p \in Procs |-> NoController.hands]
    /\ erred = [p \in Procs |-> NoController.erred]
    /\ changes = 0 /\ faults = 0

Fault(kind) == kind \in FaultKinds /\ faults < MaxFaults /\ faults' = faults + 1

-----------------------------------------------------------------------------
(* The life of a process (Run in server.go).                               *)

\* Only the reply "not found" to the list says that the CRD is missing.
checkCRDExists(listFails) == crd \/ listFails

\* The process starts, and exits at once if the CRD does not exist: then it is
\* still "down".
Start(p) ==
    /\ stage[p] = "down"
    /\ \/ checkCRDExists(FALSE) /\ UNCHANGED faults
       \/ checkCRDExists(TRUE) /\ Fault("listError")
    /\ stage' = [stage EXCEPT ![p] = "candidate"]
    /\ UNCHANGED <<crd, leaseVars, signalled, controllerVars, changes>>

\* The process is gone, with its queue and its caches.  Its next start has
\* another identity, and the lease keeps the old one: ReleaseOnCancel is not set.
Gone(p) ==
    /\ stage' = [stage EXCEPT ![p] = "down"]
    /\ signalled' = [signalled EXCEPT ![p] = FALSE]
    /\ holder' = IF holder = p THEN Departed ELSE holder
    /\ renewal' = [renewal EXCEPT ![p] = "resting"]
    /\ timer' = [timer EXCEPT ![p] = 0]
    /\ seen' = [seen EXCEPT ![p] = Unseen]
    /\ informers' = [informers EXCEPT ![p] = NoController.informers]
    /\ news' = [news EXCEPT ![p] = NoController.news]
    /\ queue' = [queue EXCEPT ![p] = NoController.queue]
    /\ hands' = [hands EXCEPT ![p] = NoController.hands]
    /\ erred' = [erred EXCEPT ![p] = NoController.erred]
    /\ UNCHANGED <<crd, changes>>

Crash(p) == stage[p] # "down" /\ Fault("crash") /\ Gone(p)

\* The signal closes stopCh.  Two goroutines act on it: controller.Run, or the
\* wait for the caches, returns (StopController), and the election's context is
\* cancelled (Stopped).
Signal(p) ==
    /\ stage[p] # "down" /\ ~signalled[p]
    /\ Fault("signal")
    /\ signalled' = [signalled EXCEPT ![p] = TRUE]
    /\ UNCHANGED <<crd, leaseVars, stage, controllerVars, changes>>

\* controller.Run returns: deferred, the queue is shut down.  The workers are
\* not waited for.
StopController(p) ==
    /\ signalled[p] /\ stage[p] = "working"
    /\ stage' = [stage EXCEPT ![p] = "draining"]
    /\ queue' = [queue EXCEPT ![p] = ShutDown(@)]
    /\ UNCHANGED <<crd, leaseVars, signalled, informers, news, hands, erred, changes, faults>>

\* RunOrDie returns, and OnStoppedLeading, or an error of Run, is fatal.
Stopped(p) ==
    /\ signalled[p]
    /\ Gone(p)
    /\ UNCHANGED faults

-----------------------------------------------------------------------------
(* Leader election (election.RunOrDie, external), configured by server.go. *)

\* The lease is written: its other readers have not seen this version.
LeaseWrittenBy(p, hold) ==
    /\ holder' = hold
    /\ seen' = [q \in Procs |-> Unseen]

\* A candidate reads a lease that has changed since it last did.
Observe(p) ==
    /\ stage[p] = "candidate"
    /\ holder # Nobody /\ seen[p] = Unseen
    /\ seen' = [seen EXCEPT ![p] = 0]
    /\ UNCHANGED <<crd, holder, renewal, timer, stage, signalled, controllerVars, changes,
                   faults>>

\* Mutant of mayAcquire: a lease that was not renewed during a retry is taken.
MutMayAcquire(p) == holder = Nobody \/ seen[p] >= RetryPeriod

\* The lease is free, or has not changed for its duration.
mayAcquire(p) == holder = Nobody \/ seen[p] >= LeaseDuration

\* The candidate takes the lease and calls run, which builds the informer
\* factories, the queue and the controller.
Acquire(p) ==
    /\ stage[p] = "candidate"
    /\ mayAcquire(p)
    /\ LeaseWrittenBy(p, p)
    /\ stage' = [stage EXCEPT ![p] = "syncing"]
    /\ renewal' = [renewal EXCEPT ![p] = "trying"]
    /\ timer' = [timer EXCEPT ![p] = 0]
    /\ UNCHANGED <<crd, signalled, controllerVars, changes, faults>>

\* The loop of the leader: a renewal is attempted for RenewDeadline, and the
\* next one begins RetryPeriod after one that succeeded.
Renew(p) ==
    /\ Leading(p) /\ holder = p
    /\ \/ /\ renewal[p] = "resting" /\ timer[p] = RetryPeriod
          /\ renewal' = [renewal EXCEPT ![p] = "trying"]
          /\ timer' = [timer EXCEPT ![p] = 0]
          /\ UNCHANGED <<holder, seen>>
       \/ /\ renewal[p] = "trying"
          /\ renewal' = [renewal EXCEPT ![p] = "renewed"]
          /\ LeaseWrittenBy(p, p)
          /\ UNCHANGED timer
       \/ /\ renewal[p] = "renewed"
          /\ renewal' = [renewal EXCEPT ![p] = "resting"]
          /\ timer' = [timer EXCEPT ![p] = 0]
          /\ UNCHANGED <<holder, seen>>
    /\ UNCHANGED <<crd, stage, signalled, controllerVars, changes, faults>>

\* No renewal was confirmed in time: OnStoppedLeading ends the process.
LoseLease(p) ==
    /\ Leading(p) /\ renewal[p] # "resting" /\ timer[p] = RenewDeadline
    /\ Fault("leaseLost")
    /\ Gone(p)

\* Time passes, but not over a deadline at which the leader has to act.
Tick ==
    /\ \A p \in Procs : Leading(p) =>
            timer[p] < IF renewal[p] = "resting" THEN RetryPeriod ELSE RenewDeadline
    /\ timer' = [p \in Procs |-> IF Leading(p) THEN timer[p] + 1 ELSE timer[p]]
    /\ seen' = [p \in Procs |->
                  IF seen[p] \in 0 .. LeaseDuration - 1 THEN seen[p] + 1 ELSE seen[p]]
    /\ UNCHANGED <<crd, holder, renewal, stage, signalled, controllerVars, changes, faults>>

-----------------------------------------------------------------------------
(* The informers (factory.go) and the start of the workers (Run in         *)
(* mpi_job_controller.go).                                                 *)

\* Start of the factory, in a goroutine of its own: it runs the informer, once.
StartInformer(p, i) ==
    /\ Leading(p)
    /\ informers[p][i] = "requested"
    /\ informers' = [informers EXCEPT ![p][i] = "started"]
    /\ UNCHANGED <<processVars, news, queue, hands, erred, changes, faults>>

\* The informer's first list is in the cache.  That of the GroupJobs needs the
\* CRD, and leaves a notification for every job.
SyncInformer(p, i) ==
    /\ informers[p][i] = "started"
    /\ i = JobInformer => crd
    /\ informers' = [informers EXCEPT ![p][i] = "synced"]
    /\ news' = IF i = JobInformer
                 THEN [news EXCEPT ![p] = [k \in Keys |-> "unheard"]] ELSE news
    /\ UNCHANGED <<processVars, queue, hands, erred, changes, faults>>

\* Mutant of allSynced: only the jobs are waited for.
MutAllSynced(p) == informers[p][JobInformer] = "synced"

\* cache.WaitForCacheSync over the list that Run puts together.
allSynced(p) == \A i \in Informers : informers[p][i] = "synced"

StartWorkers(p) ==
    /\ stage[p] = "syncing" /\ ~signalled[p]
    /\ allSynced(p)
    /\ stage' = [stage EXCEPT ![p] = "working"]
    /\ UNCHANGED <<crd, leaseVars, signalled, controllerVars, changes, faults>>

\* The error handler of NewGroupJobControllerWithClock: an informer that is not
\* allowed to list or watch its objects ends the process.
WatchRefused(p, i) ==
    /\ informers[p][i] # "requested"
    /\ Fault("forbidden")
    /\ Gone(p)

\* Something changes in the cluster that concerns the job of a key: every cache
\* that has listed it is behind.
Change(key) ==
    /\ crd /\ changes < MaxChanges
    /\ changes' = changes + 1
    /\ news' = [p \in Procs |->
                  IF news[p][key] = "unlisted" THEN news[p]
                  ELSE [news[p] EXCEPT ![key] = "unseen"]]
    /\ UNCHANGED <<processVars, informers, queue, hands, erred, faults>>

\* The watch brings the change into the cache.
See(p, key) ==
    /\ news[p][key] = "unseen"
    /\ news' = [news EXCEPT ![p][key] = "unheard"]
    /\ UNCHANGED <<processVars, informers, queue, hands, erred, changes, faults>>

\* enqueueGroupJob: the handler adds the key, as if it had failed, so that it
\* waits out a back-off.
Hear(p, key) ==
    /\ news[p][key] = "unheard"
    /\ news' = [news EXCEPT ![p][key] = "heard"]
    /\ queue' = [queue EXCEPT ![p] = AddRateLimited(@, key)]
    /\ UNCHANGED <<processVars, informers, hands, erred, changes, faults>>

InstallCRD ==
    /\ ~crd /\ crd' = TRUE
    /\ UNCHANGED <<leaseVars, stage, signalled, controllerVars, changes, faults>>

-----------------------------------------------------------------------------
(* The queue and the workers (processNextWorkItem).                        *)

BackOffOver(p, key) ==
    /\ key \in queue[p].waiting
    /\ queue' = [queue EXCEPT ![p] = Ready(@, key)]
    /\ UNCHANGED <<processVars, informers, news, hands, erred, changes, faults>>

\* A worker takes a key.  Those of a queue that was shut down empty it first.
Begin(p, w) ==
    /\ stage[p] \in {"working", "draining"}
    /\ hands[p][w] = Nothing
    /\ canGet(queue[p])
    /\ hands' = [hands EXCEPT ![p][w] = Head(queue[p].queue)]
    /\ queue' = [queue EXCEPT ![p] = Get(@)]
    /\ UNCHANGED <<processVars, informers, news, erred, changes, faults>>

\* Mutant of Finished: a key whose sync has failed is not put back.
MutFinished(q, key, failed) == QueueDone(q, key)

\* The key of a failed sync is added again before the deferred Done.
Finished(q, key, failed) ==
    QueueDone(IF failed THEN AddRateLimited(q, key) ELSE q, key)

\* syncHandler returns an error.
SyncFails(p, w) ==
    /\ hands[p][w] # Nothing /\ w \notin erred[p]
    /\ Fault("syncError")
    /\ erred' = [erred EXCEPT ![p] = @ \cup {w}]
    /\ UNCHANGED <<processVars, informers, news, queue, hands, changes>>

End(p, w) ==
    /\ hands[p][w] # Nothing
    /\ queue' = [queue EXCEPT ![p] = Finished(@, hands[p][w], w \in erred[p])]
    /\ hands' = [hands EXCEPT ![p][w] = Nothing]
    /\ erred' = [erred EXCEPT ![p] = @ \ {w}]
    /\ UNCHANGED <<processVars, informers, news, changes, faults>>

-----------------------------------------------------------------------------

Process(p) ==
    \/ Start(p) \/ Crash(p) \/ Signal(p) \/ StopController(p) \/ Stopped(p)
    \/ Observe(p) \/ Acquire(p) \/ Renew(p) \/ LoseLease(p) \/ StartWorkers(p)
    \/ \E i \in Informers : StartInformer(p, i) \/ SyncInformer(p, i) \/ WatchRefused(p, i)
    \/ \E key \in Keys : See(p, key) \/ Hear(p, key) \/ BackOffOver(p, key)
    \/ \E w \in Workers : Begin(p, w) \/ SyncFails(p, w) \/ End(p, w)

Next ==
    \/ \E p \in Procs : Process(p)
    \/ \E key \in Keys : Change(key)
    \/ InstallCRD \/ Tick

\* The kubelet restarts a process that has ended, and the goroutines of a live
\* one run.  Nothing obliges it to crash or to be stopped, the cluster to change
\* or the administrator to install the CRD.
Fairness ==
    /\ WF_vars(Tick)
    /\ \A p \in Procs :
        /\ WF_vars(Start(p)) /\ WF_vars(Stopped(p))
        /\ WF_vars(Observe(p)) /\ WF_vars(Acquire(p)) /\ WF_vars(Renew(p))
        /\ WF_vars(LoseLease(p)) /\ WF_vars(StartWorkers(p))
        /\ \A i \in Informers : WF_vars(StartInformer(p, i) \/ SyncInformer(p, i))
        /\ \A key \in Keys :
            WF_vars(See(p, key) \/ Hear(p, key)) /\ WF_vars(BackOffOver(p, key))
        /\ \A w \in Workers : WF_vars(Begin(p, w)) /\ WF_vars(End(p, w))

Safety == Init /\ [][Next]_vars

Spec == Safety /\ Fairness

-----------------------------------------------------------------------------
(* Properties.                                                             *)

\* At no time do two processes run the controller, although each knows of the
\* lease only what it read last and replies to renewals may be late.
AtMostOneLeader ==
    \A p, q \in Procs : Leading(p) /\ Leading(q) => p = q

\* A sync only reads caches that were filled from the server after its process
\* took the lease (Run, "Wait for the caches to be synced before starting
\* workers"): what an earlier leader created is there.
SyncsReadFilledCaches ==
    \A p \in Procs : (\E w \in Workers : hands[p][w] # Nothing) =>
        \A i \in Informers : informers[p][i] = "synced"

\* No job is synced twice at a time, by two workers or by two processes: the
\* interleavings of syncHandler with itself that GroupJobController leaves out.
OneSyncPerKey ==
    \A p, q \in Procs, v, w \in Workers :
        hands[p][v] = hands[q][w] /\ hands[p][v] # Nothing => p = q /\ v = w

Working == {p \in Procs : stage[p] = "working" /\ ~signalled[p]}

\* A key is due while the leader's informers, handlers or queue hold something
\* for it, and for as long as nobody leads.
Due == IF ~crd THEN {}
       ELSE IF Working = {} THEN Keys
       ELSE {key \in Keys : \E p \in Working :
                \/ news[p][key] # "heard"
                \/ key \in queue[p].waiting \cup queue[p].dirty}

Busy == {key \in Keys : \E p \in Procs, w \in Workers : hands[p][w] = key}

Failing == {key \in Keys : \E p \in Procs : \E w \in erred[p] : hands[p][w] = key}

KQ == INSTANCE KeyQueue WITH due <- Due, busy <- Busy, failing <- Failing

\* The operator keeps the promise the reconciliation is written against: no job
\* has two syncs at a time in the whole cluster, every change is followed by a
\* sync that can see it, a failed sync by another, whatever the restarts.
KeepsKeyQueue == KQ!Spec
=============================================================================
