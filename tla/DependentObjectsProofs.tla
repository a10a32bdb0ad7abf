------------------------- MODULE DependentObjectsProofs -------------------------
(***************************************************************************)
(* The type invariant of DependentObjects, that a sync keeps its hands off *)
(* the objects that are not its job's, and that its own are as the job     *)
(* asks for when nothing is left to make the controller look again.        *)
(*                                                                         *)
(* A dependent is found by name in a cache that lags behind, so looking at *)
(* its owner there is not enough.  A Create is safe because the server     *)
(* rejects it if the name is taken; an Update because the copy it is made  *)
(* from carries the resourceVersion, and the version the server accepts is *)
(* the one whose owner was looked at: CachesCurrent.                       *)
(*                                                                         *)
(* RestInv: as long as nothing is on its way to a cache and the key is not *)
(* queued, what the running sync has passed is right and stays right.      *)
(***************************************************************************)
EXTENDS DependentObjects, FiniteSetTheorems, TLAPS

\* An object without an event to come is the one in the cache.
CachesCurrent == \A k \in Kinds : depsNews[k] = "none" => depsC[k] = deps[k]

-----------------------------------------------------------------------------
(* Objects and calls.                                                      *)

LEMMA Constants ==
    /\ MaxReplicas \in Nat /\ MaxUID \in Nat /\ MaxEvents \in Nat
    /\ NewReplicas \subseteq 0 .. MaxReplicas
    /\ \A n \in DOMAIN Dependents : Dependents[n] \in Kinds
    /\ Kinds \subseteq {"Service", "ConfigMap", "Secret", "Launcher"}
    /\ \A k \in Kinds \ {"Launcher"} : \E n \in DOMAIN Dependents : Dependents[n] = k
BY DependentsAssumption, DependentsBounds DEF Kinds, Range

\* The number of the first dependent, and of the one after another.
LEMMA NextDependent ==
    /\ Dependents[1] \in Kinds
    /\ \A n \in DOMAIN Dependents : n < Len(Dependents) => Dependents[n + 1] \in Kinds
<1>1. /\ Len(Dependents) \in Nat /\ Len(Dependents) # 0
      /\ DOMAIN Dependents = 1 .. Len(Dependents)
  BY DependentsAssumption
<1> QED
  BY <1>1, Constants

\* Objects that are written have their type, and so has what is left in the
\* informer's queue.
LEMMA SetDepType ==
    ASSUME deps \in [Kinds -> DepType], depsNews \in [Kinds -> NewsType],
           NEW k \in Kinds, NEW object \in DepType, SetDep(k, object)
    PROVE  deps' \in [Kinds -> DepType] /\ depsNews' \in [Kinds -> NewsType]
BY DEF SetDep, MoreNews, NewsType

LEMMA SetPodType ==
    ASSUME pods \in [Index -> PodType], podsNews \in [Index -> NewsType], strangers \subseteq Strange,
           NEW i \in Index, NEW pod \in PodType, SetPod(i, pod)
    PROVE  /\ pods' \in [Index -> PodType] /\ podsNews' \in [Index -> NewsType]
           /\ strangers' \subseteq Strange
BY DEF SetPod, MoreNews, NewsType, Strangeness, Strange

LEMMA ObjectTypes ==
    /\ PlainData \in DataType /\ NoDep \in DepType /\ NoPod \in PodType
    /\ \A owner \in Owners \cup {Nobody} :
          /\ [owner |-> owner, data |-> PlainData] \in DepType
          /\ newWorker(owner) \in PodType
    /\ 0 .. MaxUID \subseteq Owners \cup {Nobody}
    /\ NoSync \in SyncType /\ NoJob \in JobType
BY Constants DEF PlainData, DataType, NoDep, DepType, NoPod, PodType, newWorker, NoSync, SyncType,
   NoJob, JobType, Owners, UIDs, Nobody, Foreign

LEMMA NewDataType ==
    ASSUME NEW k, NEW s \in SyncType
    PROVE  newData(k, s) \in DataType
<1>1. getRunningWorkerPods \subseteq Index
  BY DEF getRunningWorkerPods, workerPods
<1> QED
  BY <1>1, ObjectTypes DEF newData, PlainData, DataType, SyncType

\* A failing call is an event of the budget.
LEMMA CallType ==
    ASSUME events \in 0 .. MaxEvents, NEW accepted, NEW reply \in Replies(accepted),
           events' = IF reply \in {"apiError", "lostReply"} THEN events + 1 ELSE events
    PROVE  events' \in 0 .. MaxEvents
BY Constants DEF Replies

\* The server applies no call that it does not accept.
LEMMA AppliedCall ==
    ASSUME NEW accepted, NEW reply \in Replies(accepted), Applied(reply)
    PROVE  accepted
BY DEF Replies, Applied

-----------------------------------------------------------------------------
(* The type invariant.                                                     *)

\* What a sync step leaves of the controller.
ControllerType == dirty \in BOOLEAN /\ pc \in Stages /\ sync \in SyncType

LEMMA EndType ==
    /\ Fails => ControllerType'
    /\ dirty \in BOOLEAN /\ Return => ControllerType'
BY ObjectTypes DEF Fails, Return, Goto, ControllerType, Stages

LEMMA GotoType ==
    ASSUME dirty \in BOOLEAN, NEW stage \in Stages, NEW s \in SyncType, Goto(stage, s)
    PROVE  ControllerType'
BY DEF Goto, ControllerType

LEMMA AdvanceType ==
    ASSUME TypeOK, NEW k \in Kinds \ {"Launcher"}, Advance(k)
    PROVE  ControllerType'
<1>1. PICK n \in DOMAIN Dependents : n = CHOOSE m \in DOMAIN Dependents : Dependents[m] = k
  BY Constants
<1>2. [sync EXCEPT !.todo = workerPods] \in SyncType
  BY DEF TypeOK, SyncType, workerPods
<1>3. \/ n < Len(Dependents) /\ Goto(Dependents[n + 1], sync)
      \/ Goto("scaledown", [sync EXCEPT !.todo = workerPods])
      \/ Goto("workers", sync)
  BY <1>1 DEF Advance
<1>4. /\ n < Len(Dependents) => Dependents[n + 1] \in Stages
      /\ {"scaledown", "workers"} \subseteq Stages
  BY NextDependent DEF Stages
<1> QED
  BY <1>2, <1>3, <1>4, GotoType DEF TypeOK

LEMMA SyncStartType == ASSUME TypeOK, SyncStart PROVE TypeOK'
<1>1. UNCHANGED <<jobVars, depVars, podVars, events>>
  BY DEF SyncStart
<1>2. ControllerType'
  <2>1. CASE ~listed /\ dirty' = FALSE /\ UNCHANGED <<pc, sync>>
    BY <2>1 DEF ControllerType, TypeOK
  <2>2. CASE Fails
    BY <2>2, EndType
  <2>3. CASE /\ dirty' = FALSE /\ pc' = Dependents[1]
             /\ sync' = [NoSync EXCEPT !.uid = jobC.uid, !.replicas = jobC.replicas,
                                       !.launcherExists = Exists(depsC["Launcher"])]
    <3>1. [NoSync EXCEPT !.uid = jobC.uid, !.replicas = jobC.replicas,
                         !.launcherExists = Exists(depsC["Launcher"])] \in SyncType
      BY ObjectTypes DEF TypeOK, JobType, NoSync, SyncType, Exists
    <3> QED
      BY <2>3, <3>1, NextDependent DEF ControllerType, Stages
  <2> QED
    BY <2>1, <2>2, <2>3 DEF SyncStart
<1> QED
  BY <1>1, <1>2 DEF TypeOK, ControllerType, jobVars, depVars, podVars

LEMMA GetOrCreateType == ASSUME TypeOK, NEW k \in Kinds, GetOrCreate(k) PROVE TypeOK'
<1>1. k # "Launcher" /\ UNCHANGED <<jobVars, depsC, podVars>>
  BY DEF GetOrCreate
<1>2. newData(k, sync) \in DataType
  BY NewDataType DEF TypeOK
<1>3. /\ [owner |-> sync.uid, data |-> newData(k, sync)] \in DepType
      /\ [depsC[k] EXCEPT !.data = newData(k, sync)] \in DepType
  BY <1>2, ObjectTypes DEF TypeOK, SyncType, DepType
<1>4. ASSUME NEW accepted, NEW reply \in Replies(accepted), NEW object \in DepType,
             IF Applied(reply) THEN SetDep(k, object) ELSE UNCHANGED <<deps, depsNews>>,
             EndCall(reply, Advance(k))
      PROVE  TypeOK'
  <2>1. deps' \in [Kinds -> DepType] /\ depsNews' \in [Kinds -> NewsType]
    BY <1>4, SetDepType DEF TypeOK
  <2>2. events' \in 0 .. MaxEvents
    BY <1>4, CallType DEF TypeOK, EndCall
  <2>3. ControllerType'
    BY <1>1, <1>4, EndType, AdvanceType DEF EndCall
  <2> QED
    BY <1>1, <2>1, <2>2, <2>3 DEF TypeOK, ControllerType, jobVars, podVars
<1>5. ASSUME Fails \/ Advance(k), UNCHANGED <<deps, depsNews, events>>
      PROVE  TypeOK'
  <2>1. ControllerType'
    BY <1>1, <1>5, EndType, AdvanceType
  <2> QED
    BY <1>1, <1>5, <2>1 DEF TypeOK, ControllerType, jobVars, podVars
<1> QED
  BY <1>3, <1>4, <1>5 DEF GetOrCreate

LEMMA ScaleDownType == ASSUME TypeOK, ScaleDown PROVE TypeOK'
<1>1. UNCHANGED <<jobVars, depVars, podsC>>
  BY DEF ScaleDown
<1>2. PICK i \in sync.todo :
        \/ /\ Goto("Launcher", [sync EXCEPT !.todo = {}])
           /\ UNCHANGED <<pods, podsNews, strangers, events>>
        \/ /\ AfterScaleDown(sync.todo \ {i})
           /\ UNCHANGED <<pods, podsNews, strangers, events>>
        \/ \E reply \in Replies(Exists(pods[i])) :
               /\ IF Applied(reply) THEN SetPod(i, NoPod) ELSE UNCHANGED <<pods, podsNews, strangers>>
               /\ EndCall(reply, AfterScaleDown(sync.todo \ {i}))
  BY DEF ScaleDown
<1>3. /\ i \in Index
      /\ [sync EXCEPT !.todo = {}] \in SyncType
      /\ [sync EXCEPT !.todo = sync.todo \ {i}] \in SyncType
  BY DEF TypeOK, SyncType
<1>4. {"Launcher", "workers", "scaledown"} \subseteq Stages
  BY DEF Stages, Kinds
<1>5. AfterScaleDown(sync.todo \ {i}) => ControllerType'
  BY <1>3, <1>4, GotoType DEF AfterScaleDown, TypeOK
<1>6. CASE /\ Goto("Launcher", [sync EXCEPT !.todo = {}])
           /\ UNCHANGED <<pods, podsNews, strangers, events>>
  <2>1. ControllerType'
    BY <1>3, <1>4, <1>6, GotoType DEF TypeOK
  <2> QED
    BY <1>1, <1>6, <2>1 DEF TypeOK, ControllerType, jobVars, depVars
<1>7. CASE AfterScaleDown(sync.todo \ {i}) /\ UNCHANGED <<pods, podsNews, strangers, events>>
  BY <1>1, <1>5, <1>7 DEF TypeOK, ControllerType, jobVars, depVars
<1>8. ASSUME NEW reply \in Replies(Exists(pods[i])),
             IF Applied(reply) THEN SetPod(i, NoPod) ELSE UNCHANGED <<pods, podsNews, strangers>>,
             EndCall(reply, AfterScaleDown(sync.todo \ {i}))
      PROVE  TypeOK'
  <2>1. /\ pods' \in [Index -> PodType] /\ podsNews' \in [Index -> NewsType]
        /\ strangers' \subseteq Strange
    BY <1>3, <1>8, SetPodType, ObjectTypes DEF TypeOK
  <2>2. events' \in 0 .. MaxEvents
    BY <1>8, CallType DEF TypeOK, EndCall
  <2>3. ControllerType'
    BY <1>5, <1>8, EndType DEF EndCall
  <2> QED
    BY <1>1, <2>1, <2>2, <2>3 DEF TypeOK, ControllerType, jobVars, depVars
<1> QED
  BY <1>2, <1>6, <1>7, <1>8

LEMMA GetOrCreateWorkerType == ASSUME TypeOK, GetOrCreateWorker PROVE TypeOK'
<1> DEFINE i == sync.ix
           next == [sync EXCEPT !.ix = @ + 1]
<1>1. UNCHANGED <<jobVars, depVars, podsC>>
  BY DEF GetOrCreateWorker
<1>2. "Launcher" \in Stages /\ "workers" \in Stages
  BY DEF Stages, Kinds
<1>3. i < sync.replicas => next \in SyncType /\ i \in Index
  <2>1. /\ sync \in SyncType
        /\ i < sync.replicas => i + 1 \in 0 .. MaxReplicas /\ i \in Index
    BY Constants DEF TypeOK, SyncType, Index
  <2> QED
    BY <2>1 DEF SyncType
<1>4. newWorker(sync.uid) \in PodType
  BY ObjectTypes DEF TypeOK, SyncType
<1>5. ASSUME ControllerType', UNCHANGED <<pods, podsNews, strangers, events>> PROVE TypeOK'
  BY <1>1, <1>5 DEF TypeOK, ControllerType, jobVars, depVars
<1>6. CASE Goto("Launcher", sync) /\ UNCHANGED <<pods, podsNews, strangers, events>>
  BY <1>2, <1>5, <1>6, GotoType DEF TypeOK
<1>7. ASSUME i < sync.replicas, NEW reply \in Replies(~Exists(pods[i])),
             IF Applied(reply) THEN SetPod(i, newWorker(sync.uid))
                               ELSE UNCHANGED <<pods, podsNews, strangers>>,
             EndCall(reply, Goto("workers", next))
      PROVE  TypeOK'
  <2> HIDE DEF next
  <2>1. /\ pods' \in [Index -> PodType] /\ podsNews' \in [Index -> NewsType]
        /\ strangers' \subseteq Strange
    BY <1>3, <1>4, <1>7, SetPodType DEF TypeOK
  <2>2. events' \in 0 .. MaxEvents
    BY <1>7, CallType DEF TypeOK, EndCall
  <2>3. ControllerType'
    BY <1>2, <1>3, <1>7, EndType, GotoType DEF EndCall, TypeOK
  <2> QED
    BY <1>1, <2>1, <2>2, <2>3 DEF TypeOK, ControllerType, jobVars, depVars
<1>8. CASE /\ i < sync.replicas
           /\ IF IsControlledBy(podsC[i], sync.uid) THEN Goto("workers", next) ELSE Fails
           /\ UNCHANGED <<pods, podsNews, strangers, events>>
  <2> HIDE DEF next
  <2> QED
    BY <1>2, <1>3, <1>5, <1>8, EndType, GotoType DEF TypeOK
<1> QED
  BY <1>6, <1>7, <1>8 DEF GetOrCreateWorker

LEMMA CreateLauncherType == ASSUME TypeOK, CreateLauncher PROVE TypeOK'
<1>1. UNCHANGED <<jobVars, depsC, podVars>> /\ "Launcher" \in Kinds
  BY DEF CreateLauncher, Kinds
<1>2. [owner |-> sync.uid, data |-> PlainData] \in DepType
  BY ObjectTypes DEF TypeOK, SyncType
<1>3. CASE Return /\ UNCHANGED <<deps, depsNews, events>>
  BY <1>1, <1>3, EndType DEF TypeOK, ControllerType, jobVars, podVars
<1>4. ASSUME NEW reply \in Replies(~Exists(deps["Launcher"])),
             IF Applied(reply)
               THEN SetDep("Launcher", [owner |-> sync.uid, data |-> PlainData])
               ELSE UNCHANGED <<deps, depsNews>>,
             EndCall(reply, Return)
      PROVE  TypeOK'
  <2>1. deps' \in [Kinds -> DepType] /\ depsNews' \in [Kinds -> NewsType]
    BY <1>1, <1>2, <1>4, SetDepType DEF TypeOK
  <2>2. events' \in 0 .. MaxEvents
    BY <1>4, CallType DEF TypeOK, EndCall
  <2>3. ControllerType'
    BY <1>4, EndType DEF EndCall, TypeOK
  <2> QED
    BY <1>1, <2>1, <2>2, <2>3 DEF TypeOK, ControllerType, jobVars, podVars
<1> QED
  BY <1>3, <1>4 DEF CreateLauncher

\* Each step of a sync leaves every variable with its type.
LEMMA ControllerTypeStep == ASSUME TypeOK, Controller PROVE TypeOK'
<1>1. ASSUME NEW k \in Kinds, GetOrCreate(k) PROVE TypeOK'
  BY <1>1, GetOrCreateType
<1> QED
  BY <1>1, SyncStartType, ScaleDownType, GetOrCreateWorkerType, CreateLauncherType DEF Controller

LEMMA DeliverType == ASSUME TypeOK, Deliver PROVE TypeOK'
<1> USE DEF TypeOK, jobVars, depVars, podVars, controllerVars
<1>1. CASE DeliverJob
  BY <1>1 DEF DeliverJob
<1>2. ASSUME NEW k \in Kinds, DeliverDep(k) PROVE TypeOK'
  <2>1. (dirty \/ handleObject(depsNews[k])) \in BOOLEAN
    OBVIOUS
  <2> QED
    BY <1>2, <2>1 DEF DeliverDep, NewsType
<1>3. CASE DeliverPod
  BY <1>3 DEF DeliverPod, NewsType
<1> QED
  BY <1>1, <1>2, <1>3 DEF Deliver

\* Users, the garbage collector, other people and the kubelet.
LEMMA ClusterType == ASSUME TypeOK, Cluster PROVE TypeOK'
<1> USE Constants DEF jobVars, depVars, podVars, controllerVars
<1>1. CASE CreateJob
  <2>1. job' \in JobType /\ lastUID' \in 0 .. MaxUID
    BY <1>1 DEF CreateJob, TypeOK, JobType
  <2> QED
    BY <1>1, <2>1 DEF CreateJob, TypeOK
<1>2. CASE EditJob
  <2>1. job' \in JobType /\ events' \in 0 .. MaxEvents
    BY <1>2 DEF EditJob, Event, TypeOK, JobType
  <2> QED
    BY <1>2, <2>1 DEF EditJob, TypeOK
<1>3. CASE DeleteJob
  BY <1>3, ObjectTypes DEF DeleteJob, TypeOK
<1>4. ASSUME \/ Event("orphan") \/ Event("meddle") \/ Event("unlabelled")
             \/ UNCHANGED events
      PROVE  events' \in 0 .. MaxEvents
  BY <1>4 DEF Event, TypeOK
<1>5. ASSUME NEW k \in Kinds, NEW object \in DepType, SetDep(k, object),
             events' \in 0 .. MaxEvents,
             UNCHANGED <<jobVars, depsC, podVars, controllerVars>>
      PROVE  TypeOK'
  <2>1. deps' \in [Kinds -> DepType] /\ depsNews' \in [Kinds -> NewsType]
    BY <1>5, SetDepType DEF TypeOK
  <2> QED
    BY <1>5, <2>1 DEF TypeOK
<1>6. ASSUME NEW i \in Index, NEW pod \in PodType, SetPod(i, pod),
             events' \in 0 .. MaxEvents,
             UNCHANGED <<jobVars, depVars, podsC, controllerVars>>
      PROVE  TypeOK'
  <2>1. /\ pods' \in [Index -> PodType] /\ podsNews' \in [Index -> NewsType]
        /\ strangers' \subseteq Strange
    BY <1>6, SetPodType DEF TypeOK
  <2> QED
    BY <1>6, <2>1 DEF TypeOK
<1>7. /\ \A dep \in DepType : /\ [dep EXCEPT !.owner = Foreign] \in DepType
                             /\ [dep EXCEPT !.data.intact = FALSE] \in DepType
      /\ \A pod \in PodType : /\ [pod EXCEPT !.owner = Foreign] \in PodType
                              /\ [pod EXCEPT !.phase = "Running"] \in PodType
                              /\ [pod EXCEPT !.phase = "Failed"] \in PodType
      /\ [owner |-> Foreign, data |-> PlainData] \in DepType
      /\ \A kind : [owner |-> Foreign, phase |-> "Running",
                    indexed |-> kind # "unlabelled"] \in PodType
  <2>1. Foreign \in Owners
    BY DEF Owners
  <2>2. ASSUME NEW dep \in DepType
        PROVE  /\ [dep EXCEPT !.owner = Foreign] \in DepType
               /\ [dep EXCEPT !.data.intact = FALSE] \in DepType
    <3>1. dep.data \in DataType
      BY DEF DepType
    <3>2. [dep.data EXCEPT !.intact = FALSE] \in DataType
      BY <3>1 DEF DataType
    <3> QED
      BY <2>1, <3>2 DEF DepType
  <2>3. ASSUME NEW pod \in PodType
        PROVE  /\ [pod EXCEPT !.owner = Foreign] \in PodType
               /\ [pod EXCEPT !.phase = "Running"] \in PodType
               /\ [pod EXCEPT !.phase = "Failed"] \in PodType
    BY <2>1 DEF PodType
  <2>4. /\ [owner |-> Foreign, data |-> PlainData] \in DepType
        /\ \A kind : [owner |-> Foreign, phase |-> "Running",
                      indexed |-> kind # "unlabelled"] \in PodType
    BY <2>1, ObjectTypes DEF DepType, PodType
  <2> QED
    BY <2>2, <2>3, <2>4
<1>8. /\ \A k \in Kinds : deps[k] \in DepType
      /\ \A i \in Index : pods[i] \in PodType
      /\ events \in 0 .. MaxEvents
  BY DEF TypeOK
<1>9. CASE GarbageCollect
  BY <1>4, <1>5, <1>6, <1>7, <1>8, <1>9, ObjectTypes DEF GarbageCollect
<1>10. CASE MeddleWithDep
  BY <1>4, <1>5, <1>7, <1>8, <1>10, ObjectTypes DEF MeddleWithDep
<1>11. CASE MeddleWithPod
  BY <1>4, <1>6, <1>7, <1>8, <1>11, ObjectTypes DEF MeddleWithPod
<1>12. CASE PodRuns \/ PodFails
  <2>1. events' \in 0 .. MaxEvents
    BY <1>8, <1>12 DEF PodRuns, PodFails, Event
  <2> QED
    BY <1>6, <1>7, <1>8, <1>12, <2>1 DEF PodRuns, PodFails
<1>13. CASE Crash
  <2>1. events' \in 0 .. MaxEvents /\ pc' \in Stages /\ sync' \in SyncType
    BY <1>13, ObjectTypes DEF Crash, Event, TypeOK, Stages
  <2> QED
    BY <1>13, <2>1 DEF Crash, TypeOK, NewsType
<1> QED
  BY <1>1, <1>2, <1>3, <1>9, <1>10, <1>11, <1>12, <1>13 DEF Cluster

\* Every step leaves every variable with its type.
LEMMA TypeStep == TypeOK /\ [Next]_vars => TypeOK'
<1> SUFFICES ASSUME TypeOK, [Next]_vars PROVE TypeOK'
  OBVIOUS
<1>1. CASE UNCHANGED vars
  BY <1>1 DEF TypeOK, vars, jobVars, depVars, podVars, controllerVars
<1> QED
  BY <1>1, ControllerTypeStep, DeliverType, ClusterType DEF Next

\* What the models of the API server and of the informers promise each other
\* holds in every state: the objects, the caches and the copies of the sync.
THEOREM DependentsTypeCorrect == Safety => []TypeOK
<1>1. Init => TypeOK
  <2> SUFFICES ASSUME Init PROVE TypeOK
    OBVIOUS
  <2>1. /\ deps \in [Kinds -> DepType] /\ depsC = deps /\ depsNews \in [Kinds -> NewsType]
        /\ pods \in [Index -> PodType] /\ podsC = pods /\ podsNews \in [Index -> NewsType]
        /\ strangers \subseteq Strange
    BY ObjectTypes DEF Init, NewsType
  <2>2. /\ job \in JobType /\ jobC = job /\ jobFresh \in BOOLEAN /\ lastUID \in 0 .. MaxUID
        /\ dirty \in BOOLEAN /\ pc \in Stages /\ sync \in SyncType /\ events \in 0 .. MaxEvents
    <3>1. lastUID = 0 /\ events = 0 /\ jobC = job /\ job \in JobType /\ sync \in SyncType
      BY ObjectTypes DEF Init
    <3>2. jobFresh \in BOOLEAN /\ dirty \in BOOLEAN /\ pc \in Stages
      BY DEF Init, Stages
    <3> QED
      BY <3>1, <3>2, Constants
  <2> QED
    BY <2>1, <2>2 DEF TypeOK
<1> QED
  BY <1>1, TypeStep, PTL DEF Safety

-----------------------------------------------------------------------------
(* What belongs to others.                                                 *)

\* Objects change with an event still to be delivered, and a cache that has
\* delivered the events of an object holds it.
LEMMA CurrentStep == ASSUME TypeOK, CachesCurrent, [Next]_vars PROVE CachesCurrent'
<1> USE DEF vars, jobVars, depVars, podVars, controllerVars
<1>1. ASSUME NEW k \in Kinds, NEW object, SetDep(k, object), UNCHANGED depsC
      PROVE  CachesCurrent'
  <2>1. MoreNews(depsNews[k], deps[k], object) # "none"
    BY DEF MoreNews
  <2> QED
    BY <1>1, <2>1 DEF SetDep, CachesCurrent, TypeOK
<1>2. CASE UNCHANGED <<deps, depsC, depsNews>>
  BY <1>2 DEF CachesCurrent
<1>3. ASSUME NEW k \in Kinds, GetOrCreate(k) PROVE CachesCurrent'
  BY <1>1, <1>2, <1>3 DEF GetOrCreate
<1>4. CASE CreateLauncher
  BY <1>1, <1>2, <1>4 DEF CreateLauncher, Kinds
<1>5. CASE GarbageCollect \/ MeddleWithDep
  BY <1>1, <1>2, <1>5 DEF GarbageCollect, MeddleWithDep
<1>6. ASSUME NEW k \in Kinds, DeliverDep(k) PROVE CachesCurrent'
  BY <1>6 DEF DeliverDep, CachesCurrent, TypeOK
<1>7. CASE Crash
  BY <1>7 DEF Crash, CachesCurrent
<1>8. \/ UNCHANGED <<deps, depsC, depsNews>>
      \/ (\E k \in Kinds : GetOrCreate(k) \/ DeliverDep(k))
      \/ CreateLauncher \/ GarbageCollect \/ MeddleWithDep \/ Crash
  BY DEF Next, Controller, SyncStart, ScaleDown, GetOrCreateWorker, Deliver, DeliverJob,
     DeliverPod, Cluster, CreateJob, EditJob, DeleteJob, MeddleWithPod, PodRuns, PodFails
<1> QED
  BY <1>2, <1>3, <1>4, <1>5, <1>6, <1>7, <1>8

\* Of the steps that move a sync, those that touch a dependent: what there was
\* under its name is nobody's or the job's own.
LEMMA DepsUntouched ==
    ASSUME TypeOK, CachesCurrent, [Next]_vars, Syncing,
           NEW k \in Kinds, deps[k].owner \notin {Nobody, sync.uid}
    PROVE  deps'[k] = deps[k]
<1> USE DEF vars, jobVars, depVars, podVars, controllerVars
<1>1. CASE UNCHANGED deps
  BY <1>1
<1>2. ASSUME NEW m \in Kinds, NEW object, NEW accepted, NEW reply \in Replies(accepted),
             IF Applied(reply) THEN SetDep(m, object) ELSE UNCHANGED <<deps, depsNews>>,
             accepted => deps[m].owner \in {Nobody, sync.uid}
      PROVE  deps'[k] = deps[k]
  <2>1. CASE Applied(reply)
    <3>1. m # k
      BY <1>2, <2>1, AppliedCall
    <3> QED
      BY <1>2, <2>1, <3>1 DEF SetDep, TypeOK
  <2> QED
    BY <1>2, <2>1
<1>3. ASSUME NEW m \in Kinds, GetOrCreate(m) PROVE deps'[k] = deps[k]
  <2>1. ~Exists(deps[m]) => deps[m].owner \in {Nobody, sync.uid}
    BY DEF Exists
  <2>2. currentVersion(m) /\ IsControlledBy(depsC[m], sync.uid)
          => deps[m].owner \in {Nobody, sync.uid}
    BY DEF currentVersion, IsControlledBy, CachesCurrent
  <2> QED
    BY <1>1, <1>2, <1>3, <2>1, <2>2 DEF GetOrCreate
<1>4. CASE CreateLauncher
  <2>1. ~Exists(deps["Launcher"]) => deps["Launcher"].owner \in {Nobody, sync.uid}
    BY DEF Exists
  <2> QED
    BY <1>1, <1>2, <1>4, <2>1 DEF CreateLauncher, Kinds
<1>5. \/ UNCHANGED deps \/ (\E m \in Kinds : GetOrCreate(m)) \/ CreateLauncher
  BY DEF Syncing, Next, Controller, SyncStart, ScaleDown, GetOrCreateWorker, Deliver, DeliverJob,
     DeliverDep, DeliverPod, Cluster, CreateJob, EditJob, DeleteJob, GarbageCollect,
     MeddleWithDep, MeddleWithPod, PodRuns, PodFails, Crash
<1> QED
  BY <1>1, <1>3, <1>4, <1>5

\* The same for the pods, which a scale-down deletes whoever owns them.
LEMMA PodsUntouched ==
    ASSUME TypeOK, [Next]_vars, Syncing,
           NEW i \in Index, pods[i].owner \notin {Nobody, sync.uid}, pods'[i] # pods[i]
    PROVE  i >= sync.replicas
<1> USE DEF vars, jobVars, depVars, podVars, controllerVars
<1>1. ~UNCHANGED pods
  OBVIOUS
<1>2. ASSUME NEW n, NEW pod, SetPod(n, pod) PROVE n = i
  BY <1>2 DEF SetPod, TypeOK
<1>3. CASE ScaleDown
  BY <1>1, <1>2, <1>3 DEF ScaleDown
<1>4. ~GetOrCreateWorker
  <2> SUFFICES ASSUME GetOrCreateWorker PROVE FALSE
    OBVIOUS
  <2>1. PICK reply \in Replies(~Exists(pods[sync.ix])) :
            IF Applied(reply) THEN SetPod(sync.ix, newWorker(sync.uid))
                              ELSE UNCHANGED <<pods, podsNews, strangers>>
    BY <1>1 DEF GetOrCreateWorker
  <2>2. Applied(reply) /\ sync.ix = i
    BY <1>1, <1>2, <2>1
  <2> QED
    BY <2>1, <2>2, AppliedCall DEF Exists
<1>5. ScaleDown \/ GetOrCreateWorker
  BY <1>1 DEF Syncing, Next, Controller, SyncStart, GetOrCreate, CreateLauncher, Deliver,
     DeliverJob, DeliverDep, DeliverPod, Cluster, CreateJob, EditJob, DeleteJob, GarbageCollect,
     MeddleWithDep, MeddleWithPod, PodRuns, PodFails, Crash
<1> QED
  BY <1>3, <1>4, <1>5

\* A sync never changes or replaces an object that is not its job's, although
\* it has only looked at a cached one (MessageResourceExists); but for the pods
\* beyond the replicas that a scale-down deletes.
THEOREM OthersKept == Safety => OthersUntouched
<1> DEFINE Kept ==
      Syncing =>
        /\ \A k \in Kinds : deps[k].owner \notin {Nobody, sync.uid} => deps'[k] = deps[k]
        /\ \A i \in Index : pods[i].owner \notin {Nobody, sync.uid} /\ pods'[i] # pods[i] =>
                i >= sync.replicas
<1>1. Init => CachesCurrent
  BY DEF Init, CachesCurrent
<1>2. TypeOK /\ CachesCurrent /\ [Next]_vars => CachesCurrent'
  BY CurrentStep
<1>3. TypeOK /\ CachesCurrent /\ [Next]_vars => [Kept]_vars
  BY DepsUntouched, PodsUntouched
<1> QED
  BY <1>1, <1>2, <1>3, DependentsTypeCorrect, PTL DEF Safety, OthersUntouched

-----------------------------------------------------------------------------
(* Nothing is forgotten.                                                   *)

\* A uid is given once.
UidsKnown ==
    /\ job.uid <= lastUID /\ jobC.uid <= lastUID /\ sync.uid <= lastUID
    /\ \A k \in Kinds : deps[k].owner <= lastUID /\ depsC[k].owner <= lastUID
    /\ \A i \in Index : pods[i].owner <= lastUID /\ podsC[i].owner <= lastUID

\* What the caches say of objects with no event, or only others', to come.
NewsKnown ==
    /\ jobFresh => jobC = job
    /\ CachesCurrent
    /\ \A i \in Index : podsNews[i] = "none" => podsC[i] = pods[i]
    /\ \A k \in Kinds : depsNews[k] = "others" /\ job.uid # 0 => depsC[k].owner # job.uid
    /\ \A i \in Index : podsNews[i] = "others" =>
            pods[i].owner \notin UIDs /\ (job.uid # 0 => podsC[i].owner # job.uid)

\* The sync has the job as it is in the cache, unless that has it no more or
\* has told the queue.
SyncKnown ==
    pc # "idle" =>
        /\ sync.uid \in UIDs
        /\ dirty \/ jobC.uid = 0 \/ (jobC.uid = sync.uid /\ jobC.replicas = sync.replicas)

\* Workers are visited from the first one on.
FirstWorker == pc \notin {"workers", "Launcher"} => sync.ix = 0

\* A dependent, the launcher or a pod is right, or there is an event to come
\* that will make the controller look again.
DepRight(k) ==
    \/ depsNews[k] = "owned"
    \/ /\ depsC[k].owner = jobC.uid /\ depsC[k].data.intact
       /\ k = "ConfigMap" =>
            /\ depsC[k].data.hostfile = jobC.replicas
            /\ \A i \in Index : podsC[i].owner = jobC.uid =>
                    (i \in depsC[k].data.hosts <=> podsC[i].phase = "Running")

LauncherRight == depsNews["Launcher"] = "owned" \/ depsC["Launcher"].owner = jobC.uid

PodMade(i) == podsNews[i] = "owned" \/ podsC[i].owner = jobC.uid

PodGone(i) == podsNews[i] = "owned" \/ podsC[i].owner # jobC.uid

Surplus == {i \in Index : i >= jobC.replicas}

\* The pods that are too many are gone, or there were not too many.
NotMore ==
    \/ \A i \in Surplus : PodGone(i)
    \/ Cardinality({i \in Index : podsC[i].owner = jobC.uid}) <= jobC.replicas

\* The queue has not been told to look again at the job.
Undisturbed == ~dirty /\ jobC.uid # 0 /\ jobC.uid = job.uid

AfterDependents == {"scaledown", "workers", "Launcher", "idle"}

\* The dependents whose calls the sync has made.
Past ==
    {k \in Kinds \ {"Launcher"} :
        \/ pc \in AfterDependents
        \/ \E m, n \in DOMAIN Dependents : Dependents[m] = k /\ Dependents[n] = pc /\ m < n}

\* What is right at which stage of the sync.
ProgressInv ==
    Undisturbed =>
        /\ \A k \in Past : DepRight(k)
        /\ pc = "idle" \/ sync.launcherExists => LauncherRight
        /\ pc = "scaledown" => \A i \in Surplus \ sync.todo : PodGone(i)
        /\ pc \in {"workers", "Launcher", "idle"} => NotMore
        /\ pc = "workers" => \A i \in 0 .. sync.ix - 1 : PodMade(i)
        /\ pc \in {"Launcher", "idle"} => \A i \in 0 .. jobC.replicas - 1 : PodMade(i)

RestInv == TypeOK /\ UidsKnown /\ NewsKnown /\ SyncKnown /\ FirstWorker /\ ProgressInv

-----------------------------------------------------------------------------
(* Writes.                                                                 *)

\* What is written to the server has a uid that was given, and takes an object
\* from nobody but a job that is gone.
DepWrite(k, object) ==
    /\ SetDep(k, object) /\ object \in DepType /\ object.owner <= lastUID
    /\ object.owner = Foreign /\ job.uid # 0 => deps[k].owner # job.uid

PodWrite(i, pod) ==
    /\ SetPod(i, pod) /\ pod \in PodType /\ pod.owner <= lastUID
    /\ pod.owner = Foreign /\ job.uid # 0 => pods[i].owner # job.uid

\* A step writes one dependent or one pod, or it is a step of the informers, a
\* change of the job, a restart, or one that only the controller sees.
StepKinds ==
    \/ /\ \E k \in Kinds, object \in DepType : DepWrite(k, object)
       /\ UNCHANGED <<jobVars, depsC, podVars>>
    \/ /\ \E i \in Index, pod \in PodType : PodWrite(i, pod)
       /\ UNCHANGED <<jobVars, podsC, depVars>>
    \/ UNCHANGED <<jobVars, depVars, podVars>>
    \/ DeliverJob \/ (\E k \in Kinds : DeliverDep(k)) \/ DeliverPod
    \/ CreateJob \/ EditJob \/ DeleteJob \/ Crash

\* Numbers that the writes compare.
LEMMA OwnerNumbers ==
    ASSUME TypeOK
    PROVE  /\ MaxUID \in Nat /\ UIDs = 1 .. MaxUID /\ Nobody = 0 /\ Foreign = -1
           /\ job.uid \in 0 .. MaxUID /\ jobC.uid \in 0 .. MaxUID /\ sync.uid \in 0 .. MaxUID
           /\ lastUID \in 0 .. MaxUID
           /\ \A k \in Kinds : /\ deps[k].owner \in -1 .. MaxUID
                               /\ depsC[k].owner \in -1 .. MaxUID
           /\ \A i \in Index : /\ pods[i].owner \in -1 .. MaxUID
                               /\ podsC[i].owner \in -1 .. MaxUID
<1>1. MaxUID \in Nat
  BY Constants
<1>2. Owners \cup {Nobody} \subseteq -1 .. MaxUID
  BY <1>1 DEF Owners, UIDs, Foreign, Nobody
<1>3. /\ \A k \in Kinds : deps[k].owner \in Owners \cup {Nobody}
                          /\ depsC[k].owner \in Owners \cup {Nobody}
      /\ \A i \in Index : pods[i].owner \in Owners \cup {Nobody}
                          /\ podsC[i].owner \in Owners \cup {Nobody}
  BY DEF TypeOK, DepType, PodType
<1> QED
  BY <1>1, <1>2, <1>3 DEF TypeOK, JobType, SyncType, UIDs, Foreign, Nobody

\* The calls of a sync write what is the sync's.
LEMMA CallWrites ==
    ASSUME TypeOK, UidsKnown, SyncKnown, pc # "idle"
    PROVE  /\ \A k \in Kinds : \A object \in DepType :
                SetDep(k, object) /\ object.owner = sync.uid => DepWrite(k, object)
           /\ \A i \in Index : \A pod \in PodType :
                SetPod(i, pod) /\ pod.owner = sync.uid => PodWrite(i, pod)
BY OwnerNumbers DEF UidsKnown, SyncKnown, DepWrite, PodWrite

\* Removals and repairs, of which nobody is the new owner.
LEMMA Removals ==
    ASSUME TypeOK, UidsKnown
    PROVE  /\ \A k \in Kinds : SetDep(k, NoDep) => DepWrite(k, NoDep)
           /\ \A i \in Index : SetPod(i, NoPod) => PodWrite(i, NoPod)
BY OwnerNumbers, ObjectTypes DEF DepWrite, PodWrite, NoDep, NoPod

\* What stands around a job: its objects lose their owner only with the job.
LEMMA ClusterWrites ==
    ASSUME TypeOK, UidsKnown, GarbageCollect \/ MeddleWithDep \/ MeddleWithPod \/ PodRuns \/ PodFails
    PROVE  StepKinds
<1>1. /\ \A k \in Kinds : deps[k] \in DepType /\ deps[k].owner <= lastUID
      /\ \A i \in Index : pods[i] \in PodType /\ pods[i].owner <= lastUID
  BY DEF TypeOK, UidsKnown
<1>2. Foreign \in Owners /\ Foreign <= lastUID /\ Foreign # job.uid
  BY OwnerNumbers DEF Owners
<1>3. ASSUME NEW dep \in DepType
      PROVE  /\ [dep EXCEPT !.owner = Foreign] \in DepType
             /\ [dep EXCEPT !.owner = Foreign].owner = Foreign
             /\ [dep EXCEPT !.data.intact = FALSE] \in DepType
             /\ [dep EXCEPT !.data.intact = FALSE].owner = dep.owner
  <2>1. dep.data \in DataType
    BY DEF DepType
  <2>2. [dep.data EXCEPT !.intact = FALSE] \in DataType
    BY <2>1 DEF DataType
  <2> QED
    BY <1>2, <2>2 DEF DepType
<1>4. ASSUME NEW pod \in PodType
      PROVE  /\ [pod EXCEPT !.owner = Foreign] \in PodType
             /\ [pod EXCEPT !.owner = Foreign].owner = Foreign
             /\ [pod EXCEPT !.phase = "Running"] \in PodType
             /\ [pod EXCEPT !.phase = "Running"].owner = pod.owner
             /\ [pod EXCEPT !.phase = "Failed"] \in PodType
             /\ [pod EXCEPT !.phase = "Failed"].owner = pod.owner
  BY <1>2 DEF PodType
<1>5. /\ [owner |-> Foreign, data |-> PlainData] \in DepType
      /\ \A b \in BOOLEAN : [owner |-> Foreign, phase |-> "Running", indexed |-> b] \in PodType
  BY <1>2, ObjectTypes DEF DepType, PodType
<1>6. CASE GarbageCollect
  <2>1. ASSUME NEW k \in Kinds, Dead(deps[k]),
               SetDep(k, NoDep) \/ SetDep(k, [deps[k] EXCEPT !.owner = Foreign])
        PROVE  \E object \in DepType : DepWrite(k, object)
    BY <1>1, <1>2, <1>3, <2>1, Removals, ObjectTypes DEF DepWrite, Dead
  <2>2. ASSUME NEW i \in Index, Dead(pods[i]),
               SetPod(i, NoPod) \/ SetPod(i, [pods[i] EXCEPT !.owner = Foreign])
        PROVE  \E pod \in PodType : PodWrite(i, pod)
    BY <1>1, <1>2, <1>4, <2>2, Removals, ObjectTypes DEF PodWrite, Dead
  <2> QED
    BY <1>6, <2>1, <2>2 DEF GarbageCollect, StepKinds, depVars, podVars
<1>7. CASE MeddleWithDep
  <2>1. PICK k \in Kinds :
            \/ ~Exists(deps[k]) /\ SetDep(k, [owner |-> Foreign, data |-> PlainData])
            \/ SetDep(k, NoDep)
            \/ deps[k].owner \in UIDs /\ SetDep(k, [deps[k] EXCEPT !.data.intact = FALSE])
    BY <1>7 DEF MeddleWithDep
  <2>2. \E object \in DepType : DepWrite(k, object)
    <3>1. CASE ~Exists(deps[k]) /\ SetDep(k, [owner |-> Foreign, data |-> PlainData])
      <4>1. DepWrite(k, [owner |-> Foreign, data |-> PlainData])
        BY <1>2, <1>5, <3>1 DEF DepWrite, Exists, Nobody
      <4> QED
        BY <1>5, <4>1
    <3>2. CASE SetDep(k, NoDep)
      BY <3>2, Removals, ObjectTypes
    <3>3. CASE deps[k].owner \in UIDs /\ SetDep(k, [deps[k] EXCEPT !.data.intact = FALSE])
      <4>1. [deps[k] EXCEPT !.data.intact = FALSE] \in DepType
            /\ [deps[k] EXCEPT !.data.intact = FALSE].owner = deps[k].owner
        BY <1>1, <1>3
      <4>2. deps[k].owner # Foreign
        BY <3>3, OwnerNumbers
      <4>3. DepWrite(k, [deps[k] EXCEPT !.data.intact = FALSE])
        BY <1>1, <3>3, <4>1, <4>2 DEF DepWrite
      <4> QED
        BY <4>1, <4>3
    <3> QED
      BY <2>1, <3>1, <3>2, <3>3
  <2> QED
    BY <1>7, <2>2 DEF MeddleWithDep, StepKinds
<1>8. CASE MeddleWithPod
  <2>1. PICK i \in Index :
            \/ /\ ~Exists(pods[i])
               /\ \E b \in BOOLEAN :
                    SetPod(i, [owner |-> Foreign, phase |-> "Running", indexed |-> b])
            \/ SetPod(i, NoPod)
    BY <1>8 DEF MeddleWithPod
  <2>2. \E pod \in PodType : PodWrite(i, pod)
    <3>1. ASSUME ~Exists(pods[i]), NEW b \in BOOLEAN,
                 SetPod(i, [owner |-> Foreign, phase |-> "Running", indexed |-> b])
          PROVE  PodWrite(i, [owner |-> Foreign, phase |-> "Running", indexed |-> b])
      BY <1>2, <1>5, <3>1 DEF PodWrite, Exists, Nobody
    <3>2. CASE SetPod(i, NoPod)
      BY <3>2, Removals, ObjectTypes
    <3> QED
      BY <1>5, <2>1, <3>1, <3>2
  <2> QED
    BY <1>8, <2>2 DEF MeddleWithPod, StepKinds
<1>9. CASE PodRuns \/ PodFails
  <2>1. PICK i \in Index, phase \in {"Running", "Failed"} :
            SetPod(i, [pods[i] EXCEPT !.phase = phase])
    BY <1>9 DEF PodRuns, PodFails
  <2>2. PodWrite(i, [pods[i] EXCEPT !.phase = phase])
    <3>1. /\ [pods[i] EXCEPT !.phase = phase] \in PodType
          /\ [pods[i] EXCEPT !.phase = phase].owner = pods[i].owner
      BY <1>1, <1>4
    <3> QED
      BY <1>1, <1>2, <2>1, <3>1 DEF PodWrite
  <2>3. \E pod \in PodType : PodWrite(i, pod)
    BY <2>2 DEF PodWrite
  <2> QED
    BY <1>9, <2>3 DEF PodRuns, PodFails, StepKinds
<1> QED
  BY <1>6, <1>7, <1>8, <1>9

\* Every step is of one of the kinds.
LEMMA Kinded == ASSUME TypeOK, UidsKnown, SyncKnown, [Next]_vars PROVE StepKinds
<1> USE DEF vars, jobVars, depVars, podVars, controllerVars
<1>1. ASSUME NEW k \in Kinds, GetOrCreate(k) PROVE StepKinds
  <2>1. pc # "idle" /\ k # "Launcher"
    BY <1>1, Constants DEF GetOrCreate
  <2>2. newData(k, sync) \in DataType
    BY NewDataType DEF TypeOK
  <2>3. /\ [owner |-> sync.uid, data |-> newData(k, sync)] \in DepType
        /\ [depsC[k] EXCEPT !.data = newData(k, sync)] \in DepType
        /\ [depsC[k] EXCEPT !.data = newData(k, sync)].owner = depsC[k].owner
    BY <2>2, ObjectTypes DEF TypeOK, SyncType, DepType
  <2>4. \/ SetDep(k, [owner |-> sync.uid, data |-> newData(k, sync)])
        \/ /\ IsControlledBy(depsC[k], sync.uid)
           /\ SetDep(k, [depsC[k] EXCEPT !.data = newData(k, sync)])
        \/ UNCHANGED <<deps, depsNews>>
    BY <1>1 DEF GetOrCreate
  <2>5. UNCHANGED <<jobVars, depsC, podVars>>
    BY <1>1 DEF GetOrCreate
  <2>6. (\E object \in DepType : DepWrite(k, object)) \/ UNCHANGED <<deps, depsNews>>
    BY <2>1, <2>3, <2>4, CallWrites DEF IsControlledBy
  <2> QED
    BY <2>5, <2>6 DEF StepKinds
<1>2. CASE CreateLauncher
  <2>1. pc # "idle" /\ "Launcher" \in Kinds
    BY <1>2 DEF CreateLauncher, Kinds
  <2>2. [owner |-> sync.uid, data |-> PlainData] \in DepType
    BY ObjectTypes DEF TypeOK, SyncType
  <2>3. \/ SetDep("Launcher", [owner |-> sync.uid, data |-> PlainData])
        \/ UNCHANGED <<deps, depsNews>>
    BY <1>2 DEF CreateLauncher
  <2>4. UNCHANGED <<jobVars, depsC, podVars>>
    BY <1>2 DEF CreateLauncher
  <2>5. (\E object \in DepType : DepWrite("Launcher", object)) \/ UNCHANGED <<deps, depsNews>>
    BY <2>1, <2>2, <2>3, CallWrites
  <2> QED
    BY <2>1, <2>4, <2>5 DEF StepKinds
<1>3. CASE ScaleDown
  <2>1. \/ \E i \in Index : SetPod(i, NoPod)
        \/ UNCHANGED <<pods, podsNews, strangers>>
    BY <1>3 DEF ScaleDown, TypeOK, SyncType
  <2>2. UNCHANGED <<jobVars, depVars, podsC>>
    BY <1>3 DEF ScaleDown
  <2> QED
    BY <2>1, <2>2, Removals, ObjectTypes DEF StepKinds
<1>4. CASE GetOrCreateWorker
  <2>1. pc # "idle" /\ newWorker(sync.uid) \in PodType /\ newWorker(sync.uid).owner = sync.uid
    BY <1>4, ObjectTypes DEF GetOrCreateWorker, newWorker, TypeOK, SyncType
  <2>2. \/ sync.ix < sync.replicas /\ SetPod(sync.ix, newWorker(sync.uid))
        \/ UNCHANGED <<pods, podsNews, strangers>>
    BY <1>4 DEF GetOrCreateWorker
  <2>3. sync.ix < sync.replicas => sync.ix \in Index
    BY Constants DEF TypeOK, SyncType, Index
  <2>4. UNCHANGED <<jobVars, depVars, podsC>>
    BY <1>4 DEF GetOrCreateWorker
  <2> QED
    BY <2>1, <2>2, <2>3, <2>4, CallWrites DEF StepKinds
<1>5. CASE SyncStart \/ UNCHANGED vars
  BY <1>5 DEF SyncStart, StepKinds
<1>6. CASE Deliver \/ CreateJob \/ EditJob \/ DeleteJob \/ Crash
  BY <1>6 DEF Deliver, StepKinds
<1> QED
  BY <1>1, <1>2, <1>3, <1>4, <1>5, <1>6, ClusterWrites DEF Next, Controller, Cluster

-----------------------------------------------------------------------------
(* Uids, news and the copy of a sync.                                      *)

\* A controller step begins a sync, goes on with it, or ends it.
LEMMA SyncMoves ==
    ASSUME TypeOK, Controller
    PROVE  \/ /\ pc = "idle" /\ ~listed /\ dirty' = FALSE /\ UNCHANGED <<pc, sync>>
           \/ /\ pc = "idle" /\ listed /\ ~foreignLauncher /\ dirty' = FALSE
              /\ pc' = Dependents[1]
              /\ sync' = [NoSync EXCEPT !.uid = jobC.uid, !.replicas = jobC.replicas,
                                        !.launcherExists = Exists(depsC["Launcher"])]
           \/ Fails \/ Return
           \/ /\ pc # "idle" /\ UNCHANGED dirty
              /\ sync'.uid = sync.uid /\ sync'.replicas = sync.replicas
              /\ sync'.launcherExists = sync.launcherExists
<1>1. \A todo :
          /\ [sync EXCEPT !.todo = todo].uid = sync.uid
          /\ [sync EXCEPT !.todo = todo].replicas = sync.replicas
          /\ [sync EXCEPT !.todo = todo].launcherExists = sync.launcherExists
  BY DEF TypeOK, SyncType
<1>2. [sync EXCEPT !.ix = @ + 1].uid = sync.uid
      /\ [sync EXCEPT !.ix = @ + 1].replicas = sync.replicas
      /\ [sync EXCEPT !.ix = @ + 1].launcherExists = sync.launcherExists
  BY DEF TypeOK, SyncType
<1>3. CASE SyncStart
  BY <1>3 DEF SyncStart
<1>4. ASSUME NEW k \in Kinds, GetOrCreate(k)
      PROVE  pc # "idle" /\ (Fails \/ Advance(k))
  BY <1>4, Constants DEF GetOrCreate, EndCall
<1>5. ASSUME NEW k \in Kinds, Advance(k)
      PROVE  /\ UNCHANGED dirty
             /\ sync' = sync \/ sync' = [sync EXCEPT !.todo = workerPods]
  BY <1>5 DEF Advance, Goto
<1>6. CASE ScaleDown
  <2>1. pc # "idle"
    BY <1>6 DEF ScaleDown
  <2>2. PICK i \in sync.todo :
            \/ Fails \/ Goto("Launcher", [sync EXCEPT !.todo = {}])
            \/ AfterScaleDown(sync.todo \ {i})
    BY <1>6 DEF ScaleDown, EndCall
  <2>3. \/ Fails
        \/ UNCHANGED dirty /\ \E todo : sync' = [sync EXCEPT !.todo = todo]
    BY <2>2 DEF AfterScaleDown, Goto
  <2> QED
    BY <1>1, <2>1, <2>3
<1>7. CASE GetOrCreateWorker
  <2>1. pc # "idle"
    BY <1>7 DEF GetOrCreateWorker
  <2>2. \/ Fails
        \/ UNCHANGED dirty /\ (sync' = sync \/ sync' = [sync EXCEPT !.ix = @ + 1])
    BY <1>7 DEF GetOrCreateWorker, EndCall, Goto
  <2> QED
    BY <1>2, <2>1, <2>2
<1>8. CASE CreateLauncher
  BY <1>8 DEF CreateLauncher, EndCall
<1>9. ASSUME NEW k \in Kinds, GetOrCreate(k)
      PROVE  Fails \/ (/\ pc # "idle" /\ UNCHANGED dirty
              /\ sync'.uid = sync.uid /\ sync'.replicas = sync.replicas
              /\ sync'.launcherExists = sync.launcherExists)
  BY <1>1, <1>4, <1>5, <1>9
<1> QED
  BY <1>3, <1>6, <1>7, <1>8, <1>9 DEF Controller

\* The rest leaves the controller alone, but for the queue, or restarts it.
LEMMA OtherMoves ==
    ASSUME [Next]_vars, ~Controller
    PROVE  \/ Crash
           \/ UNCHANGED <<pc, sync>> /\ (dirty => dirty')
BY DEF Next, vars, controllerVars, Deliver, DeliverJob, DeliverDep, DeliverPod, Cluster, CreateJob,
   EditJob, DeleteJob, GarbageCollect, MeddleWithDep, MeddleWithPod, PodRuns, PodFails

\* The copy of a sync is the cached job, or the queue knows better.
LEMMA SyncKnownStep == ASSUME TypeOK, SyncKnown, [Next]_vars PROVE SyncKnown'
<1> USE DEF vars, jobVars, depVars, podVars, controllerVars
<1>1. UNCHANGED jobC \/ DeliverJob \/ Crash
  BY DEF Next, Controller, SyncStart, GetOrCreate, ScaleDown, GetOrCreateWorker, CreateLauncher,
     Deliver, DeliverDep, DeliverPod, Cluster, CreateJob, EditJob, DeleteJob, GarbageCollect,
     MeddleWithDep, MeddleWithPod, PodRuns, PodFails
<1>2. CASE Controller
  <2>1. UNCHANGED jobC
    BY <1>2 DEF Controller, SyncStart, GetOrCreate, ScaleDown, GetOrCreateWorker, CreateLauncher
  <2>2. CASE /\ pc = "idle" /\ listed
             /\ sync' = [NoSync EXCEPT !.uid = jobC.uid, !.replicas = jobC.replicas,
                                       !.launcherExists = Exists(depsC["Launcher"])]
    <3>1. sync'.uid = jobC.uid /\ sync'.replicas = jobC.replicas
      BY <2>2 DEF NoSync
    <3>2. jobC.uid \in UIDs
      BY <2>2, OwnerNumbers DEF listed
    <3> QED
      BY <2>1, <3>1, <3>2 DEF SyncKnown
  <2>3. CASE Fails \/ Return
    BY <2>3 DEF Fails, Return, Goto, SyncKnown
  <2> QED
    BY <1>2, <2>1, <2>2, <2>3, SyncMoves DEF SyncKnown
<1>3. CASE Crash
  BY <1>3 DEF Crash, SyncKnown
<1>4. CASE ~Controller /\ ~Crash
  <2>1. UNCHANGED <<pc, sync>> /\ (dirty => dirty')
    BY <1>4, OtherMoves
  <2>2. CASE UNCHANGED jobC
    BY <2>1, <2>2 DEF SyncKnown
  <2>3. CASE DeliverJob
    <3>1. dirty' \/ jobC'.uid = 0
      BY <2>3 DEF DeliverJob
    <3> QED
      BY <2>1, <3>1 DEF SyncKnown
  <2> QED
    BY <1>1, <1>4, <2>2, <2>3
<1> QED
  BY <1>2, <1>3, <1>4

\* What a job is written over with: uids grow.
LEMMA UidsKnownStep ==
    ASSUME TypeOK, UidsKnown, SyncKnown, [Next]_vars PROVE UidsKnown'
<1> USE DEF vars, jobVars, depVars, podVars, controllerVars
<1>1. sync'.uid <= lastUID
  <2>1. CASE Controller
    <3>1. CASE sync' = [NoSync EXCEPT !.uid = jobC.uid, !.replicas = jobC.replicas,
                                      !.launcherExists = Exists(depsC["Launcher"])]
      <4>1. sync'.uid = jobC.uid
        BY <3>1 DEF NoSync
      <4> QED
        BY <4>1 DEF UidsKnown
    <3>2. CASE Fails \/ Return
      <4>1. sync'.uid = 0
        BY <3>2 DEF Fails, Return, Goto, NoSync
      <4> QED
        BY <4>1, OwnerNumbers
    <3>3. CASE sync'.uid = sync.uid
      BY <3>3 DEF UidsKnown
    <3> QED
      BY <2>1, <3>1, <3>2, <3>3, SyncMoves
  <2>2. CASE Crash
    <3>1. sync'.uid = 0
      BY <2>2 DEF Crash, NoSync
    <3> QED
      BY <3>1, OwnerNumbers
  <2>3. CASE UNCHANGED sync
    BY <2>3 DEF UidsKnown
  <2> QED
    BY <2>1, <2>2, <2>3, OtherMoves
<1>2. StepKinds
  BY Kinded
<1>3. ASSUME NEW k \in Kinds, NEW object \in DepType, DepWrite(k, object),
             UNCHANGED <<jobVars, depsC, podVars>>
      PROVE  UidsKnown'
  <2>1. \A m \in Kinds : deps'[m].owner <= lastUID
    BY <1>3 DEF DepWrite, SetDep, UidsKnown, TypeOK
  <2> QED
    BY <1>1, <1>3, <2>1 DEF UidsKnown
<1>4. ASSUME NEW i \in Index, NEW pod \in PodType, PodWrite(i, pod),
             UNCHANGED <<jobVars, podsC, depVars>>
      PROVE  UidsKnown'
  <2>1. \A m \in Index : pods'[m].owner <= lastUID
    BY <1>4 DEF PodWrite, SetPod, UidsKnown, TypeOK
  <2> QED
    BY <1>1, <1>4, <2>1 DEF UidsKnown
<1>5. CASE UNCHANGED <<jobVars, depVars, podVars>>
  BY <1>1, <1>5 DEF UidsKnown
<1>6. CASE DeliverJob \/ DeliverPod \/ Crash
  <2>1. CASE DeliverJob
    BY <1>1, <2>1 DEF DeliverJob, UidsKnown
  <2>2. CASE DeliverPod
    BY <1>1, <2>2 DEF DeliverPod, UidsKnown, TypeOK
  <2>3. CASE Crash
    BY <1>1, <2>3 DEF Crash, UidsKnown
  <2> QED
    BY <1>6, <2>1, <2>2, <2>3
<1>7. ASSUME NEW k \in Kinds, DeliverDep(k) PROVE UidsKnown'
  BY <1>1, <1>7 DEF DeliverDep, UidsKnown, TypeOK
<1>8. CASE CreateJob
  <2>1. lastUID' = lastUID + 1 /\ lastUID \in Int /\ job'.uid = lastUID + 1
        /\ UNCHANGED <<jobC, depVars, podVars>>
    BY <1>8, OwnerNumbers DEF CreateJob
  <2>2. \A x \in Int : x <= lastUID => x <= lastUID'
    BY <2>1
  <2>3. sync'.uid \in Int
    BY TypeStep, SMT DEF TypeOK, SyncType
  <2> QED
    BY <1>1, <2>1, <2>2, <2>3, OwnerNumbers DEF UidsKnown
<1>9. CASE EditJob \/ DeleteJob
  <2>1. job'.uid \in {job.uid, 0} /\ UNCHANGED <<jobC, lastUID, depVars, podVars>>
    <3>1. \A n : [job EXCEPT !.replicas = n].uid = job.uid
      BY DEF TypeOK, JobType
    <3>2. EditJob => job'.uid = job.uid
      BY <3>1 DEF EditJob
    <3> QED
      BY <1>9, <3>2 DEF EditJob, DeleteJob, NoJob
  <2> QED
    BY <1>1, <2>1, OwnerNumbers DEF UidsKnown
<1> QED
  BY <1>2, <1>3, <1>4, <1>5, <1>6, <1>7, <1>8, <1>9 DEF StepKinds

\* An event is the job's unless somebody else's object comes, or goes.
LEMMA NewsOfWrites ==
    ASSUME TypeOK, UidsKnown, NewsKnown
    PROVE  /\ \A k \in Kinds, object \in DepType : DepWrite(k, object) =>
                /\ depsNews'[k] \in {"owned", "others"}
                /\ depsNews[k] = "owned" \/ object.owner \in UIDs => depsNews'[k] = "owned"
                /\ depsNews'[k] = "others" /\ job.uid # 0 => depsC[k].owner # job.uid
           /\ \A i \in Index, pod \in PodType : PodWrite(i, pod) =>
                /\ podsNews'[i] \in {"owned", "others"}
                /\ podsNews[i] = "owned" \/ pod.owner \in UIDs => podsNews'[i] = "owned"
                /\ podsNews'[i] = "others" =>
                      /\ pods'[i].owner \notin UIDs
                      /\ job.uid # 0 => podsC[i].owner # job.uid
<1>1. \A uid \in UIDs : uid # Nobody
  BY OwnerNumbers
<1>2. job.uid # 0 => job.uid \in UIDs
  BY OwnerNumbers
<1>3. ASSUME NEW k \in Kinds, NEW object \in DepType, DepWrite(k, object)
      PROVE  /\ depsNews'[k] \in {"owned", "others"}
             /\ depsNews[k] = "owned" \/ object.owner \in UIDs => depsNews'[k] = "owned"
             /\ depsNews'[k] = "others" /\ job.uid # 0 => depsC[k].owner # job.uid
  <2>1. depsNews'[k] = MoreNews(depsNews[k], deps[k], object)
    BY <1>3 DEF DepWrite, SetDep, TypeOK
  <2>2. depsNews[k] \in {"none", "others", "owned"}
    BY DEF TypeOK, NewsType
  <2>3. ASSUME depsNews'[k] = "others", job.uid # 0 PROVE depsC[k].owner # job.uid
    <3>1. CASE depsNews[k] = "others"
      BY <2>3, <3>1 DEF NewsKnown
    <3>2. CASE depsNews[k] = "none"
      <4>1. depsC[k] = deps[k]
        BY <3>2 DEF NewsKnown, CachesCurrent
      <4>2. CASE Exists(object)
        <5>1. object.owner = Foreign
          BY <2>1, <2>3, <4>2 DEF MoreNews, Exists, DepType, Owners
        <5> QED
          BY <1>3, <2>3, <4>1, <5>1 DEF DepWrite
      <4>3. CASE ~Exists(object)
        <5>1. deps[k].owner \notin UIDs
          BY <2>1, <2>3, <4>3 DEF MoreNews
        <5> QED
          BY <1>2, <2>3, <4>1, <5>1
      <4> QED
        BY <4>2, <4>3
    <3>3. CASE depsNews[k] = "owned"
      BY <2>1, <2>3, <3>3 DEF MoreNews
    <3> QED
      BY <2>2, <3>1, <3>2, <3>3
  <2> QED
    BY <1>1, <2>1, <2>3 DEF MoreNews, Exists
<1>4. ASSUME NEW i \in Index, NEW pod \in PodType, PodWrite(i, pod)
      PROVE  /\ podsNews'[i] \in {"owned", "others"}
             /\ podsNews[i] = "owned" \/ pod.owner \in UIDs => podsNews'[i] = "owned"
             /\ podsNews'[i] = "others" =>
                      /\ pods'[i].owner \notin UIDs
                      /\ job.uid # 0 => podsC[i].owner # job.uid
  <2>1. podsNews'[i] = MoreNews(podsNews[i], pods[i], pod) /\ pods'[i] = pod
    BY <1>4 DEF PodWrite, SetPod, TypeOK
  <2>2. podsNews[i] \in {"none", "others", "owned"}
    BY DEF TypeOK, NewsType
  <2>3. ASSUME podsNews'[i] = "others", job.uid # 0 PROVE podsC[i].owner # job.uid
    <3>1. CASE podsNews[i] = "others"
      BY <2>3, <3>1 DEF NewsKnown
    <3>2. CASE podsNews[i] = "none"
      <4>1. podsC[i] = pods[i]
        BY <3>2 DEF NewsKnown
      <4>2. CASE Exists(pod)
        <5>1. pod.owner = Foreign
          BY <2>1, <2>3, <4>2 DEF MoreNews, Exists, PodType, Owners
        <5> QED
          BY <1>4, <2>3, <4>1, <5>1 DEF PodWrite
      <4>3. CASE ~Exists(pod)
        <5>1. pods[i].owner \notin UIDs
          BY <2>1, <2>3, <4>3 DEF MoreNews
        <5> QED
          BY <1>2, <2>3, <4>1, <5>1
      <4> QED
        BY <4>2, <4>3
    <3>3. CASE podsNews[i] = "owned"
      BY <2>1, <2>3, <3>3 DEF MoreNews
    <3> QED
      BY <2>2, <3>1, <3>2, <3>3
  <2> QED
    BY <1>1, <2>1, <2>3 DEF MoreNews, Exists
<1> QED
  BY <1>3, <1>4

\* Caches and events after a step.
LEMMA NewsKnownStep ==
    ASSUME TypeOK, UidsKnown, NewsKnown, SyncKnown, [Next]_vars PROVE NewsKnown'
<1> USE DEF vars, jobVars, depVars, podVars, controllerVars
<1>1. StepKinds
  BY Kinded
<1>2. ASSUME NEW k \in Kinds, NEW object \in DepType, DepWrite(k, object),
             UNCHANGED <<jobVars, depsC, podVars>>
      PROVE  NewsKnown'
  <2>1. /\ depsNews'[k] \in {"owned", "others"}
        /\ depsNews'[k] = "others" /\ job.uid # 0 => depsC[k].owner # job.uid
    BY <1>2, NewsOfWrites
  <2>2. \A m \in Kinds \ {k} : deps'[m] = deps[m] /\ depsNews'[m] = depsNews[m]
    BY <1>2 DEF DepWrite, SetDep, TypeOK
  <2> QED
    BY <1>2, <2>1, <2>2 DEF NewsKnown, CachesCurrent
<1>3. ASSUME NEW i \in Index, NEW pod \in PodType, PodWrite(i, pod),
             UNCHANGED <<jobVars, podsC, depVars>>
      PROVE  NewsKnown'
  <2>1. /\ podsNews'[i] \in {"owned", "others"}
        /\ podsNews'[i] = "others" =>
                 pods'[i].owner \notin UIDs /\ (job.uid # 0 => podsC[i].owner # job.uid)
    BY <1>3, NewsOfWrites
  <2>2. \A m \in Index \ {i} : pods'[m] = pods[m] /\ podsNews'[m] = podsNews[m]
    BY <1>3 DEF PodWrite, SetPod, TypeOK
  <2> QED
    BY <1>3, <2>1, <2>2 DEF NewsKnown, CachesCurrent
<1>4. CASE UNCHANGED <<jobVars, depVars, podVars>>
  BY <1>4 DEF NewsKnown, CachesCurrent
<1>5. CASE DeliverJob
  BY <1>5 DEF DeliverJob, NewsKnown, CachesCurrent
<1>6. ASSUME NEW k \in Kinds, DeliverDep(k) PROVE NewsKnown'
  <2>1. depsC'[k] = deps[k] /\ depsNews'[k] = "none" /\ UNCHANGED <<deps, jobVars, podVars>>
    BY <1>6 DEF DeliverDep, TypeOK
  <2>2. \A m \in Kinds \ {k} : depsC'[m] = depsC[m] /\ depsNews'[m] = depsNews[m]
    BY <1>6 DEF DeliverDep, TypeOK
  <2> QED
    BY <2>1, <2>2 DEF NewsKnown, CachesCurrent
<1>7. CASE DeliverPod
  <2>1. PICK i \in Index :
            /\ podsC' = [podsC EXCEPT ![i] = pods[i]]
            /\ podsNews' = [podsNews EXCEPT ![i] = "none"]
    BY <1>7 DEF DeliverPod
  <2>2. podsC'[i] = pods[i] /\ podsNews'[i] = "none" /\ UNCHANGED <<pods, jobVars, depVars>>
    BY <1>7, <2>1 DEF DeliverPod, TypeOK
  <2>3. \A m \in Index \ {i} : podsC'[m] = podsC[m] /\ podsNews'[m] = podsNews[m]
    BY <2>1 DEF TypeOK
  <2> QED
    BY <2>2, <2>3 DEF NewsKnown, CachesCurrent
<1>8. CASE CreateJob
  <2>1. job'.uid = lastUID + 1 /\ jobFresh' = FALSE /\ UNCHANGED <<jobC, depVars, podVars>>
    BY <1>8 DEF CreateJob
  <2>2. /\ \A k \in Kinds : depsC[k].owner # job'.uid
        /\ \A i \in Index : podsC[i].owner # job'.uid
    BY <2>1, OwnerNumbers DEF UidsKnown
  <2> QED
    BY <2>1, <2>2 DEF NewsKnown, CachesCurrent
<1>9. CASE EditJob
  <2>1. \A n : [job EXCEPT !.replicas = n].uid = job.uid
    BY DEF TypeOK, JobType
  <2>2. job'.uid = job.uid /\ jobFresh' = FALSE /\ UNCHANGED <<depVars, podVars>>
    BY <1>9, <2>1 DEF EditJob
  <2> QED
    BY <2>2 DEF NewsKnown, CachesCurrent
<1>10. CASE DeleteJob
  <2>1. job'.uid = 0 /\ jobFresh' = FALSE /\ UNCHANGED <<depVars, podVars>>
    BY <1>10 DEF DeleteJob, NoJob
  <2> QED
    BY <2>1 DEF NewsKnown, CachesCurrent
<1>11. CASE Crash
  BY <1>11 DEF Crash, NewsKnown, CachesCurrent
<1> QED
  BY <1>1, <1>2, <1>3, <1>4, <1>5, <1>6, <1>7, <1>8, <1>9, <1>10, <1>11 DEF StepKinds

-----------------------------------------------------------------------------
(* What is right stays right.                                              *)

\* Nothing of the job's changes in the caches without an event of the job's.
DepsKept ==
    \A k \in Kinds :
        \/ depsC'[k] = depsC[k] /\ (depsNews[k] = "owned" => depsNews'[k] = "owned")
        \/ depsNews[k] # "owned" /\ depsC[k].owner # job.uid

PodsKept ==
    \A i \in Index :
        \/ podsC'[i] = podsC[i] /\ (podsNews[i] = "owned" => podsNews'[i] = "owned")
        \/ podsNews[i] # "owned" /\ podsC[i].owner # job.uid /\ podsC'[i].owner # job.uid

\* Where the controller is not told, nothing has happened to the job.
LEMMA StepKeeps ==
    ASSUME TypeOK, UidsKnown, NewsKnown, SyncKnown, [Next]_vars, Undisturbed'
    PROVE  /\ UNCHANGED jobC /\ jobC.uid = job.uid /\ job.uid # 0
           /\ DepsKept /\ PodsKept
<1> USE DEF vars, jobVars, depVars, podVars, controllerVars
<1>1. StepKinds
  BY Kinded
<1>2. ASSUME NEW k \in Kinds, NEW object \in DepType, DepWrite(k, object),
             UNCHANGED <<jobVars, depsC, podVars>>
      PROVE  DepsKept /\ PodsKept
  <2>1. depsNews[k] = "owned" => depsNews'[k] = "owned"
    BY <1>2, NewsOfWrites
  <2>2. \A m \in Kinds \ {k} : depsNews'[m] = depsNews[m]
    BY <1>2 DEF DepWrite, SetDep, TypeOK
  <2> QED
    BY <1>2, <2>1, <2>2 DEF DepsKept, PodsKept
<1>3. ASSUME NEW i \in Index, NEW pod \in PodType, PodWrite(i, pod),
             UNCHANGED <<jobVars, podsC, depVars>>
      PROVE  DepsKept /\ PodsKept
  <2>1. podsNews[i] = "owned" => podsNews'[i] = "owned"
    BY <1>3, NewsOfWrites
  <2>2. \A m \in Index \ {i} : podsNews'[m] = podsNews[m]
    BY <1>3 DEF PodWrite, SetPod, TypeOK
  <2> QED
    BY <1>3, <2>1, <2>2 DEF DepsKept, PodsKept
<1>4. CASE UNCHANGED jobVars
  <2>1. jobC.uid = job.uid /\ job.uid # 0 /\ listed
    BY <1>4 DEF Undisturbed, listed
  <2>2. ASSUME NEW k \in Kinds, DeliverDep(k) PROVE DepsKept /\ PodsKept
    <3>1. depsNews[k] = "others"
      BY <2>1, <2>2 DEF DeliverDep, handleObject, Undisturbed, TypeOK, NewsType
    <3>2. depsC[k].owner # job.uid
      BY <2>1, <3>1 DEF NewsKnown
    <3>3. \A m \in Kinds \ {k} : depsC'[m] = depsC[m] /\ depsNews'[m] = depsNews[m]
      BY <2>2 DEF DeliverDep, TypeOK
    <3>4. UNCHANGED podVars
      BY <2>2 DEF DeliverDep
    <3> QED
      BY <3>1, <3>2, <3>3, <3>4 DEF DepsKept, PodsKept
  <2>3. CASE DeliverPod
    <3>1. PICK i \in Index :
            /\ podsNews[i] # "none"
            /\ podsC' = [podsC EXCEPT ![i] = pods[i]]
            /\ podsNews' = [podsNews EXCEPT ![i] = "none"]
            /\ dirty' = (dirty \/ handleObject(podsNews[i]))
      BY <2>3 DEF DeliverPod
    <3>2. podsNews[i] = "others"
      BY <2>1, <3>1 DEF handleObject, Undisturbed, TypeOK, NewsType
    <3>3. podsC[i].owner # job.uid /\ pods[i].owner # job.uid
      BY <2>1, <3>2, OwnerNumbers DEF NewsKnown
    <3>4. podsC'[i] = pods[i]
          /\ \A m \in Index \ {i} : podsC'[m] = podsC[m] /\ podsNews'[m] = podsNews[m]
      BY <3>1 DEF TypeOK
    <3>5. UNCHANGED depVars
      BY <2>3 DEF DeliverPod
    <3> QED
      BY <1>4, <2>1, <3>2, <3>3, <3>4, <3>5 DEF DepsKept, PodsKept
  <2>4. CASE UNCHANGED <<depVars, podVars>>
    BY <1>4, <2>1, <2>4 DEF DepsKept, PodsKept
  <2>5. \/ UNCHANGED <<depVars, podVars>> \/ DeliverPod \/ (\E k \in Kinds : DeliverDep(k))
        \/ /\ \E k \in Kinds, object \in DepType : DepWrite(k, object)
           /\ UNCHANGED <<jobVars, depsC, podVars>>
        \/ /\ \E i \in Index, pod \in PodType : PodWrite(i, pod)
           /\ UNCHANGED <<jobVars, podsC, depVars>>
    <3>1. ~Crash
      BY <2>1 DEF Crash, Undisturbed
    <3>2. DeliverJob \/ CreateJob \/ EditJob \/ DeleteJob => UNCHANGED <<depVars, podVars>>
      BY DEF DeliverJob, CreateJob, EditJob, DeleteJob
    <3> QED
      BY <1>1, <3>1, <3>2 DEF StepKinds
  <2> QED
    BY <1>2, <1>3, <1>4, <2>1, <2>2, <2>3, <2>4, <2>5
<1>5. CASE ~UNCHANGED jobVars
  <2>1. DeliverJob \/ CreateJob \/ EditJob \/ DeleteJob \/ Crash
    BY <1>1, <1>5 DEF StepKinds, DeliverDep, DeliverPod
  <2>2. ~DeliverJob
    BY DEF DeliverJob, Undisturbed
  <2>3. ~CreateJob
    <3> SUFFICES ASSUME CreateJob PROVE FALSE
      OBVIOUS
    <3>1. job'.uid = lastUID + 1 /\ UNCHANGED jobC
      BY DEF CreateJob
    <3> QED
      BY <3>1, OwnerNumbers DEF Undisturbed, UidsKnown
  <2>4. ~DeleteJob
    BY DEF DeleteJob, NoJob, Undisturbed
  <2>5. ~Crash
    BY DEF Crash, Undisturbed
  <2>6. CASE EditJob
    <3>1. \A n : [job EXCEPT !.replicas = n].uid = job.uid
      BY DEF TypeOK, JobType
    <3>2. job'.uid = job.uid /\ UNCHANGED <<jobC, depVars, podVars>>
      BY <2>6, <3>1 DEF EditJob
    <3> QED
      BY <3>2 DEF Undisturbed, DepsKept, PodsKept
  <2> QED
    BY <2>1, <2>2, <2>3, <2>4, <2>5, <2>6
<1> QED
  BY <1>4, <1>5

\* What is right stays right in these steps.
LEMMA Stay ==
    ASSUME TypeOK, UNCHANGED jobC, jobC.uid = job.uid, DepsKept, PodsKept
    PROVE  /\ \A k \in Kinds : DepRight(k) => DepRight(k)'
           /\ LauncherRight => LauncherRight'
           /\ \A i \in Index : (PodMade(i) => PodMade(i)') /\ (PodGone(i) => PodGone(i)')
           /\ NotMore => NotMore'
           /\ Surplus' = Surplus /\ Surplus \subseteq Index
<1>1. /\ \A i \in Index : (PodMade(i) => PodMade(i)') /\ (PodGone(i) => PodGone(i)')
      /\ Surplus' = Surplus /\ Surplus \subseteq Index
  BY DEF PodsKept, PodMade, PodGone, Surplus
<1>2. \A i \in Index : podsC'[i].owner = jobC.uid => podsC'[i] = podsC[i]
  BY DEF PodsKept
<1>3. ASSUME NEW k \in Kinds, DepRight(k) PROVE DepRight(k)'
  <2>1. CASE depsNews[k] = "owned"
    BY <2>1 DEF DepsKept, DepRight
  <2>2. CASE depsNews[k] # "owned"
    <3>1. depsC[k].owner = jobC.uid
      BY <1>3, <2>2 DEF DepRight
    <3>2. depsC'[k] = depsC[k]
      BY <3>1 DEF DepsKept
    <3> QED
      BY <1>2, <1>3, <2>2, <3>2 DEF DepRight
  <2> QED
    BY <2>1, <2>2
<1>4. LauncherRight => LauncherRight'
  BY DEF LauncherRight, DepsKept, Kinds
<1>5. NotMore => NotMore'
  <2> DEFINE mine == {i \in Index : podsC[i].owner = jobC.uid}
  <2>1. CASE \A i \in Surplus : PodGone(i)
    BY <1>1, <2>1 DEF NotMore
  <2>2. CASE Cardinality(mine) <= jobC.replicas
    <3>1. mine' \subseteq mine /\ mine \subseteq Index
      BY <1>2
    <3>2. IsFiniteSet(Index)
      <4>1. 0 \in Int /\ MaxReplicas - 1 \in Int
        BY Constants
      <4> QED
        BY <4>1, FS_Interval DEF Index
    <3> HIDE DEF mine
    <3>3. /\ Cardinality(mine') <= Cardinality(mine)
          /\ Cardinality(mine') \in Nat /\ Cardinality(mine) \in Nat
      BY <3>1, <3>2, FS_Subset, FS_CardinalityType
    <3>4. Cardinality(mine') <= jobC.replicas
      BY <2>2, <3>3 DEF TypeOK, JobType
    <3> QED
      BY <3>4 DEF mine, NotMore
  <2> QED
    BY <2>1, <2>2 DEF NotMore
<1> QED
  BY <1>1, <1>3, <1>4, <1>5

\* Steps that leave the sync where it is.
LEMMA OthersProgress ==
    ASSUME RestInv, [Next]_vars, UNCHANGED <<pc, sync>>, ~Controller, Undisturbed'
    PROVE  ProgressInv'
<1>1. /\ UNCHANGED jobC /\ jobC.uid = job.uid /\ job.uid # 0 /\ DepsKept /\ PodsKept
  BY StepKeeps DEF RestInv
<1>2. Undisturbed
  <2>1. dirty => dirty' \/ Crash
    BY OtherMoves
  <2>2. ~Crash
    BY <1>1 DEF Crash, Undisturbed
  <2> QED
    BY <1>1, <2>1, <2>2 DEF Undisturbed
<1>3. Past' = Past /\ Past \subseteq Kinds
  BY DEF Past
<1>4. /\ \A k \in Kinds : DepRight(k) => DepRight(k)'
      /\ LauncherRight => LauncherRight'
      /\ \A i \in Index : (PodMade(i) => PodMade(i)') /\ (PodGone(i) => PodGone(i)')
      /\ NotMore => NotMore'
      /\ Surplus' = Surplus /\ Surplus \subseteq Index
  BY <1>1, Stay DEF RestInv
<1>5. 0 .. sync.ix - 1 \subseteq Index /\ 0 .. jobC.replicas - 1 \subseteq Index
  BY Constants DEF RestInv, TypeOK, SyncType, JobType, Index
<1> QED
  BY <1>1, <1>2, <1>3, <1>4, <1>5 DEF ProgressInv, RestInv


\* The first worker comes after the dependents and the scale-down.
LEMMA FirstWorkerStep == ASSUME TypeOK, FirstWorker, [Next]_vars PROVE FirstWorker'
<1>1. NoSync.ix = 0 /\ \A todo : [sync EXCEPT !.todo = todo].ix = sync.ix
  BY DEF NoSync, TypeOK, SyncType
<1>2. CASE SyncStart
  <2>1. [NoSync EXCEPT !.uid = jobC.uid, !.replicas = jobC.replicas,
                       !.launcherExists = Exists(depsC["Launcher"])].ix = 0
    BY DEF NoSync
  <2> QED
    BY <1>1, <1>2, <2>1 DEF SyncStart, Fails, FirstWorker
<1>3. ASSUME NEW k \in Kinds, GetOrCreate(k) PROVE FirstWorker'
  <2>1. pc \notin {"workers", "Launcher"}
    BY <1>3, Constants DEF GetOrCreate
  <2>2. Fails \/ Advance(k)
    BY <1>3 DEF GetOrCreate, EndCall
  <2>3. sync' = NoSync \/ sync' = sync \/ sync' = [sync EXCEPT !.todo = workerPods]
    BY <2>2 DEF Fails, Advance, Goto
  <2> QED
    BY <1>1, <2>1, <2>3 DEF FirstWorker
<1>4. CASE ScaleDown
  <2>1. pc \notin {"workers", "Launcher"}
    BY <1>4 DEF ScaleDown
  <2>2. sync' = NoSync \/ \E todo : sync' = [sync EXCEPT !.todo = todo]
    BY <1>4 DEF ScaleDown, EndCall, Fails, AfterScaleDown, Goto
  <2> QED
    BY <1>1, <2>1, <2>2 DEF FirstWorker
<1>5. CASE GetOrCreateWorker \/ CreateLauncher
  BY <1>1, <1>5 DEF GetOrCreateWorker, CreateLauncher, EndCall, Fails, Return, Goto, FirstWorker
<1>6. CASE ~Controller
  BY <1>1, <1>6, OtherMoves DEF Crash, FirstWorker
<1> QED
  BY <1>2, <1>3, <1>4, <1>5, <1>6 DEF Controller

\* A sync that goes on has the job as it is, and finds right what was right.
LEMMA GoesOn ==
    ASSUME RestInv, Controller, pc # "idle", Undisturbed'
    PROVE  /\ Undisturbed /\ ~Fails /\ UNCHANGED jobC
           /\ sync.uid = jobC.uid /\ sync.replicas = jobC.replicas /\ sync.uid \in UIDs
           /\ \A k \in Kinds : DepRight(k) => DepRight(k)'
           /\ LauncherRight => LauncherRight'
           /\ \A i \in Index : (PodMade(i) => PodMade(i)') /\ (PodGone(i) => PodGone(i)')
           /\ NotMore => NotMore'
           /\ Surplus' = Surplus /\ Surplus \subseteq Index
<1>1. /\ UNCHANGED jobC /\ jobC.uid = job.uid /\ job.uid # 0 /\ DepsKept /\ PodsKept
  BY StepKeeps DEF RestInv, Next
<1>2. ~Fails /\ ~dirty
  <2>1. ~dirty'
    BY DEF Undisturbed
  <2>2. ~Fails
    BY <2>1 DEF Fails
  <2>3. dirty' = dirty
    BY <2>2, SyncMoves DEF RestInv, Return, Goto
  <2> QED
    BY <2>1, <2>2, <2>3
<1>3. Undisturbed
  BY <1>1, <1>2 DEF Undisturbed
<1>4. sync.uid = jobC.uid /\ sync.replicas = jobC.replicas /\ sync.uid \in UIDs
  BY <1>1, <1>2 DEF RestInv, SyncKnown
<1> QED
  BY <1>1, <1>2, <1>3, <1>4, Stay DEF RestInv

\* Nothing has been looked at when a sync begins, but for the launcher.
LEMMA SyncStartProgress ==
    ASSUME RestInv, SyncStart, Undisturbed' PROVE ProgressInv'
<1>1. UNCHANGED <<jobVars, depVars, podVars>>
  BY DEF SyncStart
<1>2. /\ listed /\ ~foreignLauncher /\ pc' = Dependents[1]
      /\ sync' = [NoSync EXCEPT !.uid = jobC.uid, !.replicas = jobC.replicas,
                                !.launcherExists = Exists(depsC["Launcher"])]
  BY <1>1 DEF SyncStart, Undisturbed, listed, Fails, jobVars
<1>3. Len(Dependents) \in Nat /\ 1 \in DOMAIN Dependents /\ DOMAIN Dependents \subseteq Nat \ {0}
      /\ Dependents[1] \in {"Service", "ConfigMap", "Secret"}
  BY DependentsAssumption
<1>4. Past' = {}
  <2>1. pc' \notin AfterDependents
    BY <1>2, <1>3 DEF AfterDependents
  <2>2. \A m, n \in DOMAIN Dependents : Dependents[n] = pc' => ~(m < n)
    <3>1. \A n \in DOMAIN Dependents : Dependents[n] = pc' => n = 1
      BY <1>2, <1>3, DependentsAssumption
    <3> QED
      BY <1>3, <3>1
  <2> QED
    BY <2>1, <2>2 DEF Past
<1>5. sync'.launcherExists => LauncherRight'
  <2>1. sync'.launcherExists = Exists(depsC["Launcher"])
    BY <1>2 DEF NoSync
  <2> QED
    BY <1>1, <1>2, <2>1 DEF foreignLauncher, IsControlledBy, LauncherRight, jobVars, depVars
<1> QED
  BY <1>2, <1>3, <1>4, <1>5 DEF ProgressInv

\* The next call, or the workers.
LEMMA AdvanceProgress ==
    ASSUME RestInv, Controller, NEW k \in Kinds \ {"Launcher"}, pc = k, Advance(k),
           Undisturbed', DepRight(k)'
    PROVE  ProgressInv'
<1>1. /\ Undisturbed /\ UNCHANGED jobC
      /\ sync.replicas = jobC.replicas /\ sync.uid = jobC.uid /\ sync.uid \in UIDs
      /\ \A m \in Kinds : DepRight(m) => DepRight(m)'
      /\ LauncherRight => LauncherRight'
      /\ \A i \in Index : PodGone(i) => PodGone(i)'
      /\ NotMore => NotMore'
      /\ Surplus' = Surplus /\ Surplus \subseteq Index
  BY GoesOn, Constants
<1>2. PICK n \in DOMAIN Dependents : Dependents[n] = k
  BY Constants
<1>3. \A m \in DOMAIN Dependents : Dependents[m] = k => m = n
  BY <1>2, DependentsAssumption
<1>4. n = CHOOSE m \in DOMAIN Dependents : Dependents[m] = k
  BY <1>2, <1>3
<1>5. /\ DOMAIN Dependents = 1 .. Len(Dependents) /\ Len(Dependents) \in Nat
      /\ \A m \in DOMAIN Dependents : Dependents[m] \in {"Service", "ConfigMap", "Secret"}
  BY DependentsAssumption
<1>6. [sync EXCEPT !.todo = workerPods].todo = workerPods
      /\ [sync EXCEPT !.todo = workerPods].launcherExists = sync.launcherExists
  BY DEF RestInv, TypeOK, SyncType
<1>7. \/ n < Len(Dependents) /\ Goto(Dependents[n + 1], sync)
      \/ /\ n = Len(Dependents)
         /\ \/ Goto("scaledown", [sync EXCEPT !.todo = workerPods])
            \/ ~(Cardinality(workerPods) > sync.replicas) /\ Goto("workers", sync)
  BY <1>4, <1>5 DEF Advance
<1>8. Past' \subseteq Past \cup {k}
  <2>1. ASSUME NEW m \in DOMAIN Dependents, m < n, Dependents[m] # "Launcher"
        PROVE  Dependents[m] \in Past
    BY <1>2, <2>1, Constants DEF Past
  <2>2. CASE n < Len(Dependents) /\ Goto(Dependents[n + 1], sync)
    <3>1. pc' = Dependents[n + 1] /\ n + 1 \in DOMAIN Dependents
      BY <1>5, <2>2 DEF Goto
    <3>2. \A m \in DOMAIN Dependents : Dependents[m] = pc' => m = n + 1
      BY <3>1, DependentsAssumption
    <3>3. pc' \notin AfterDependents
      BY <1>5, <3>1 DEF AfterDependents
    <3>4. \A m \in DOMAIN Dependents : m < n + 1 => m < n \/ m = n
      BY <1>5
    <3> QED
      BY <1>2, <1>5, <2>1, <3>2, <3>3, <3>4 DEF Past
  <2>3. CASE n = Len(Dependents)
    <3>1. \A m \in DOMAIN Dependents : m < n \/ m = n
      BY <1>5, <2>3
    <3>2. ASSUME NEW l \in Kinds \ {"Launcher"} PROVE l \in Past \cup {k}
      <4>1. PICK m \in DOMAIN Dependents : Dependents[m] = l
        BY Constants
      <4> QED
        BY <1>2, <2>1, <3>1, <3>2, <4>1
    <3> QED
      BY <3>2 DEF Past
  <2> QED
    BY <1>7, <2>2, <2>3
<1>9. \A m \in Past' : DepRight(m)'
  <2>1. \A m \in Past : m \in Kinds /\ DepRight(m)
    BY <1>1 DEF Past, RestInv, ProgressInv
  <2> QED
    BY <1>1, <1>8, <2>1
<1>10. sync'.launcherExists => LauncherRight'
  <2>1. sync'.launcherExists = sync.launcherExists
    BY <1>6, <1>7 DEF Goto
  <2> QED
    BY <1>1, <2>1 DEF RestInv, ProgressInv
<1>11. CASE n < Len(Dependents) /\ Goto(Dependents[n + 1], sync)
  <2>1. pc' \in {"Service", "ConfigMap", "Secret"}
    BY <1>5, <1>11 DEF Goto
  <2> QED
    BY <1>9, <1>10, <2>1 DEF ProgressInv
<1>12. CASE Goto("scaledown", [sync EXCEPT !.todo = workerPods])
  <2>1. pc' = "scaledown" /\ sync'.todo = workerPods
    BY <1>6, <1>12 DEF Goto
  <2>2. ASSUME NEW i \in Surplus \ workerPods PROVE PodGone(i)'
    <3>1. podsC[i].owner = Nobody /\ i \in Index
      BY <1>1, <2>2 DEF workerPods, Exists
    <3>2. jobC.uid # Nobody
      BY <1>1 DEF Nobody, Undisturbed
    <3> QED
      BY <1>1, <3>1, <3>2 DEF PodGone
  <2> QED
    BY <1>1, <1>9, <1>10, <2>1, <2>2 DEF ProgressInv
<1>13. CASE ~(Cardinality(workerPods) > sync.replicas) /\ Goto("workers", sync)
  <2>1. pc' = "workers" /\ sync'.ix = 0 /\ sync' = sync
    <3>1. pc \notin {"workers", "Launcher"}
      BY Constants
    <3> QED
      BY <1>13, <3>1 DEF Goto, RestInv, FirstWorker
  <2>2. NotMore
    <3> DEFINE mine == {i \in Index : podsC[i].owner = jobC.uid}
    <3>1. mine \subseteq workerPods /\ workerPods \subseteq Index
      BY <1>1 DEF workerPods, Exists, Nobody, Undisturbed
    <3>2. IsFiniteSet(Index)
      <4>1. 0 \in Int /\ MaxReplicas - 1 \in Int
        BY Constants
      <4> QED
        BY <4>1, FS_Interval DEF Index
    <3> HIDE DEF mine
    <3>3. IsFiniteSet(workerPods)
      BY <3>1, <3>2, FS_Subset
    <3>4. /\ Cardinality(mine) <= Cardinality(workerPods)
          /\ Cardinality(mine) \in Nat /\ Cardinality(workerPods) \in Nat
      <4>1. IsFiniteSet(mine)
        BY <3>1, <3>3, FS_Subset
      <4> QED
        BY <3>1, <3>3, <4>1, FS_Subset, FS_CardinalityType
    <3>5. jobC.replicas \in Nat
      BY Constants DEF RestInv, TypeOK, JobType
    <3>6. Cardinality(mine) <= jobC.replicas
      BY <1>1, <1>13, <3>4, <3>5
    <3> QED
      BY <3>6 DEF mine, NotMore
  <2>3. 0 .. sync'.ix - 1 = {}
    BY <2>1
  <2> QED
    BY <1>1, <1>9, <1>10, <2>1, <2>2, <2>3 DEF ProgressInv
<1> QED
  BY <1>7, <1>11, <1>12, <1>13

\* A dependent is right after its call.
LEMMA GetOrCreateProgress ==
    ASSUME RestInv, NEW k \in Kinds, GetOrCreate(k), Undisturbed' PROVE ProgressInv'
<1>1. pc = k /\ k # "Launcher" /\ pc # "idle" /\ Controller
  BY Constants DEF GetOrCreate, Controller
<1>2. /\ ~Fails /\ UNCHANGED <<jobC, podsC, depsC>>
      /\ sync.uid = jobC.uid /\ sync.replicas = jobC.replicas /\ sync.uid \in UIDs
      /\ DepRight(k) => DepRight(k)'
  BY <1>1, GoesOn DEF GetOrCreate, podVars
<1>3. Advance(k)
  BY <1>1, <1>2 DEF GetOrCreate, EndCall
<1>4. newData(k, sync) \in DataType
  BY NewDataType DEF RestInv, TypeOK
<1>5. DepRight(k)'
  <2>1. ASSUME NEW object \in DepType, SetDep(k, object), object.owner = sync.uid
        PROVE  DepRight(k)'
    <3>1. DepWrite(k, object)
      BY <1>1, <2>1, CallWrites DEF RestInv
    <3> QED
      BY <1>2, <2>1, <3>1, NewsOfWrites DEF RestInv, DepRight
  <2>2. /\ [owner |-> sync.uid, data |-> newData(k, sync)] \in DepType
        /\ IsControlledBy(depsC[k], sync.uid) =>
              /\ [depsC[k] EXCEPT !.data = newData(k, sync)] \in DepType
              /\ [depsC[k] EXCEPT !.data = newData(k, sync)].owner = sync.uid
    BY <1>4, ObjectTypes DEF RestInv, TypeOK, SyncType, DepType, IsControlledBy
  <2>3. CASE IsControlledBy(depsC[k], sync.uid) /\ depsC[k].data = newData(k, sync)
    <3>1. newData(k, sync).intact /\ (k = "ConfigMap" =>
              /\ newData(k, sync).hostfile = sync.replicas
              /\ newData(k, sync).hosts = getRunningWorkerPods)
      BY DEF newData, PlainData
    <3>2. \A i \in Index : podsC[i].owner = jobC.uid =>
              (i \in getRunningWorkerPods <=> podsC[i].phase = "Running")
      BY <1>2, OwnerNumbers DEF RestInv, getRunningWorkerPods, workerPods, Exists
    <3>3. DepRight(k)
      BY <1>2, <2>3, <3>1, <3>2 DEF DepRight, IsControlledBy
    <3> QED
      BY <1>2, <3>3
  <2>4. \/ SetDep(k, [owner |-> sync.uid, data |-> newData(k, sync)])
        \/ /\ IsControlledBy(depsC[k], sync.uid)
           /\ SetDep(k, [depsC[k] EXCEPT !.data = newData(k, sync)])
        \/ IsControlledBy(depsC[k], sync.uid) /\ depsC[k].data = newData(k, sync)
    BY <1>2 DEF GetOrCreate, EndCall, Applied
  <2> QED
    BY <2>1, <2>2, <2>3, <2>4
<1> QED
  BY <1>1, <1>3, <1>5, AdvanceProgress

\* A pod that is too many is gone after its visit.  Pods without an index would
\* end the scale-down and the sync before the workers.
LEMMA ScaleDownProgress ==
    ASSUME RestInv, \A i \in Index : podsC[i].indexed, ScaleDown, Undisturbed'
    PROVE  ProgressInv'
<1>1. pc = "scaledown" /\ Controller
  BY DEF ScaleDown, Controller
<1>2. /\ ~Fails /\ UNCHANGED <<jobC, podsC>> /\ Undisturbed
      /\ sync.uid = jobC.uid /\ sync.replicas = jobC.replicas /\ sync.uid \in UIDs
      /\ \A k \in Kinds : DepRight(k) => DepRight(k)'
      /\ LauncherRight => LauncherRight'
      /\ \A i \in Index : PodGone(i) => PodGone(i)'
      /\ Surplus' = Surplus /\ Surplus \subseteq Index
  BY <1>1, GoesOn DEF ScaleDown
<1>3. PICK i \in sync.todo :
        /\ AfterScaleDown(sync.todo \ {i})
        /\ \/ i < sync.replicas
           \/ SetPod(i, NoPod) /\ Exists(pods[i])
  <2>1. sync.todo \subseteq Index
    BY DEF RestInv, TypeOK, SyncType
  <2>2. "ok" \in Replies(FALSE) => FALSE
    BY DEF Replies
  <2> QED
    BY <1>2, <2>1, <2>2 DEF ScaleDown, EndCall, Applied, Replies
<1>4. /\ pc' \in {"scaledown", "workers"} /\ sync'.todo = sync.todo \ {i}
      /\ pc' = "workers" => sync'.todo = {}
      /\ sync'.ix = 0 /\ sync'.launcherExists = sync.launcherExists
  <2>1. /\ [sync EXCEPT !.todo = sync.todo \ {i}].todo = sync.todo \ {i}
        /\ [sync EXCEPT !.todo = sync.todo \ {i}].ix = sync.ix
        /\ [sync EXCEPT !.todo = sync.todo \ {i}].launcherExists = sync.launcherExists
    BY DEF RestInv, TypeOK, SyncType
  <2>2. sync.ix = 0
    BY <1>1 DEF RestInv, FirstWorker
  <2> QED
    BY <1>3, <2>1, <2>2 DEF AfterScaleDown, Goto
<1>5. i \in Surplus => PodGone(i)'
  <2> SUFFICES ASSUME i \in Surplus, podsC[i].owner = jobC.uid PROVE podsNews'[i] = "owned"
    BY <1>2 DEF PodGone
  <2>1. i \in Index /\ SetPod(i, NoPod)
    BY <1>2, <1>3 DEF Surplus, RestInv, TypeOK, JobType, Index
  <2>2. podsNews'[i] = MoreNews(podsNews[i], pods[i], NoPod)
    BY <2>1 DEF SetPod, RestInv, TypeOK
  <2>3. podsNews[i] \in {"none", "others", "owned"}
    BY <2>1 DEF RestInv, TypeOK, NewsType
  <2>4. podsNews[i] # "others"
    BY <1>2, <2>1 DEF RestInv, NewsKnown, Undisturbed
  <2>5. podsNews[i] = "none" => pods[i].owner \in UIDs
    BY <1>2, <2>1 DEF RestInv, NewsKnown
  <2>6. ~Exists(NoPod)
    BY DEF Exists, NoPod
  <2> QED
    BY <2>2, <2>3, <2>4, <2>5, <2>6 DEF MoreNews
<1>6. \A j \in Surplus \ sync'.todo : PodGone(j)'
  BY <1>1, <1>2, <1>4, <1>5 DEF RestInv, ProgressInv
<1>7. Past' = Past /\ Past \subseteq Kinds
  BY <1>1, <1>4 DEF Past, AfterDependents
<1>8. pc' = "workers" => NotMore'
  BY <1>2, <1>4, <1>6 DEF NotMore
<1>9. 0 .. sync'.ix - 1 = {}
  BY <1>4
<1> QED
  BY <1>2, <1>4, <1>6, <1>7, <1>8, <1>9 DEF RestInv, ProgressInv

\* A worker is there after its visit.
LEMMA GetOrCreateWorkerProgress ==
    ASSUME RestInv, GetOrCreateWorker, Undisturbed' PROVE ProgressInv'
<1> DEFINE next == [sync EXCEPT !.ix = @ + 1]
<1> PICK i : i = sync.ix
  OBVIOUS
<1>1. pc = "workers" /\ Controller
  BY DEF GetOrCreateWorker, Controller
<1>2. /\ ~Fails /\ UNCHANGED <<jobC, podsC>> /\ Undisturbed
      /\ sync.uid = jobC.uid /\ sync.replicas = jobC.replicas /\ sync.uid \in UIDs
      /\ \A k \in Kinds : DepRight(k) => DepRight(k)'
      /\ LauncherRight => LauncherRight'
      /\ \A j \in Index : PodMade(j) => PodMade(j)'
      /\ NotMore => NotMore'
  BY <1>1, GoesOn DEF GetOrCreateWorker
<1>3. /\ i \in Nat /\ jobC.replicas \in Nat /\ 0 .. i - 1 \subseteq Index
      /\ i < sync.replicas => i \in Index
      /\ next.ix = i + 1 /\ next.launcherExists = sync.launcherExists
  BY <1>2, Constants DEF RestInv, TypeOK, SyncType, JobType, Index
<1>4. /\ \A k \in Past : k \in Kinds /\ DepRight(k)'
      /\ sync.launcherExists => LauncherRight'
      /\ NotMore'
      /\ \A j \in 0 .. i - 1 : PodMade(j)'
  BY <1>1, <1>2, <1>3 DEF RestInv, ProgressInv, Past
<1>5. CASE i = sync.replicas /\ Goto("Launcher", sync)
  <2>1. pc' = "Launcher" /\ sync' = sync
    BY <1>5 DEF Goto
  <2>2. Past' = Past
    BY <1>1, <2>1 DEF Past, AfterDependents
  <2>3. 0 .. jobC'.replicas - 1 = 0 .. i - 1
    BY <1>2, <1>5
  <2> QED
    BY <1>4, <2>1, <2>2, <2>3 DEF ProgressInv
<1>6. CASE i < sync.replicas /\ Goto("workers", next) /\ PodMade(i)'
  <2>1. pc' = "workers" /\ sync' = next
    BY <1>6 DEF Goto
  <2>2. Past' = Past
    BY <1>1, <2>1 DEF Past, AfterDependents
  <2>3. \A j \in 0 .. sync'.ix - 1 : j \in 0 .. i - 1 \/ j = i
    BY <1>3, <2>1
  <2>4. \A j \in 0 .. sync'.ix - 1 : PodMade(j)'
    BY <1>4, <1>6, <2>3
  <2>5. sync'.launcherExists = sync.launcherExists
    BY <1>3, <2>1
  <2> HIDE DEF next
  <2> QED
    BY <1>4, <2>1, <2>2, <2>4, <2>5 DEF ProgressInv
<1>7. CASE i < sync.replicas /\ SetPod(i, newWorker(sync.uid)) /\ Goto("workers", next)
  <2>1. newWorker(sync.uid) \in PodType /\ newWorker(sync.uid).owner = sync.uid
    BY ObjectTypes DEF newWorker, RestInv, TypeOK, SyncType
  <2>2. PodWrite(i, newWorker(sync.uid))
    BY <1>1, <1>3, <1>7, <2>1, CallWrites DEF RestInv
  <2>3. PodMade(i)'
    <3>1. podsNews'[i] = "owned"
      BY <1>2, <1>3, <1>7, <2>1, <2>2, NewsOfWrites DEF RestInv
    <3> QED
      BY <3>1 DEF PodMade
  <2> QED
    BY <1>6, <1>7, <2>3
<1>8. CASE i < sync.replicas /\ IsControlledBy(podsC[i], sync.uid) /\ Goto("workers", next)
  <2>1. PodMade(i)
    BY <1>2, <1>8 DEF PodMade, IsControlledBy
  <2>2. PodMade(i)'
    BY <1>2, <1>3, <1>8, <2>1
  <2> QED
    BY <1>6, <1>8, <2>2
<1> QED
  BY <1>2, <1>5, <1>7, <1>8 DEF GetOrCreateWorker, EndCall, Applied

\* The launcher is there when the sync is over.
LEMMA CreateLauncherProgress ==
    ASSUME RestInv, CreateLauncher, Undisturbed' PROVE ProgressInv'
<1>1. pc = "Launcher" /\ Controller /\ "Launcher" \in Kinds
  BY DEF CreateLauncher, Controller, Kinds
<1>2. /\ ~Fails /\ UNCHANGED jobC /\ Undisturbed
      /\ sync.uid = jobC.uid /\ sync.replicas = jobC.replicas /\ sync.uid \in UIDs
      /\ \A k \in Kinds : DepRight(k) => DepRight(k)'
      /\ LauncherRight => LauncherRight'
      /\ \A j \in Index : PodMade(j) => PodMade(j)'
      /\ NotMore => NotMore'
  BY <1>1, GoesOn
<1>3. 0 .. jobC.replicas - 1 \subseteq Index
  BY Constants DEF RestInv, TypeOK, JobType, Index
<1>4. pc' = "idle"
  BY <1>2 DEF CreateLauncher, EndCall, Return, Goto
<1>5. LauncherRight'
  <2>1. CASE sync.launcherExists
    BY <1>2, <2>1 DEF RestInv, ProgressInv
  <2>2. CASE SetDep("Launcher", [owner |-> sync.uid, data |-> PlainData])
    <3>1. [owner |-> sync.uid, data |-> PlainData] \in DepType
      BY ObjectTypes DEF RestInv, TypeOK, SyncType
    <3>2. DepWrite("Launcher", [owner |-> sync.uid, data |-> PlainData])
      BY <1>1, <2>2, <3>1, CallWrites DEF RestInv
    <3> QED
      BY <1>1, <1>2, <3>1, <3>2, NewsOfWrites DEF RestInv, LauncherRight
  <2> QED
    BY <1>2, <2>1, <2>2 DEF CreateLauncher, EndCall, Applied
<1>6. Past' = Past /\ Past \subseteq Kinds
  BY <1>1, <1>4 DEF Past, AfterDependents
<1> QED
  BY <1>1, <1>2, <1>3, <1>4, <1>5, <1>6 DEF RestInv, ProgressInv

\* What is right at the stage of the sync is right at the next.
LEMMA ProgressStep ==
    ASSUME RestInv, \A i \in Index : podsC[i].indexed, [Next]_vars
    PROVE  ProgressInv'
<1> SUFFICES ASSUME Undisturbed' PROVE ProgressInv'
  BY DEF ProgressInv
<1>1. CASE Controller
  BY <1>1, SyncStartProgress, GetOrCreateProgress, ScaleDownProgress, GetOrCreateWorkerProgress,
     CreateLauncherProgress DEF Controller
<1>2. CASE ~Controller
  <2>1. ~Crash
    BY DEF Crash, Undisturbed
  <2> QED
    BY <1>2, <2>1, OtherMoves, OthersProgress
<1> QED
  BY <1>1, <1>2

\* At rest the caches are right, and they are what the server has.
LEMMA RestGives ==
    ASSUME RestInv, AtRest
    PROVE  /\ \A k \in Kinds : deps[k].owner = job.uid
           /\ \A i \in Index : pods[i].owner = job.uid <=> i < job.replicas
           /\ \A k \in Kinds \ {"Launcher"} : deps[k].data.intact
           /\ \A k \in Kinds \cap {"ConfigMap"} :
                 /\ deps[k].data.hostfile = job.replicas
                 /\ \A i \in 0 .. job.replicas - 1 :
                         i \in deps[k].data.hosts <=> pods[i].phase = "Running"
<1>1. /\ jobC = job /\ \A k \in Kinds : depsC[k] = deps[k]
      /\ \A i \in Index : podsC[i] = pods[i]
  BY DEF RestInv, NewsKnown, CachesCurrent, AtRest
<1>2. Undisturbed /\ pc = "idle" /\ Past = Kinds \ {"Launcher"}
  BY <1>1 DEF AtRest, Undisturbed, Past, AfterDependents
<1>3. /\ \A k \in Kinds \ {"Launcher"} : DepRight(k)
      /\ LauncherRight /\ NotMore
      /\ \A i \in 0 .. jobC.replicas - 1 : PodMade(i)
  BY <1>2 DEF RestInv, ProgressInv
<1>4. /\ \A k \in Kinds : depsNews[k] # "owned"
      /\ \A i \in Index : podsNews[i] # "owned"
  BY DEF AtRest
<1>5. jobC.replicas \in Nat /\ 0 .. jobC.replicas - 1 \subseteq Index
      /\ \A i \in Index : i \in Nat
  BY Constants DEF RestInv, TypeOK, JobType, Index
<1>6. \A i \in 0 .. jobC.replicas - 1 : podsC[i].owner = jobC.uid
  BY <1>3, <1>4, <1>5 DEF PodMade
<1>7. ASSUME NEW i \in Index, podsC[i].owner = jobC.uid PROVE i < jobC.replicas
  <2>1. CASE \A j \in Surplus : PodGone(j)
    BY <1>4, <1>5, <1>7, <2>1 DEF Surplus, PodGone
  <2>2. CASE Cardinality({j \in Index : podsC[j].owner = jobC.uid}) <= jobC.replicas
    <3> DEFINE mine == {j \in Index : podsC[j].owner = jobC.uid}
               asked == 0 .. jobC.replicas - 1
    <3>1. asked \subseteq mine /\ mine \subseteq Index /\ i \in mine
      BY <1>5, <1>6, <1>7
    <3>2. IsFiniteSet(Index)
      <4>1. 0 \in Int /\ MaxReplicas - 1 \in Int
        BY Constants
      <4> QED
        BY <4>1, FS_Interval DEF Index
    <3>3. Cardinality(asked) = jobC.replicas
      <4>1. 0 \in Int /\ jobC.replicas - 1 \in Int
        BY <1>5
      <4>2. Cardinality(asked) = IF 0 > jobC.replicas - 1 THEN 0 ELSE (jobC.replicas - 1) - 0 + 1
        BY <4>1, FS_Interval
      <4> QED
        BY <1>5, <4>2
    <3> HIDE DEF mine, asked
    <3>4. IsFiniteSet(mine)
      BY <3>1, <3>2, FS_Subset
    <3>5. /\ Cardinality(asked) <= Cardinality(mine) /\ Cardinality(mine) \in Nat
          /\ Cardinality(mine) = Cardinality(asked) => mine = asked
      BY <3>1, <3>4, FS_Subset, FS_CardinalityType
    <3>6. Cardinality(mine) <= jobC.replicas
      BY <2>2 DEF mine
    <3>7. mine = asked
      BY <1>5, <3>3, <3>5, <3>6
    <3> QED
      BY <1>5, <3>1, <3>7 DEF asked
  <2> QED
    BY <1>3, <2>1, <2>2 DEF NotMore
<1>8. /\ \A k \in Kinds : depsC[k].owner = jobC.uid
      /\ \A k \in Kinds \ {"Launcher"} : depsC[k].data.intact
      /\ \A k \in Kinds \cap {"ConfigMap"} :
            /\ depsC[k].data.hostfile = jobC.replicas
            /\ \A i \in Index : podsC[i].owner = jobC.uid =>
                    (i \in depsC[k].data.hosts <=> podsC[i].phase = "Running")
  BY <1>3, <1>4 DEF DepRight, LauncherRight, Kinds
<1>9. \A i \in Index : i < jobC.replicas => i \in 0 .. jobC.replicas - 1
  BY <1>5
<1> QED
  BY <1>1, <1>5, <1>6, <1>7, <1>8, <1>9

\* Pods and their copies have an index, if all that there have been had one.
PodsLabelled ==
    "unlabelled" \notin strangers => \A i \in Index : pods[i].indexed /\ podsC[i].indexed

\* The pods that are written are those that strangers is told about.
LEMMA LabelledStep ==
    ASSUME TypeOK, UidsKnown, SyncKnown, PodsLabelled, [Next]_vars
    PROVE  PodsLabelled' /\ strangers \subseteq strangers'
<1>1. \/ UNCHANGED <<pods, strangers>>
      \/ \E i \in Index, pod \in PodType : SetPod(i, pod)
  <2>1. StepKinds
    BY Kinded
  <2> QED
    BY <2>1 DEF StepKinds, PodWrite, podVars, DeliverJob, DeliverDep, DeliverPod, CreateJob, EditJob,
       DeleteJob, Crash
<1>2. \/ UNCHANGED podsC \/ podsC' = pods
      \/ \E i \in Index : podsC' = [podsC EXCEPT ![i] = pods[i]]
  BY DEF vars, podVars, Next, Controller, SyncStart, GetOrCreate, ScaleDown, GetOrCreateWorker,
     CreateLauncher, Deliver, DeliverJob, DeliverDep, DeliverPod, Cluster, CreateJob, EditJob,
     DeleteJob, GarbageCollect, MeddleWithDep, MeddleWithPod, PodRuns, PodFails, Crash
<1>3. strangers \subseteq strangers'
  BY <1>1 DEF SetPod
<1>4. ASSUME "unlabelled" \notin strangers', NEW i \in Index
      PROVE  pods'[i].indexed /\ podsC'[i].indexed
  <2>1. pods[i].indexed /\ podsC[i].indexed
    BY <1>3, <1>4 DEF PodsLabelled
  <2>2. podsC'[i].indexed
    BY <1>2, <2>1 DEF TypeOK
  <2>3. ASSUME NEW n \in Index, NEW pod \in PodType, SetPod(n, pod)
        PROVE  pods'[i].indexed
    <3>1. pod.indexed /\ pods' = [pods EXCEPT ![n] = pod]
      BY <1>4, <2>3 DEF SetPod, Strangeness
    <3> QED
      BY <2>1, <3>1 DEF TypeOK
  <2> QED
    BY <1>1, <2>1, <2>2, <2>3
<1> QED
  BY <1>3, <1>4 DEF PodsLabelled

\* Nothing is forgotten, for any number of incarnations of the job, workers,
\* dependents, failures and meddling: when no key, sync or event is left
\* (handleObject, processNextWorkItem), the job has exactly what it asks for.
THEOREM NothingIsForgotten == Safety => []NothingForgotten
<1> DEFINE Inv ==
        /\ TypeOK /\ UidsKnown /\ NewsKnown /\ SyncKnown /\ FirstWorker /\ PodsLabelled
        /\ "unlabelled" \notin strangers => ProgressInv
<1>1. TypeOK /\ Init => Inv
  <2> SUFFICES ASSUME TypeOK, Init PROVE Inv
    OBVIOUS
  <2>1. UidsKnown
    BY DEF Init, UidsKnown, NoJob, NoSync, NoDep, NoPod, Nobody
  <2>2. NewsKnown /\ SyncKnown /\ FirstWorker /\ ProgressInv
    BY DEF Init, NewsKnown, CachesCurrent, SyncKnown, FirstWorker, ProgressInv, Undisturbed, NoJob,
       NoSync
  <2>3. PodsLabelled
    BY DEF Init, NoPod, PodsLabelled
  <2> QED
    BY <2>1, <2>2, <2>3
<1>2. Inv /\ [Next]_vars => Inv'
  <2> SUFFICES ASSUME Inv, [Next]_vars PROVE Inv'
    OBVIOUS
  <2>1. PodsLabelled' /\ strangers \subseteq strangers'
    BY LabelledStep
  <2>2. (TypeOK /\ UidsKnown /\ NewsKnown /\ SyncKnown /\ FirstWorker)'
    BY TypeStep, UidsKnownStep, NewsKnownStep, SyncKnownStep, FirstWorkerStep
  <2>3. ASSUME "unlabelled" \notin strangers' PROVE ProgressInv'
    BY <2>1, <2>3, ProgressStep DEF PodsLabelled, RestInv
  <2> QED
    BY <2>1, <2>2, <2>3
<1>3. Inv => NothingForgotten
  <2> SUFFICES ASSUME Inv, AtRest, "unlabelled" \notin strangers PROVE NothingForgotten
    BY DEF NothingForgotten
  <2> QED
    BY RestGives DEF NothingForgotten, RestInv
<1> QED
  <2> HIDE DEF Inv
  <2> QED
    BY <1>1, <1>2, <1>3, DependentsTypeCorrect, PTL DEF Safety
=============================================================================
