---------------------- MODULE GroupJobControllerProofs ----------------------
(***************************************************************************)
(* Theorems about GroupJobController for every number of replicas, every   *)
(* set of specs and every budget of edits and faults.                      *)
(*                                                                         *)
(* TypeInv: the variables have their types and the loops of a sync stay    *)
(* within the replicas.                                                    *)
(*                                                                         *)
(* RestInv: as long as the key is not queued and the caches are up to      *)
(* date, what a sync has passed is as the job asks.  When none is running  *)
(* and no event is left, so is everything: NothingForgotten.               *)
(***************************************************************************)
EXTENDS GroupJobController, FiniteSetTheorems, TLAPS

-----------------------------------------------------------------------------
(* Lemmas on the helpers.                                                  *)

\* filterOutCondition keeps a condition list one: it drops or lowers entries.
LEMMA FilterType ==
    ASSUME NEW conds \in Conditions, NEW type \in CondTypes
    PROVE  filterOutCondition(conds, type) \in Conditions
<1> SUFFICES ASSUME NEW t \in CondTypes
             PROVE  (IF t \in Displaced(type) THEN Unset
                     ELSE IF t \in Lowered(type) /\ isPresent(conds, t)
                          THEN [conds[t] EXCEPT !.status = "False"]
                          ELSE conds[t]) \in Condition
  BY DEF filterOutCondition, Conditions
<1>1. conds[t] \in Condition
  BY DEF Conditions
<1>2. Unset \in Condition
  BY DEF Unset, Condition
<1>3. [conds[t] EXCEPT !.status = "False"] \in Condition
  BY <1>1 DEF Condition
<1> QED
  BY <1>1, <1>2, <1>3

\* setCondition returns a condition list.
LEMMA SetType ==
    ASSUME NEW conds \in Conditions, NEW type \in CondTypes,
           NEW status \in {"True", "False"}, NEW reason \in Reasons
    PROVE  setCondition(conds, type, status, reason) \in Conditions
<1>1. newCondition(status, reason) \in Condition
  BY DEF newCondition, Condition
<1> QED
  BY <1>1, FilterType DEF setCondition, Conditions

\* Counting worker pods never exceeds the number of replicas.
LEMMA HowManyType ==
    ASSUME NEW s, NEW phases
    PROVE  HowMany(s, phases) \in 0 .. MaxReplicas
<1> DEFINE W == {i \in Index : s.workers[i] \in phases}
<1>1. /\ IsFiniteSet(Index)
      /\ Cardinality(Index) = MaxReplicas
  BY ReplicasAssumption, FS_Interval DEF Index
<1>2. W \subseteq Index
  OBVIOUS
<1>3. IsFiniteSet(W) /\ Cardinality(W) <= Cardinality(Index)
  BY <1>1, <1>2, FS_Subset
<1>4. Cardinality(W) \in Nat
  BY <1>3, FS_CardinalityType
<1> QED
  BY <1>1, <1>3, <1>4, ReplicasAssumption DEF HowMany

\* The first changes syncHandler makes to its copy of the job keep the type.
LEMMA PreparedType ==
    ASSUME NEW j \in JobType
    PROVE  Prepared(j) \in JobType
<1> DEFINE conds == IF j.status.conds = NoConditions
                      THEN setCondition(j.status.conds, "Created", "True", "GroupJobCreated")
                      ELSE j.status.conds
           copy  == [j EXCEPT !.status.conds = conds]
<1>1. conds \in Conditions
  BY SetType DEF JobType, StatusType, CondTypes, Reasons
<1>2. copy \in JobType
  BY <1>1 DEF JobType, StatusType
<1>3. [copy EXCEPT !.status.started = TRUE] \in JobType
  BY <1>2 DEF JobType, StatusType
<1> QED
  BY <1>2, <1>3 DEF Prepared

\* updateGroupJobStatus computes a status.
LEMMA StatusTypeOf ==
    ASSUME NEW s \in SyncType, NEW podRunning \in BOOLEAN
    PROVE  NewJobStatus(s, podRunning) \in StatusType
<1> DEFINE spec == s.job.spec
           old == s.job.status
           allRunning == /\ launcherPodsRun(s, podRunning)
                         /\ HowMany(s, {"Running", "Ready"}) = Cardinality(Members(s))
           suspended == SuspendedCond(old.conds, spec)
           outcome == OutcomeCond(suspended, s.launcher)
           evicted == EvictedCond(outcome, s.workers)
           resumed == ~spec.suspend /\ suspended # old.conds
<1>1. old \in StatusType /\ s.launcher \in LauncherType
  BY DEF SyncType, JobType
<1>2. suspended \in Conditions
  BY <1>1, SetType DEF SuspendedCond, StatusType, CondTypes, Reasons
<1>3. outcome \in Conditions
  BY <1>2, SetType DEF OutcomeCond, CondTypes, Reasons
<1>4. evicted \in Conditions
  BY <1>3, SetType DEF EvictedCond, CondTypes, Reasons
<1>5. RunningCond(evicted, spec, allRunning) \in Conditions
  BY <1>4, SetType DEF RunningCond, CondTypes, Reasons
<1>6. (old.started \/ resumed) \in BOOLEAN /\ (old.completed \/ s.launcher.state \in {"complete", "failed"}) \in BOOLEAN
  OBVIOUS
<1>7. NewWorkerStatus(s) \in WorkerCounts
  BY HowManyType DEF NewWorkerStatus, WorkerCounts
<1>8. NewLauncherStatus(s, podRunning) \in {"unset", "inactive", "active", "succeeded"}
  BY <1>1 DEF NewLauncherStatus, StatusType
<1> HIDE DEF suspended, outcome, evicted, allRunning, resumed
<1>9. NewJobStatus(s, podRunning) =
        [conds |-> RunningCond(evicted, spec, allRunning),
         started |-> old.started \/ resumed,
         completed |-> old.completed \/ s.launcher.state \in {"complete", "failed"},
         worker |-> NewWorkerStatus(s),
         launcher |-> NewLauncherStatus(s, podRunning)]
  BY DEF NewJobStatus, suspended, outcome, evicted, allRunning, resumed
<1> QED
  BY <1>5, <1>6, <1>7, <1>8, <1>9 DEF StatusType

\* The stages that follow one another are stages.
LEMMA StagesOrder ==
    ASSUME NEW s
    PROVE  AfterAlign(s) \in Stages /\ AfterLaunch(s) \in Stages /\ AfterWorkers(s) \in Stages
BY DEF AfterAlign, AfterLaunch, AfterWorkers, Stages

\* NoSync is a value of the local variables.
LEMMA NoSyncType == NoSync \in SyncType
<1>1. NoConditions \in Conditions
  BY DEF NoConditions, Conditions, Condition, Unset
<1>2. UnsetCounts \in WorkerCounts
  BY ReplicasAssumption DEF UnsetCounts, WorkerCounts
<1>3. NewStatus \in StatusType
  BY <1>1, <1>2 DEF NewStatus, StatusType
<1>4. NoSync.job \in JobType
  BY <1>3, ReplicasAssumption DEF NoSync, JobType, SpecType
<1>5. NoPods \in [Index -> PodPhases]
  BY DEF NoPods, PodPhases
<1>6. NoLauncher \in LauncherType
  BY DEF NoLauncher, LauncherType
<1> QED
  BY <1>3, <1>4, <1>5, <1>6, ReplicasAssumption DEF NoSync, SyncType

\* A reply leaves the fault budget in its bounds.
LEMMA FaultBudget ==
    ASSUME faults \in 0 .. MaxFaults, NEW accepted, NEW reply \in Replies(accepted)
    PROVE  (IF reply \in CallFaults THEN faults + 1 ELSE faults) \in 0 .. MaxFaults
BY BoundsAssumption DEF Replies, CallFaults

-----------------------------------------------------------------------------
(* Type correctness.                                                       *)

\* The loops of getOrCreateWorker and its callers stay within the replicas.
LoopOK ==
    /\ pc \in {"deps", "podgroup", "scaledown"} => sync.ix = 0
    /\ pc = "scaledown" => Keep(sync) > 0
    /\ pc = "workers" => sync.ix < Keep(sync)

TypeInv == TypeOK /\ LoopOK

\* A change of the server's pods keeps the types of both pod variables.
LEMMA SetPodType ==
    ASSUME pods \in [Index -> PodPhases], podsFresh \subseteq Index,
           NEW i, NEW phase \in PodPhases, SetPod(i, phase)
    PROVE  pods' \in [Index -> PodPhases] /\ podsFresh' \subseteq Index
BY DEF SetPod

\* The sync that enters getOrCreateWorker has a stage and local variables.
LEMMA EnterWorkersType ==
    ASSUME TypeOK, sync.ix = 0, EnterWorkers(sync)
    PROVE  /\ sync' \in SyncType /\ pc' \in Stages /\ dirty' \in BOOLEAN
           /\ LoopOK'
<1>1. sync \in SyncType /\ dirty \in BOOLEAN
  BY DEF TypeOK
<1>2. Keep(sync) \in 0 .. MaxReplicas
  BY <1>1 DEF Keep, SyncType, JobType, SpecType
<1>3. CASE Keep(sync) = 0
  <2>1. sync' = sync /\ pc' = AfterWorkers(sync) /\ dirty' = dirty
    BY <1>3 DEF EnterWorkers, Goto
  <2>2. pc' \notin {"deps", "podgroup", "scaledown", "workers"}
    BY <2>1 DEF AfterWorkers, AfterLaunch, AfterAlign
  <2> QED
    BY <1>1, <2>1, <2>2, StagesOrder DEF LoopOK
<1>4. CASE Keep(sync) # 0 /\ Surplus(sync) # {}
  <2>1. sync' = [sync EXCEPT !.todo = Surplus(sync)] /\ pc' = "scaledown" /\ dirty' = dirty
    BY <1>4 DEF EnterWorkers, Goto
  <2>2. Surplus(sync) \in SUBSET Index
    BY DEF Surplus
  <2>3. sync' \in SyncType
    BY <1>1, <2>1, <2>2 DEF SyncType
  <2>4. sync'.ix = sync.ix /\ sync'.job = sync.job
    BY <1>1, <2>1 DEF SyncType
  <2> QED
    BY <1>1, <1>2, <1>4, <2>1, <2>3, <2>4, ReplicasAssumption DEF LoopOK, Keep, Stages
<1>5. CASE Keep(sync) # 0 /\ Surplus(sync) = {}
  <2>1. sync' = sync /\ pc' = "workers" /\ dirty' = dirty
    BY <1>5 DEF EnterWorkers, Goto
  <2> QED
    BY <1>1, <1>2, <1>5, <2>1, ReplicasAssumption DEF LoopOK, Keep, Stages
<1> QED
  BY <1>3, <1>4, <1>5

\* The part of the invariant that is about the running sync.
SyncInv ==
    /\ dirty \in BOOLEAN /\ pc \in Stages /\ sync \in SyncType
    /\ LoopOK

\* The end of a failed sync leaves a well-typed controller.
LEMMA FailsType == ASSUME Fails PROVE SyncInv'
BY NoSyncType DEF Fails, SyncInv, LoopOK, Stages

\* Stages outside the loops.
Straight == Stages \ {"deps", "podgroup", "scaledown", "workers"}

\* So does every step to a stage outside the loops.
LEMMA GotoType ==
    ASSUME dirty \in BOOLEAN, NEW stage \in Straight, NEW s \in SyncType, Goto(stage, s)
    PROVE  SyncInv'
BY DEF Goto, SyncInv, LoopOK, Straight

\* The stages that follow the loops are outside them.
LEMMA StraightStages ==
    ASSUME NEW s
    PROVE  AfterAlign(s) \in Straight /\ AfterLaunch(s) \in Straight /\ AfterWorkers(s) \in Straight
BY DEF AfterAlign, AfterLaunch, AfterWorkers, Straight, Stages

\* Every field of a sync's local variables can be replaced by one of its type.
LEMMA SyncUpdates ==
    ASSUME NEW s \in SyncType
    PROVE  /\ \A x \in 0 .. MaxReplicas : [s EXCEPT !.ix = x] \in SyncType
           /\ \A t \in SUBSET Index : [s EXCEPT !.todo = t] \in SyncType
           /\ \A l \in LauncherType : [s EXCEPT !.launcher = l] \in SyncType
           /\ \A b \in BOOLEAN : [s EXCEPT !.cached = b] \in SyncType
           /\ \A j \in JobType : [s EXCEPT !.job = j] \in SyncType
           /\ \A w \in [Index -> PodPhases] : [s EXCEPT !.workers = w] \in SyncType
BY DEF SyncType

\* A sync starts with a copy of the job and a launcher of the right type.
LEMMA SyncStartType == ASSUME TypeInv, SyncStart PROVE TypeInv'
<1> DEFINE s == [NoSync EXCEPT !.job = Prepared(jobC), !.launcher = launcherC,
                               !.cached = launcherC.state # "absent"]
<1>1. Prepared(jobC) \in JobType /\ launcherC \in LauncherType
  BY PreparedType DEF TypeInv, TypeOK
<1>2. s \in SyncType /\ s.ix = 0
  <2> DEFINE s1 == [NoSync EXCEPT !.job = Prepared(jobC)]
             s2 == [s1 EXCEPT !.launcher = launcherC]
             s3 == [s2 EXCEPT !.cached = (launcherC.state # "absent")]
  <2>1. s1 \in SyncType
    BY <1>1, NoSyncType, SyncUpdates
  <2>2. s2 \in SyncType
    BY <1>1, <2>1, SyncUpdates
  <2>3. s3 \in SyncType
    BY <2>2, SyncUpdates
  <2>4. s = s3
    OBVIOUS
  <2> QED
    BY <2>3, <2>4 DEF NoSync
<1> HIDE DEF s
<1>3. CASE Done(jobC.status)
  <2>1. pc' = "cleanup" /\ sync' = [s EXCEPT !.launcher = NoLauncher, !.cached = FALSE]
    BY <1>3 DEF SyncStart, s
  <2>2. [s EXCEPT !.launcher = NoLauncher] \in SyncType
    BY <1>2, SyncUpdates DEF NoLauncher, LauncherType
  <2>3. sync' \in SyncType
    BY <2>1, <2>2, SyncUpdates
  <2> QED
    BY <2>1, <2>3 DEF SyncStart, TypeInv, TypeOK, LoopOK, Stages, Holders, launcherPodVars,
       podVars, podGroupVars, budgetVars
<1>4. CASE ~Done(jobC.status)
  <2>1. sync' = s /\ pc' \in Straight \cup {"deps"}
    BY <1>4, StraightStages DEF SyncStart, s
  <2> QED
    BY <1>2, <2>1 DEF SyncStart, TypeInv, TypeOK, LoopOK, Straight, Stages, Holders,
       launcherPodVars, podVars, podGroupVars, budgetVars
<1> QED
  BY <1>3, <1>4

\* EnsureDependents keeps the types, whichever stage it enters.
LEMMA EnsureDependentsType == ASSUME TypeInv, EnsureDependents PROVE TypeInv'
<1>1. PICK reply \in Replies(TRUE) :
        EndCall(reply, IF sync.job.spec.suspend THEN Goto(AfterWorkers(sync), sync)
                       ELSE IF GangScheduling THEN Goto("podgroup", sync)
                       ELSE EnterWorkers(sync))
  BY DEF EnsureDependents
<1>2. faults' \in 0 .. MaxFaults
  BY <1>1, FaultBudget DEF TypeInv, TypeOK, EndCall
<1>3. sync.ix = 0 /\ sync \in SyncType /\ dirty \in BOOLEAN
  BY DEF EnsureDependents, TypeInv, TypeOK, LoopOK
<1>4. SyncInv'
  <2>1. CASE Fails
    BY <2>1, FailsType
  <2>2. CASE Goto(AfterWorkers(sync), sync)
    BY <1>3, <2>2, GotoType, StraightStages
  <2>3. CASE Goto("podgroup", sync)
    BY <1>3, <2>3 DEF Goto, SyncInv, LoopOK, Stages
  <2>4. CASE EnterWorkers(sync)
    BY <1>3, <2>4, EnterWorkersType DEF TypeInv, SyncInv
  <2> QED
    BY <1>1, <2>1, <2>2, <2>3, <2>4 DEF EndCall
<1> QED
  BY <1>2, <1>4 DEF EnsureDependents, SyncInv, TypeInv, TypeOK, objectVars, jobVars,
     launcherVars, launcherPodVars, podVars, podGroupVars

\* GetOrCreatePodGroup keeps the types: minMember is at most MaxReplicas + 1.
LEMMA GetOrCreatePodGroupType == ASSUME TypeInv, GetOrCreatePodGroup PROVE TypeInv'
<1> DEFINE minMember == calculateMinAvailable(sync)
<1>1. sync.ix = 0 /\ sync \in SyncType /\ minMember \in 0 .. MaxReplicas + 1
  BY ReplicasAssumption
     DEF GetOrCreatePodGroup, updatePodGroup, calculateMinAvailable, TypeInv, TypeOK, LoopOK, Keep, SyncType,
         JobType, SpecType
<1>2. EnterWorkers(sync) => SyncInv'
  BY <1>1, EnterWorkersType DEF TypeInv, SyncInv
<1>3. CASE pgSpecsAreEqual(minMember) /\ EnterWorkers(sync) /\ UNCHANGED <<podGroup, podGroupC, podGroupFresh, faults>>
  BY <1>2, <1>3 DEF GetOrCreatePodGroup, updatePodGroup, SyncInv, TypeInv, TypeOK, jobVars, launcherVars,
     launcherPodVars, podVars
<1>4. ASSUME NEW accepted, NEW reply \in Replies(accepted),
             podGroupC' = IF podGroupC = 0 THEN 0 ELSE minMember,
             IF Applied(reply)
               THEN podGroup' = minMember /\ podGroupFresh' = FALSE
               ELSE UNCHANGED <<podGroup, podGroupFresh>>,
             EndCall(reply, EnterWorkers(sync))
      PROVE  TypeInv'
  <2>1. faults' \in 0 .. MaxFaults
    BY <1>4, FaultBudget DEF TypeInv, TypeOK, EndCall
  <2>2. SyncInv'
    BY <1>2, <1>4, FailsType DEF EndCall
  <2>3. /\ podGroup' \in 0 .. MaxReplicas + 1 /\ podGroupC' \in 0 .. MaxReplicas + 1
        /\ podGroupFresh' \in BOOLEAN
    BY <1>1, <1>4 DEF TypeInv, TypeOK
  <2> QED
    BY <2>1, <2>2, <2>3 DEF GetOrCreatePodGroup, updatePodGroup, SyncInv, TypeInv, TypeOK, jobVars, launcherVars,
       launcherPodVars, podVars
<1> QED
  BY <1>3, <1>4 DEF GetOrCreatePodGroup, updatePodGroup

\* ScaleDown keeps the types and enters the loop over the replicas at its start.
LEMMA ScaleDownType == ASSUME TypeInv, ScaleDown PROVE TypeInv'
<1>1. PICK i \in sync.todo :
        LET rest == [sync EXCEPT !.todo = @ \ {i}] IN
        \E reply \in Replies(pods[i] # "absent") :
            /\ IF Applied(reply) THEN SetPod(i, "absent") ELSE UNCHANGED <<pods, podsFresh>>
            /\ EndCall(reply, Goto(IF rest.todo = {} THEN "workers" ELSE "scaledown", rest))
  BY DEF ScaleDown
<1> DEFINE rest == [sync EXCEPT !.todo = @ \ {i}]
<1>2. PICK reply \in Replies(pods[i] # "absent") :
            /\ IF Applied(reply) THEN SetPod(i, "absent") ELSE UNCHANGED <<pods, podsFresh>>
            /\ EndCall(reply, Goto(IF rest.todo = {} THEN "workers" ELSE "scaledown", rest))
  BY <1>1
<1>3. faults' \in 0 .. MaxFaults
  BY <1>2, FaultBudget DEF TypeInv, TypeOK, EndCall
<1>4. /\ pc = "scaledown" /\ sync \in SyncType /\ sync.ix = 0 /\ dirty \in BOOLEAN
      /\ Keep(sync) > 0 /\ Keep(sync) \in Nat
  BY DEF ScaleDown, TypeInv, TypeOK, LoopOK, Keep, SyncType, JobType, SpecType
<1>5. rest \in SyncType /\ rest.ix = 0 /\ rest.job = sync.job
  <2>1. sync.todo \ {i} \in SUBSET Index
    BY <1>4 DEF SyncType
  <2> QED
    BY <1>4, <2>1 DEF SyncType
<1>6. SyncInv'
  <2>1. CASE Fails
    BY <2>1, FailsType
  <2>2. CASE Goto(IF rest.todo = {} THEN "workers" ELSE "scaledown", rest)
    <3> HIDE DEF rest
    <3> QED
      BY <1>4, <1>5, <2>2 DEF Goto, SyncInv, LoopOK, Stages, Keep
  <2> QED
    BY <1>2, <2>1, <2>2 DEF EndCall
<1>7. pods' \in [Index -> PodPhases] /\ podsFresh' \subseteq Index
  BY <1>2, SetPodType DEF TypeInv, TypeOK, PodPhases
<1> QED
  BY <1>3, <1>6, <1>7 DEF ScaleDown, SyncInv, TypeInv, TypeOK, jobVars, launcherVars,
     launcherPodVars, podGroupVars

\* GetOrCreateWorker keeps the loop index within the replicas.
LEMMA GetOrCreateWorkerType == ASSUME TypeInv, GetOrCreateWorker PROVE TypeInv'
<1> DEFINE i == sync.ix
           With(phase) == [sync EXCEPT !.workers[i] = phase, !.ix = i + 1]
           Step(phase) == IF i + 1 < Keep(sync)
                            THEN Goto("workers", With(phase))
                            ELSE Goto(AfterWorkers(With(phase)), [With(phase) EXCEPT !.ix = 0])
<1>1. /\ sync \in SyncType /\ dirty \in BOOLEAN
      /\ i \in Index /\ i + 1 \in 0 .. MaxReplicas /\ podsC[i] \in PodPhases
  BY ReplicasAssumption DEF GetOrCreateWorker, TypeInv, TypeOK, LoopOK, Keep, SyncType, JobType,
     SpecType, Index
<1>2. ASSUME NEW phase \in PodPhases, Step(phase)
      PROVE  SyncInv'
  <2>1. With(phase) \in SyncType /\ With(phase).ix = i + 1 /\ With(phase).job = sync.job
    <3>1. [sync.workers EXCEPT ![i] = phase] \in [Index -> PodPhases]
      BY <1>1 DEF SyncType
    <3> QED
      BY <1>1, <3>1 DEF SyncType
  <2> HIDE DEF With
  <2>2. [With(phase) EXCEPT !.ix = 0] \in SyncType
    BY <2>1, SyncUpdates, ReplicasAssumption
  <2>3. CASE i + 1 < Keep(sync) /\ Goto("workers", With(phase))
    BY <1>1, <2>1, <2>3 DEF Goto, SyncInv, LoopOK, Stages, Keep
  <2>4. CASE Goto(AfterWorkers(With(phase)), [With(phase) EXCEPT !.ix = 0])
    BY <1>1, <2>2, <2>4, GotoType, StraightStages
  <2> QED
    BY <1>2, <2>3, <2>4
<1>3. CASE podsC[i] # "absent" /\ Step(podsC[i]) /\ UNCHANGED <<pods, podsFresh, faults>>
  BY <1>1, <1>2, <1>3 DEF GetOrCreateWorker, SyncInv, TypeInv, TypeOK, jobVars, launcherVars,
     launcherPodVars, podGroupVars
<1>4. ASSUME NEW reply \in Replies(pods[i] = "absent"),
             IF Applied(reply) THEN SetPod(i, "Pending") ELSE UNCHANGED <<pods, podsFresh>>,
             EndCall(reply, Step("Pending"))
      PROVE  TypeInv'
  <2>1. faults' \in 0 .. MaxFaults
    BY <1>4, FaultBudget DEF TypeInv, TypeOK, EndCall
  <2>2. "Pending" \in PodPhases
    BY DEF PodPhases
  <2>3. pods' \in [Index -> PodPhases] /\ podsFresh' \subseteq Index
    BY <1>4, <2>2, SetPodType DEF TypeInv, TypeOK
  <2>4. Step("Pending") \/ Fails
    BY <1>4 DEF EndCall
  <2>5. SyncInv'
    BY <1>2, <2>2, <2>4, FailsType
  <2> QED
    BY <2>1, <2>3, <2>5 DEF GetOrCreateWorker, SyncInv, TypeInv, TypeOK, jobVars, launcherVars,
       launcherPodVars, podGroupVars
<1> QED
  BY <1>3, <1>4 DEF GetOrCreateWorker

\* CreateLauncher keeps the types of the launcher and of the sync's pointer to it.
LEMMA CreateLauncherType == ASSUME TypeInv, CreateLauncher PROVE TypeInv'
<1> DEFINE new == [state |-> "active", suspend |-> sync.job.spec.suspend]
           s   == [sync EXCEPT !.launcher = new]
<1>1. sync \in SyncType /\ dirty \in BOOLEAN /\ new \in LauncherType
  BY DEF TypeInv, TypeOK, LauncherType, SyncType, JobType, SpecType
<1>2. s \in SyncType
  BY <1>1, SyncUpdates
<1>3. PICK reply \in Replies(launcher.state = "absent") :
        /\ IF Applied(reply)
             THEN /\ launcher' = new
                  /\ launcherFresh' = {"sync"}
                  /\ launcherRunningC' = FALSE
             ELSE UNCHANGED <<launcher, launcherFresh, launcherRunningC>>
        /\ EndCall(reply, Goto(AfterLaunch(s), s))
  BY DEF CreateLauncher
<1>4. faults' \in 0 .. MaxFaults
  BY <1>3, FaultBudget DEF TypeInv, TypeOK, EndCall
<1>5. Goto(AfterLaunch(s), s) \/ Fails
  BY <1>3 DEF EndCall
<1>6. SyncInv'
  BY <1>1, <1>2, <1>5, FailsType, GotoType, StraightStages
<1>7. launcher' \in LauncherType /\ launcherFresh' \subseteq Holders /\ launcherRunningC' \in BOOLEAN
  BY <1>1, <1>3 DEF TypeInv, TypeOK, Holders
<1> QED
  BY <1>4, <1>6, <1>7 DEF CreateLauncher, SyncInv, TypeInv, TypeOK, jobVars, podVars, podGroupVars

\* AlignLauncher keeps the types, that of the cached launcher it writes into too.
LEMMA AlignLauncherType == ASSUME TypeInv, AlignLauncher PROVE TypeInv'
<1> DEFINE suspend == sync.job.spec.suspend
           s       == [sync EXCEPT !.launcher.suspend = suspend]
<1>1. /\ sync \in SyncType /\ dirty \in BOOLEAN
      /\ [launcher EXCEPT !.suspend = suspend] \in LauncherType
      /\ [launcherC EXCEPT !.suspend = suspend] \in LauncherType
      /\ [sync.launcher EXCEPT !.suspend = suspend] \in LauncherType
  BY DEF TypeInv, TypeOK, LauncherType, SyncType, JobType, SpecType
<1>2. s \in SyncType
  BY <1>1, SyncUpdates
<1>3. PICK reply \in Replies("sync" \in launcherFresh) :
        /\ IF Applied(reply)
             THEN launcher' = [launcher EXCEPT !.suspend = suspend] /\ launcherFresh' = {}
             ELSE UNCHANGED <<launcher, launcherFresh>>
        /\ EndCall(reply, Goto(AfterAlign(s), s))
  BY DEF AlignLauncher
<1>4. faults' \in 0 .. MaxFaults
  BY <1>3, FaultBudget DEF TypeInv, TypeOK, EndCall
<1>5. Goto(AfterAlign(s), s) \/ Fails
  BY <1>3 DEF EndCall
<1>6. SyncInv'
  BY <1>1, <1>2, <1>5, FailsType, GotoType, StraightStages
<1>7. /\ launcher' \in LauncherType /\ launcherC' \in LauncherType
      /\ launcherFresh' \subseteq Holders
  BY <1>1, <1>3 DEF AlignLauncher, TypeInv, TypeOK
<1> QED
  BY <1>4, <1>6, <1>7 DEF AlignLauncher, SyncInv, TypeInv, TypeOK, jobVars, launcherPodVars,
     podVars, podGroupVars

\* DeleteWorkerPod keeps the loop index within the replicas.
LEMMA DeleteWorkerPodType == ASSUME TypeInv, DeleteWorkerPod PROVE TypeInv'
<1> DEFINE i    == sync.ix
           Step == Goto("cleanup", [sync EXCEPT !.ix = i + 1])
<1>1. sync \in SyncType /\ dirty \in BOOLEAN /\ i + 1 \in 0 .. MaxReplicas
  BY ReplicasAssumption
     DEF DeleteWorkerPod, TypeInv, TypeOK, Keep, SyncType, JobType, SpecType
<1>2. [sync EXCEPT !.ix = i + 1] \in SyncType /\ "cleanup" \in Straight
  BY <1>1, SyncUpdates DEF Straight, Stages
<1>3. Step => SyncInv'
  BY <1>1, <1>2, GotoType
<1>4. CASE Step /\ UNCHANGED <<pods, podsFresh, faults>>
  BY <1>3, <1>4 DEF DeleteWorkerPod, SyncInv, TypeInv, TypeOK, jobVars, launcherVars,
     launcherPodVars, podGroupVars
<1>5. ASSUME NEW reply \in Replies(TRUE),
             IF Applied(reply) THEN SetPod(i, "absent") ELSE UNCHANGED <<pods, podsFresh>>,
             EndCall(reply, Step)
      PROVE  TypeInv'
  <2>1. faults' \in 0 .. MaxFaults
    BY <1>5, FaultBudget DEF TypeInv, TypeOK, EndCall
  <2>2. pods' \in [Index -> PodPhases] /\ podsFresh' \subseteq Index
    BY <1>5, SetPodType DEF TypeInv, TypeOK, PodPhases
  <2>3. SyncInv'
    BY <1>3, <1>5, FailsType DEF EndCall
  <2> QED
    BY <2>1, <2>2, <2>3 DEF DeleteWorkerPod, SyncInv, TypeInv, TypeOK, jobVars, launcherVars,
       launcherPodVars, podGroupVars
<1> QED
  BY <1>4, <1>5 DEF DeleteWorkerPod

\* DeletePodGroup keeps the types; it leaves the loop of deleteWorkerPods.
LEMMA DeletePodGroupType == ASSUME TypeInv, DeletePodGroup PROVE TypeInv'
<1> DEFINE s    == [sync EXCEPT !.job.status.worker = ZeroCounts, !.ix = 0]
           Step == Goto(IF Done(s.job.status) THEN "finish" ELSE "status", s)
<1>1. /\ sync \in SyncType /\ dirty \in BOOLEAN
      /\ ZeroCounts \in WorkerCounts /\ 0 \in 0 .. MaxReplicas
  BY ReplicasAssumption DEF TypeInv, TypeOK, ZeroCounts, WorkerCounts
<1>2. s \in SyncType
  <2>1. [sync.job EXCEPT !.status.worker = ZeroCounts] \in JobType
    BY <1>1 DEF SyncType, JobType, StatusType
  <2>2. [sync EXCEPT !.job = [sync.job EXCEPT !.status.worker = ZeroCounts]] \in SyncType
    BY <1>1, <2>1, SyncUpdates
  <2> QED
    BY <1>1, <2>2, SyncUpdates
<1> HIDE DEF s
<1>3. (IF Done(s.job.status) THEN "finish" ELSE "status") \in Straight
  BY DEF Straight, Stages
<1>4. Step => SyncInv'
  BY <1>1, <1>2, <1>3, GotoType
<1>5. CASE Step /\ UNCHANGED <<podGroup, podGroupFresh, faults>>
  BY <1>4, <1>5 DEF DeletePodGroup, SyncInv, TypeInv, TypeOK, jobVars, launcherVars,
     launcherPodVars, podVars
<1>6. ASSUME NEW reply \in Replies(podGroup # 0),
             IF Applied(reply)
               THEN podGroup' = 0 /\ podGroupFresh' = FALSE
               ELSE UNCHANGED <<podGroup, podGroupFresh>>,
             EndCall(reply, Step)
      PROVE  TypeInv'
  <2>1. faults' \in 0 .. MaxFaults
    BY <1>6, FaultBudget DEF TypeInv, TypeOK, EndCall
  <2>2. podGroup' \in 0 .. MaxReplicas + 1 /\ podGroupFresh' \in BOOLEAN
    <3>1. CASE Applied(reply)
      <4>1. podGroup' = 0 /\ podGroupFresh' = FALSE
        BY <1>6, <3>1
      <4>2. 0 \in 0 .. MaxReplicas + 1
        BY ReplicasAssumption
      <4> QED
        BY <4>1, <4>2
    <3>2. CASE ~Applied(reply)
      BY <1>6, <3>2 DEF TypeInv, TypeOK
    <3> QED
      BY <3>1, <3>2
  <2>3. SyncInv'
    BY <1>4, <1>6, FailsType DEF EndCall
  <2> QED
    BY <2>1, <2>2, <2>3 DEF DeletePodGroup, SyncInv, TypeInv, TypeOK, jobVars, launcherVars,
       launcherPodVars, podVars
<1> QED
  BY <1>5, <1>6 DEF DeletePodGroup, CleanedUp, s

\* The end of a sync leaves a well-typed controller.
LEMMA ReturnType == ASSUME dirty \in BOOLEAN, Return PROVE SyncInv'
<1>1. "idle" \in Straight
  BY DEF Straight, Stages
<1> QED
  BY <1>1, NoSyncType, GotoType DEF Return

\* doUpdateJobStatus writes a status into the job and ends the sync.
LEMMA WriteStatusType ==
    ASSUME TypeOK, NEW status \in StatusType, WriteStatus(status)
    PROVE  /\ job' \in JobType /\ jobFresh' \subseteq Holders
           /\ faults' \in 0 .. MaxFaults /\ SyncInv'
<1>1. PICK reply \in Replies(versionCurrent) :
        /\ IF Applied(reply) /\ job.status # status
             THEN job' = [job EXCEPT !.status = status] /\ jobFresh' = {}
             ELSE UNCHANGED <<job, jobFresh>>
        /\ EndCall(reply, Return)
  BY DEF WriteStatus
<1>2. faults' \in 0 .. MaxFaults
  BY <1>1, FaultBudget DEF TypeOK, EndCall
<1>3. SyncInv'
  BY <1>1, ReturnType, FailsType DEF EndCall, TypeOK
<1>4. [job EXCEPT !.status = status] \in JobType
  BY DEF TypeOK, JobType
<1> QED
  BY <1>1, <1>2, <1>3, <1>4 DEF TypeOK

\* updateGroupJobStatus keeps the types.
LEMMA UpdateStatusType == ASSUME TypeInv, UpdateStatus PROVE TypeInv'
<1> DEFINE status == NewJobStatus(sync, launcherRunningC)
<1>1. status \in StatusType
  BY StatusTypeOf DEF TypeInv, TypeOK
<1>2. CASE Return /\ UNCHANGED <<job, jobFresh, faults>>
  BY <1>2, ReturnType DEF UpdateStatus, SyncInv, TypeInv, TypeOK, launcherVars, launcherPodVars,
     podVars, podGroupVars
<1>3. CASE WriteStatus(status)
  BY <1>1, <1>3, WriteStatusType DEF UpdateStatus, SyncInv, TypeInv, TypeOK, launcherVars,
     launcherPodVars, podVars, podGroupVars
<1> QED
  BY <1>2, <1>3 DEF UpdateStatus

\* So does the status update of a finished job.
LEMMA UpdateFinishedStatusType == ASSUME TypeInv, UpdateFinishedStatus PROVE TypeInv'
<1>1. sync.job.status \in StatusType
  BY DEF TypeInv, TypeOK, SyncType, JobType
<1> QED
  BY <1>1, WriteStatusType DEF UpdateFinishedStatus, SyncInv, TypeInv, TypeOK, launcherVars,
     launcherPodVars, podVars, podGroupVars

\* The informers keep the types: a cache takes over an object of the server.
LEMMA DeliverType == ASSUME TypeInv, Deliver PROVE TypeInv'
<1> USE DEF TypeInv, TypeOK, jobVars, launcherVars, launcherPodVars, podVars, podGroupVars,
        budgetVars
<1>1. CASE DeliverJob
  BY <1>1 DEF DeliverJob, LoopOK, Holders, Keep
<1>2. CASE DeliverLauncher
  <2>1. sync' = [sync EXCEPT !.cached = FALSE] /\ sync \in SyncType
    BY <1>2 DEF DeliverLauncher
  <2>2. sync' \in SyncType /\ sync'.ix = sync.ix /\ sync'.job = sync.job
    BY <2>1 DEF SyncType
  <2>3. LoopOK'
    BY <1>2, <2>2 DEF DeliverLauncher, LoopOK, Keep
  <2> QED
    BY <1>2, <2>2, <2>3 DEF DeliverLauncher, Holders
<1>3. CASE DeliverLauncherPod
  BY <1>3 DEF DeliverLauncherPod, LoopOK, Keep
<1>4. CASE DeliverPod
  BY <1>4 DEF DeliverPod, LoopOK, Keep
<1>5. CASE DeliverPodGroup
  BY <1>5 DEF DeliverPodGroup, LoopOK, Keep
<1> QED
  BY <1>1, <1>2, <1>3, <1>4, <1>5 DEF Deliver

\* Users, the Job controller, the kubelet and a crash keep the types.
LEMMA ClusterType == ASSUME TypeInv, Cluster PROVE TypeInv'
<1> USE DEF TypeInv, TypeOK, jobVars, launcherVars, launcherPodVars, podVars, podGroupVars,
        controllerVars, budgetVars
<1>1. CASE UserEdit
  <2>1. PICK spec \in Specs : job' = [job EXCEPT !.spec = spec]
    BY <1>1 DEF UserEdit
  <2>2. job' \in JobType
    BY <2>1, SpecsAssumption DEF JobType
  <2>3. edits' \in 0 .. MaxEdits
    BY <1>1, BoundsAssumption DEF UserEdit
  <2> QED
    BY <1>1, <2>2, <2>3 DEF UserEdit, LoopOK, Keep
<1>2. CASE LauncherPodStart
  BY <1>2 DEF LauncherPodStart, LoopOK, Keep
<1>3. CASE LauncherPodStop
  BY <1>3 DEF LauncherPodStop, LoopOK, Keep
<1>4. CASE LauncherFinish
  <2>1. launcher' \in LauncherType
    BY <1>4 DEF LauncherFinish, LauncherType
  <2> QED
    BY <1>4, <2>1 DEF LauncherFinish, LoopOK, Keep
<1>5. CASE LauncherExpire
  BY <1>5 DEF LauncherExpire, LoopOK, Keep, NoLauncher, LauncherType
<1>6. CASE PodProgress
  <2>1. "Running" \in PodPhases /\ "Ready" \in PodPhases
    BY DEF PodPhases
  <2>2. pods' \in [Index -> PodPhases] /\ podsFresh' \subseteq Index
    BY <1>6, <2>1, SetPodType DEF PodProgress
  <2> QED
    BY <1>6, <2>2 DEF PodProgress, LoopOK, Keep
<1>7. CASE PodFault
  <2>1. \A kind \in FaultKinds \cap PodFaults : PodEnd[kind] \in PodPhases
    BY DEF PodFaults, PodEnd, PodPhases
  <2>2. pods' \in [Index -> PodPhases] /\ podsFresh' \subseteq Index
    BY <1>7, <2>1, SetPodType DEF PodFault
  <2>3. faults' \in 0 .. MaxFaults
    BY <1>7, BoundsAssumption DEF PodFault
  <2> QED
    BY <1>7, <2>2, <2>3 DEF PodFault, LoopOK, Keep
<1>8. CASE Crash
  <2>1. faults' \in 0 .. MaxFaults
    BY <1>8, BoundsAssumption DEF Crash
  <2> QED
    BY <1>8, <2>1, NoSyncType DEF Crash, LoopOK, Holders, Stages
<1> QED
  BY <1>1, <1>2, <1>3, <1>4, <1>5, <1>6, <1>7, <1>8 DEF Cluster

\* The initial states are well typed.
LEMMA InitType == ASSUME Init PROVE TypeInv
<1>1. /\ NewStatus \in StatusType /\ NoPods \in [Index -> PodPhases]
      /\ NoLauncher \in LauncherType
  BY NoSyncType DEF NoSync, SyncType, JobType
<1>2. job \in JobType
  BY <1>1, SpecsAssumption DEF Init, JobType
<1>3. TypeOK
  <2>1. /\ podGroup \in 0 .. MaxReplicas + 1 /\ podGroupC \in 0 .. MaxReplicas + 1
        /\ edits \in 0 .. MaxEdits /\ faults \in 0 .. MaxFaults
    BY ReplicasAssumption, BoundsAssumption DEF Init
  <2>2. /\ jobFresh \subseteq Holders /\ launcherFresh \subseteq Holders
        /\ pc \in Stages /\ sync \in SyncType
    BY NoSyncType DEF Init, Holders, Stages
  <2> QED
    BY <1>1, <1>2, <2>1, <2>2 DEF Init, TypeOK
<1>4. LoopOK
  BY DEF Init, LoopOK
<1> QED
  BY <1>3, <1>4 DEF TypeInv

\* Every step keeps the types and the bounds of the loops.
LEMMA NextType == ASSUME TypeInv, [Next]_vars PROVE TypeInv'
<1>1. CASE SyncSkip
  BY <1>1 DEF SyncSkip, TypeInv, TypeOK, LoopOK, Keep, objectVars, jobVars, launcherVars,
     launcherPodVars, podVars, podGroupVars, budgetVars
<1>2. CASE UNCHANGED vars
  BY <1>2 DEF TypeInv, TypeOK, LoopOK, Keep, vars, objectVars, jobVars, launcherVars,
     launcherPodVars, podVars, podGroupVars, controllerVars, budgetVars
<1>3. CASE Controller /\ ~SyncSkip
  BY <1>3, SyncStartType, EnsureDependentsType, GetOrCreatePodGroupType, ScaleDownType,
     GetOrCreateWorkerType, CreateLauncherType, AlignLauncherType, DeleteWorkerPodType,
     DeletePodGroupType, UpdateStatusType, UpdateFinishedStatusType DEF Controller
<1> QED
  BY <1>1, <1>2, <1>3, DeliverType, ClusterType DEF Next

\* Every variable always has its type, and the loops over the replicas never
\* leave their range: for any number of replicas, specs, edits and faults.
THEOREM TypeCorrect == Safety => []TypeOK
<1>1. TypeInv => TypeOK
  BY DEF TypeInv
<1> QED
  BY <1>1, InitType, NextType, PTL DEF Safety

-----------------------------------------------------------------------------
(* What the controller leaves when nothing is left to do.                  *)
(*                                                                         *)
(* Every write of a sync makes the object's cache stale, and what brings   *)
(* the cache up to date puts the key back into the queue.  So if the key   *)
(* is not queued and the caches hold what the server has (Quiet), the sync *)
(* that runs, or the last one that ran, has found nothing to write so far: *)
(* what it passed is as the cached job asks (Progress).                    *)

Fresh ==
    /\ "cache" \in jobFresh /\ "cache" \in launcherFresh
    /\ podsFresh = Index /\ podGroupFresh

Quiet == Fresh /\ ~dirty

\* What is in the caches when no event is on its way.  updatePodGroup and
\* AlignLauncher write into cached objects: of the PodGroup and of the
\* launcher's suspension nothing can be said here.
CachesKnow ==
    /\ "cache" \in jobFresh => jobC = job
    /\ "cache" \in launcherFresh => launcherC.state = launcher.state
    /\ \A i \in podsFresh : podsC[i] = pods[i]
    /\ launcherPodFresh => launcherRunningC = launcherRunning
    /\ launcherRunning => launcher.state = "active"

Unread(s) == \A i \in Index : s.workers[i] = "absent"

\* A status that says Suspended counts no workers.
CountsNone(status) ==
    hasCondition(status.conds, "Suspended") => status.worker = ZeroCounts

SuspendedCounts ==
    /\ CountsNone(job.status) /\ CountsNone(jobC.status) /\ CountsNone(sync.job.status)
    /\ sync.job.spec.suspend =>
            Unread(sync) /\ pc \notin {"podgroup", "scaledown", "workers"}

\* The pods of the cache that deleteWorkerPods leaves alone.
KeptPod(i) ==
    \/ podsC[i] = "absent"
    \/ /\ jobC.spec.cleanPodPolicy = "Running"
       /\ ~isPodRunning(podsC[i]) /\ podsC[i] # "Pending"

Cleaned ==
    /\ \A i \in Index : i < jobC.spec.replicas => KeptPod(i)
    /\ GangScheduling => podGroupC = 0

Grouped == GangScheduling => podGroupC = jobC.spec.replicas + 1

\* The first n worker pods are in the cache and have been taken from there.
Taken(s, n) ==
    \A i \in Index : IF i < n THEN podsC[i] # "absent" /\ s.workers[i] = podsC[i]
                              ELSE s.workers[i] = "absent"

Staffed(s) ==
    IF jobC.spec.replicas = 0 THEN Unread(s)
    ELSE Surplus(s) = {} /\ Taken(s, jobC.spec.replicas)

Launched(s) ==
    \/ launcherC.state # "absent"
    \/ /\ jobC.spec.launcherCreationPolicy # "AtStartup"
       /\ countReadyWorkerPods(s) # Cardinality(Members(s))

Aligned == launcherC.state # "absent" => launcherC.suspend = jobC.spec.suspend

WithoutCounts(j) == [j EXCEPT !.status.worker = ZeroCounts]

\* A sync whose local variables are s has only the status left to report.
StatusDue(s) ==
    /\ s.launcher = launcherC /\ Aligned
    /\ jobC.spec.suspend =>
            /\ s.job = WithoutCounts(Prepared(jobC)) /\ Unread(s)
            /\ Cleaned /\ launcherC.state # "absent"
    /\ ~jobC.spec.suspend =>
            /\ s.job = Prepared(jobC)
            /\ ~isJobFinished(launcherC) => Grouped /\ Staffed(s) /\ Launched(s)

\* It found that the status it would report has been reported.
Told(s) == NewJobStatus(s, launcherRunningC) \in {s.job.status, jobC.status}

Rested ==
    jobC.spec.reconciled =>
        IF Done(jobC.status)
          THEN isCleanUpPods(jobC.spec) => Cleaned /\ jobC.status.worker = ZeroCounts
          ELSE \E s \in SyncType : StatusDue(s) /\ Told(s)

\* A sync that has the job and the launcher of the caches.
Reads(s) == s.job = Prepared(jobC) /\ s.launcher = launcherC /\ ~isJobFinished(launcherC)

\* What a sync at a stage, with local variables s, has found.
ProgressAt(stage, s) ==
    /\ stage = "idle" => Rested
    /\ stage # "idle" => jobC.spec.reconciled
    /\ stage \in {"deps", "podgroup", "workers", "status"} => ~Done(jobC.status)
    /\ stage \in {"deps", "podgroup"} => Reads(s) /\ Unread(s)
    /\ stage \in {"podgroup", "workers"} => ~jobC.spec.suspend
    /\ stage = "workers" =>
            Reads(s) /\ Grouped /\ Surplus(s) = {} /\ Taken(s, s.ix)
    /\ stage = "cleanup" =>
            /\ s.job = Prepared(jobC) /\ Unread(s)
            /\ \A i \in Index : i < s.ix => KeptPod(i)
            /\ IF Done(jobC.status) THEN isCleanUpPods(jobC.spec)
               ELSE /\ jobC.spec.suspend /\ s.launcher = launcherC
                    /\ Aligned /\ launcherC.state # "absent"
    /\ stage = "finish" =>
            /\ Done(jobC.status) /\ isCleanUpPods(jobC.spec)
            /\ s.job = WithoutCounts(Prepared(jobC)) /\ Cleaned
    /\ stage = "status" => StatusDue(s)

Progress == ProgressAt(pc, sync)

RestInv == TypeInv /\ CachesKnow /\ SuspendedCounts /\ (Quiet => Progress)

\* setCondition sets its type, and leaves alone the types it neither drops nor
\* lowers.
LEMMA SetKeeps ==
    ASSUME NEW conds \in Conditions, NEW type \in CondTypes, NEW status, NEW reason
    PROVE  LET new == setCondition(conds, type, status, reason)
           IN /\ new[type].status = status
              /\ \A t \in CondTypes : t \notin Displaced(type) \cup Lowered(type) =>
                    new[t] = conds[t]
BY DEF setCondition, newCondition, filterOutCondition, Displaced, Lowered, Conditions, CondTypes

\* The conditions of the status that updateGroupJobStatus computes.
LEMMA NewConditions ==
    ASSUME NEW s \in SyncType, NEW podRunning
    PROVE  LET new == NewJobStatus(s, podRunning).conds
           IN /\ s.job.spec.suspend =>
                    hasCondition(new, "Suspended") /\ ~hasCondition(new, "Running")
              /\ ~s.job.spec.suspend => ~hasCondition(new, "Suspended")
              /\ /\ ~s.job.spec.suspend
                 /\ launcherPodsRun(s, podRunning)
                 /\ HowMany(s, {"Running", "Ready"}) = Cardinality(Members(s))
                 => hasCondition(new, "Running")
              /\ (\E i \in Index : s.workers[i] = "Evicted") => isFailed(new)
              /\ isJobFinished(s.launcher) => isFinished(new)
<1> DEFINE spec == s.job.spec
           old == s.job.status
           allRunning == /\ launcherPodsRun(s, podRunning)
                         /\ HowMany(s, {"Running", "Ready"}) = Cardinality(Members(s))
           suspended == SuspendedCond(old.conds, spec)
           outcome == OutcomeCond(suspended, s.launcher)
           evicted == EvictedCond(outcome, s.workers)
           running == RunningCond(evicted, spec, allRunning)
<1>1. old.conds \in Conditions
  BY DEF SyncType, JobType, StatusType
<1>2. suspended \in Conditions
  BY <1>1, SetType DEF SuspendedCond, CondTypes, Reasons
<1>3. outcome \in Conditions
  BY <1>2, SetType DEF OutcomeCond, CondTypes, Reasons
<1>4. evicted \in Conditions
  BY <1>3, SetType DEF EvictedCond, CondTypes, Reasons
<1>5. NewJobStatus(s, podRunning).conds = running
  BY DEF NewJobStatus
<1>6. /\ spec.suspend => hasCondition(suspended, "Suspended")
      /\ ~spec.suspend => ~hasCondition(suspended, "Suspended")
  BY <1>1, SetKeeps DEF SuspendedCond, CondTypes, hasCondition, isPresent
<1> HIDE DEF suspended
<1>7. /\ outcome["Suspended"] = suspended["Suspended"]
      /\ isJobFinished(s.launcher) => isFinished(outcome)
  BY <1>2, SetKeeps DEF OutcomeCond, CondTypes, Displaced, Lowered, isJobFinished, isFinished,
     isSucceeded, isFailed, hasCondition
<1> HIDE DEF outcome
<1>8. /\ evicted["Suspended"] = outcome["Suspended"]
      /\ isFinished(outcome) => isFinished(evicted)
      /\ (\E i \in Index : s.workers[i] = "Evicted") => isFailed(evicted)
  BY <1>3, SetKeeps DEF EvictedCond, CondTypes, Displaced, Lowered, isFinished, isSucceeded,
     isFailed, hasCondition
<1> HIDE DEF evicted, allRunning
<1>9. /\ running["Suspended"] = evicted["Suspended"]
      /\ running["Succeeded"] = evicted["Succeeded"]
      /\ running["Failed"] = evicted["Failed"]
      /\ spec.suspend => ~hasCondition(running, "Running")
      /\ ~spec.suspend /\ allRunning => hasCondition(running, "Running")
  BY <1>4, SetKeeps DEF RunningCond, CondTypes, Displaced, Lowered, hasCondition
<1> HIDE DEF running
<1> QED
  BY <1>5, <1>6, <1>7, <1>8, <1>9
     DEF allRunning, isFinished, isSucceeded, isFailed, hasCondition

\* What else updateGroupJobStatus computes.
LEMMA NewFields ==
    ASSUME NEW s, NEW podRunning
    PROVE  LET new == NewJobStatus(s, podRunning)
           IN /\ new.worker = NewWorkerStatus(s)
              /\ new.launcher = NewLauncherStatus(s, podRunning)
              /\ isJobFinished(s.launcher) => new.completed
BY DEF NewJobStatus, isJobFinished

\* syncHandler's first changes to its copy of the job: only the Created
\* condition and the start time.
LEMMA PreparedFields ==
    ASSUME NEW j \in JobType
    PROVE  /\ Prepared(j).spec = j.spec
           /\ Prepared(j).status.completed = j.status.completed
           /\ Prepared(j).status.worker = j.status.worker
           /\ Prepared(j).status.launcher = j.status.launcher
           /\ \A t \in CondTypes \ {"Created"} :
                Prepared(j).status.conds[t] = j.status.conds[t]
           /\ Done(Prepared(j).status) <=> Done(j.status)
<1> DEFINE conds == IF j.status.conds = NoConditions
                      THEN setCondition(j.status.conds, "Created", "True", "GroupJobCreated")
                      ELSE j.status.conds
           copy  == [j EXCEPT !.status.conds = conds]
<1>1. j.status.conds \in Conditions
  BY DEF JobType, StatusType
<1>2. \A t \in CondTypes \ {"Created"} : conds[t] = j.status.conds[t]
  BY <1>1, SetKeeps DEF CondTypes, Displaced, Lowered
<1> HIDE DEF conds
<1>3. \/ Prepared(j) = copy
      \/ Prepared(j) = [copy EXCEPT !.status.started = TRUE]
  BY DEF Prepared, conds
<1>4. /\ Prepared(j).spec = j.spec
      /\ Prepared(j).status.completed = j.status.completed
      /\ Prepared(j).status.worker = j.status.worker
      /\ Prepared(j).status.launcher = j.status.launcher
      /\ Prepared(j).status.conds = conds
  <2>1. /\ copy.spec = j.spec
        /\ copy.status = [j.status EXCEPT !.conds = conds]
    BY DEF JobType
  <2>2. /\ copy.status.completed = j.status.completed
        /\ copy.status.worker = j.status.worker
        /\ copy.status.launcher = j.status.launcher
        /\ copy.status.conds = conds
    BY <2>1 DEF JobType, StatusType
  <2>3. LET begun == [copy EXCEPT !.status.started = TRUE]
        IN /\ begun.spec = copy.spec
           /\ begun.status.completed = copy.status.completed
           /\ begun.status.worker = copy.status.worker
           /\ begun.status.launcher = copy.status.launcher
           /\ begun.status.conds = copy.status.conds
    BY DEF JobType, StatusType
  <2> QED
    BY <1>3, <2>1, <2>2, <2>3
<1>5. Done(Prepared(j).status) <=> Done(j.status)
  BY <1>2, <1>4 DEF Done, isFinished, isSucceeded, isFailed, hasCondition, CondTypes
<1> QED
  BY <1>2, <1>4, <1>5

\* Resetting the worker counts leaves the rest of the job alone.
LEMMA WithoutCountsFields ==
    ASSUME NEW j \in JobType
    PROVE  /\ WithoutCounts(j) \in JobType /\ WithoutCounts(j).spec = j.spec
           /\ WithoutCounts(j).status.completed = j.status.completed
           /\ WithoutCounts(j).status.conds = j.status.conds
           /\ WithoutCounts(j).status.launcher = j.status.launcher
           /\ WithoutCounts(j).status.worker = ZeroCounts
<1>1. ZeroCounts \in WorkerCounts
  BY ReplicasAssumption DEF ZeroCounts, WorkerCounts
<1> QED
  BY <1>1 DEF WithoutCounts, JobType, StatusType

\* A sync without workers counts none.
LEMMA UnreadCounts ==
    ASSUME NEW s, Unread(s)
    PROVE  /\ \A phases : "absent" \notin phases => HowMany(s, phases) = 0
           /\ NewWorkerStatus(s) = ZeroCounts
           /\ countReadyWorkerPods(s) = 0 /\ Cardinality(Members(s)) = 0
<1>1. Cardinality({}) = 0
  BY FS_EmptySet
<1>2. \A phases : "absent" \notin phases => {i \in Index : s.workers[i] \in phases} = {}
  BY DEF Unread
<1>3. \A phases : "absent" \notin phases => HowMany(s, phases) = 0
  BY <1>1, <1>2 DEF HowMany
<1>4. {i \in Index : s.workers[i] = "Ready"} = {} /\ Members(s) = {}
  BY DEF Unread, Members
<1>5. NewWorkerStatus(s) = ZeroCounts
  BY <1>3 DEF NewWorkerStatus, ZeroCounts
<1> QED
  BY <1>1, <1>3, <1>4, <1>5 DEF countReadyWorkerPods

-----------------------------------------------------------------------------
(* The caches.                                                             *)

\* A pod that is written is no longer known to the cache.
LEMMA SetPodKnown ==
    ASSUME TypeInv, NEW i, NEW phase, SetPod(i, phase)
    PROVE  \A k \in podsFresh' : k \in podsFresh /\ pods'[k] = pods[k]
BY DEF SetPod, TypeInv, TypeOK

\* So the calls for worker pods keep what the caches know.
LEMMA PodCallsKnown ==
    ASSUME TypeInv, CachesKnow, ScaleDown \/ GetOrCreateWorker \/ DeleteWorkerPod
    PROVE  CachesKnow'
<1>1. /\ UNCHANGED <<jobVars, launcherVars, launcherPodVars, podsC>>
      /\ \/ UNCHANGED <<pods, podsFresh>>
         \/ \E i, phase : SetPod(i, phase)
  BY DEF ScaleDown, GetOrCreateWorker, DeleteWorkerPod
<1>2. \A k \in podsFresh' : k \in podsFresh /\ pods'[k] = pods[k]
  BY <1>1, SetPodKnown
<1> QED
  BY <1>1, <1>2 DEF CachesKnow, jobVars, launcherVars, launcherPodVars

\* No step makes a cache fresh that does not hold what the server has.
LEMMA CachesStep == ASSUME TypeInv, CachesKnow, [Next]_vars PROVE CachesKnow'
<1> USE DEF CachesKnow, objectVars, jobVars, launcherVars, launcherPodVars, podVars, podGroupVars
<1>1. CASE SyncSkip \/ SyncStart \/ EnsureDependents \/ UNCHANGED vars
  <2>1. /\ UNCHANGED <<job, jobC, launcher, launcherC, launcherPodVars, podVars>>
        /\ "cache" \in jobFresh' => "cache" \in jobFresh
        /\ "cache" \in launcherFresh' => "cache" \in launcherFresh
    BY <1>1 DEF SyncSkip, SyncStart, EnsureDependents, vars
  <2> QED
    BY <2>1
<1>2. CASE GetOrCreatePodGroup \/ DeletePodGroup
  BY <1>2 DEF GetOrCreatePodGroup, DeletePodGroup
<1>3. CASE ScaleDown \/ GetOrCreateWorker \/ DeleteWorkerPod
  BY <1>3, PodCallsKnown
<1>4. CASE CreateLauncher
  <2>1. PICK reply \in Replies(launcher.state = "absent") :
          IF Applied(reply)
            THEN /\ launcher' = [state |-> "active", suspend |-> sync.job.spec.suspend]
                 /\ launcherFresh' = {"sync"}
                 /\ launcherRunningC' = FALSE
            ELSE UNCHANGED <<launcher, launcherFresh, launcherRunningC>>
    BY <1>4 DEF CreateLauncher
  <2>2. CASE Applied(reply)
    <3>1. launcher.state = "absent"
      BY <2>1, <2>2 DEF Replies, Applied, CallFaults
    <3>2. launcherRunning = FALSE
      BY <3>1 DEF TypeInv, TypeOK
    <3>3. /\ launcher'.state = "active" /\ "cache" \notin launcherFresh'
          /\ launcherRunningC' = FALSE
      BY <2>1, <2>2
    <3>4. UNCHANGED <<jobVars, launcherRunning, launcherPodFresh, podVars>>
      BY <1>4 DEF CreateLauncher
    <3> QED
      BY <3>2, <3>3, <3>4
  <2>3. CASE ~Applied(reply)
    <3>1. UNCHANGED <<launcher, launcherFresh, launcherRunningC>>
      BY <2>1, <2>3
    <3>2. UNCHANGED <<jobVars, launcherC, launcherRunning, launcherPodFresh, podVars>>
      BY <1>4 DEF CreateLauncher
    <3> QED
      BY <3>1, <3>2
  <2> QED
    BY <2>2, <2>3
<1>5. CASE AlignLauncher
  <2>1. launcherC'.state = launcherC.state
    BY <1>5 DEF AlignLauncher, TypeInv, TypeOK, LauncherType
  <2>2. \/ launcher'.state = launcher.state /\ launcherFresh' = {}
        \/ UNCHANGED <<launcher, launcherFresh>>
    BY <1>5 DEF AlignLauncher, TypeInv, TypeOK, LauncherType
  <2> QED
    BY <1>5, <2>1, <2>2 DEF AlignLauncher
<1>6. CASE UpdateStatus \/ UpdateFinishedStatus
  BY <1>6 DEF UpdateStatus, UpdateFinishedStatus, WriteStatus
<1>7. CASE Deliver
  <2>1. CASE DeliverPod
    BY <2>1 DEF DeliverPod, TypeInv, TypeOK
  <2> QED
    BY <1>7, <2>1 DEF Deliver, DeliverJob, DeliverLauncher, DeliverLauncherPod, DeliverPodGroup
<1>8. CASE Cluster
  <2>1. CASE PodProgress \/ PodFault
    <3>1. \E i, phase : SetPod(i, phase)
      BY <2>1 DEF PodProgress, PodFault
    <3>2. \A k \in podsFresh' : k \in podsFresh /\ pods'[k] = pods[k]
      BY <3>1, SetPodKnown
    <3> QED
      BY <2>1, <3>2 DEF PodProgress, PodFault
  <2>2. CASE LauncherFinish
    BY <2>2 DEF LauncherFinish, TypeInv, TypeOK
  <2>3. CASE LauncherExpire
    BY <2>3 DEF LauncherExpire, isJobFinished
  <2> QED
    BY <1>8, <2>1, <2>2, <2>3 DEF Cluster, UserEdit, LauncherPodStart, LauncherPodStop, Crash
<1> QED
  BY <1>1, <1>2, <1>3, <1>4, <1>5, <1>6, <1>7, <1>8 DEF Next, Controller

-----------------------------------------------------------------------------
(* The counts of a suspended job.                                          *)

\* A status that updateGroupJobStatus computes counts no workers if it says
\* Suspended: the sync of a suspended job has none.
LEMMA NewCounts ==
    ASSUME TypeInv, SuspendedCounts, NEW podRunning
    PROVE  CountsNone(NewJobStatus(sync, podRunning))
<1>1. sync \in SyncType
  BY DEF TypeInv, TypeOK
<1>2. CASE sync.job.spec.suspend
  <2>1. NewWorkerStatus(sync) = ZeroCounts
    BY <1>2, UnreadCounts DEF SuspendedCounts
  <2> QED
    BY <2>1, NewFields DEF CountsNone
<1>3. CASE ~sync.job.spec.suspend
  BY <1>1, <1>3, NewConditions DEF CountsNone
<1> QED
  BY <1>2, <1>3

\* A sync that goes on with the workers and the job it has.
SyncCounts(s) ==
    CountsNone(s.job.status) /\ (s.job.spec.suspend => Unread(s))

\* The end of a sync, and a stage of a suspended job.
LEMMA SyncEndCounts ==
    ASSUME SuspendedCounts, UNCHANGED <<job, jobC>>,
           \/ sync' = NoSync
           \/ SyncCounts(sync') /\ (sync'.job.spec.suspend =>
                    pc' \notin {"podgroup", "scaledown", "workers"})
    PROVE  SuspendedCounts'
<1>1. CountsNone(NoSync.job.status) /\ ~NoSync.job.spec.suspend
  BY DEF NoSync, NewStatus, NoConditions, Unset, CondTypes, CountsNone, hasCondition
<1>2. CountsNone(sync'.job.status)
  BY <1>1 DEF SyncCounts
<1>3. sync'.job.spec.suspend =>
            Unread(sync') /\ pc' \notin {"podgroup", "scaledown", "workers"}
  BY <1>1 DEF SyncCounts
<1> QED
  BY <1>2, <1>3 DEF SuspendedCounts, CountsNone, Unread

\* The stages after the workers'.
LEMMA AfterStages ==
    ASSUME NEW s
    PROVE  /\ AfterAlign(s) \in {"cleanup", "status"}
           /\ AfterLaunch(s) \in {"align", "cleanup", "status"}
           /\ AfterWorkers(s) \in {"launch", "align", "cleanup", "status"}
BY DEF AfterAlign, AfterLaunch, AfterWorkers

\* Every call of a sync keeps the counts.
LEMMA SyncCountsStep ==
    ASSUME TypeInv, SuspendedCounts,
           \/ SyncStart \/ EnsureDependents \/ GetOrCreatePodGroup \/ ScaleDown
           \/ GetOrCreateWorker \/ CreateLauncher \/ AlignLauncher
           \/ DeleteWorkerPod \/ DeletePodGroup
    PROVE  SuspendedCounts'
<1> DEFINE Late == {"launch", "align", "cleanup", "finish", "status"}
           Early == {"podgroup", "scaledown", "workers"}
           Allowed(stage, s) == SyncCounts(s) /\ (s.job.spec.suspend => stage \notin Early)
           Ends == Fails \/ \E stage \in Stages : \E s : Goto(stage, s) /\ Allowed(stage, s)
<1>1. sync \in SyncType /\ SyncCounts(sync)
  BY DEF TypeInv, TypeOK, SuspendedCounts, SyncCounts
<1>2. UNCHANGED <<job, jobC>>
  BY DEF SyncStart, EnsureDependents, GetOrCreatePodGroup, ScaleDown, GetOrCreateWorker,
     CreateLauncher, AlignLauncher, DeleteWorkerPod, DeletePodGroup, objectVars, jobVars
<1>3. \A stage \in Late \cup Early : \A s :
            /\ Goto(stage, s) /\ SyncCounts(s)
            /\ stage \in Late \/ ~s.job.spec.suspend
            => Ends
  BY DEF Stages
<1>4. Fails => Ends
  OBVIOUS
<1>6. \A s : AfterWorkers(s) \in Late /\ AfterLaunch(s) \in Late /\ AfterAlign(s) \in Late
  BY AfterStages
<1>7. \A s, t : SyncCounts(s) /\ t.job = s.job /\ t.workers = s.workers => SyncCounts(t)
  BY DEF SyncCounts, Unread
<1>8. Ends => SuspendedCounts'
  <2>1. Fails => SuspendedCounts'
    BY <1>2, SyncEndCounts DEF Fails
  <2>2. ASSUME NEW stage \in Stages, NEW s, Goto(stage, s), Allowed(stage, s)
        PROVE  SuspendedCounts'
    BY <1>2, <2>2, SyncEndCounts DEF Goto
  <2> QED
    BY <2>1, <2>2
<1>5. {"launch", "align", "cleanup", "finish", "status"} = Late /\ {"podgroup", "scaledown", "workers"} = Early
  OBVIOUS
<1> HIDE DEF Ends, Allowed, Late, Early
<1>9. EnterWorkers(sync) /\ ~sync.job.spec.suspend => Ends
  <2>1. SyncCounts([sync EXCEPT !.todo = Surplus(sync)])
        /\ [sync EXCEPT !.todo = Surplus(sync)].job = sync.job
    BY <1>1, <1>7 DEF SyncType
  <2> QED
    BY <1>1, <1>3, <1>5, <1>6, <2>1 DEF EnterWorkers
<1>10. CASE EnsureDependents
  <2>1. \/ Fails
        \/ Goto(AfterWorkers(sync), sync)
        \/ ~sync.job.spec.suspend /\ Goto("podgroup", sync)
        \/ ~sync.job.spec.suspend /\ EnterWorkers(sync)
    BY <1>10 DEF EnsureDependents, EndCall
  <2> QED
    BY <1>1, <1>3, <1>4, <1>5, <1>6, <1>8, <1>9, <2>1
<1>11. CASE GetOrCreatePodGroup
  <2>1. ~sync.job.spec.suspend
    BY <1>11 DEF GetOrCreatePodGroup, SuspendedCounts
  <2>2. Fails \/ EnterWorkers(sync)
    BY <1>11 DEF GetOrCreatePodGroup, EndCall
  <2> QED
    BY <1>4, <1>8, <1>9, <2>1, <2>2
<1>12. CASE ScaleDown
  <2>1. ~sync.job.spec.suspend
    BY <1>12 DEF ScaleDown, SuspendedCounts
  <2>2. PICK i \in sync.todo : \E reply \in Replies(pods[i] # "absent") :
          LET rest == [sync EXCEPT !.todo = @ \ {i}]
          IN EndCall(reply, Goto(IF rest.todo = {} THEN "workers" ELSE "scaledown", rest))
    BY <1>12 DEF ScaleDown
  <2> DEFINE rest == [sync EXCEPT !.todo = @ \ {i}]
  <2>3. SyncCounts(rest) /\ rest.job = sync.job
    BY <1>1, <1>7 DEF SyncType
  <2>4. Fails \/ Goto("workers", rest) \/ Goto("scaledown", rest)
    BY <2>2 DEF EndCall
  <2> HIDE DEF rest
  <2> QED
    BY <1>3, <1>4, <1>5, <1>8, <2>1, <2>3, <2>4
<1>13. CASE GetOrCreateWorker
  <2> DEFINE With(phase) == [sync EXCEPT !.workers[sync.ix] = phase, !.ix = sync.ix + 1]
             Step(phase) == IF sync.ix + 1 < Keep(sync)
                              THEN Goto("workers", With(phase))
                              ELSE Goto(AfterWorkers(With(phase)), [With(phase) EXCEPT !.ix = 0])
  <2>1. ~sync.job.spec.suspend
    BY <1>13 DEF GetOrCreateWorker, SuspendedCounts
  <2>2. Step(podsC[sync.ix]) \/ Step("Pending") \/ Fails
    BY <1>13 DEF GetOrCreateWorker, EndCall
  <2>3. \A phase : /\ With(phase).job = sync.job
                   /\ [With(phase) EXCEPT !.ix = 0].job = sync.job
    BY <1>1 DEF SyncType
  <2>4. \A s : s.job = sync.job => SyncCounts(s) /\ ~s.job.spec.suspend
    BY <1>1, <2>1 DEF SyncCounts
  <2> HIDE DEF With
  <2>5. \A phase : Step(phase) => Ends
    BY <1>3, <1>5, <1>6, <2>3, <2>4
  <2> QED
    BY <1>4, <1>8, <2>2, <2>5
<1>14. CASE CreateLauncher \/ AlignLauncher
  <2> DEFINE s == [sync EXCEPT !.launcher = [state |-> "active",
                                             suspend |-> sync.job.spec.suspend]]
             t == [sync EXCEPT !.launcher.suspend = sync.job.spec.suspend]
  <2>1. SyncCounts(s) /\ SyncCounts(t)
    BY <1>1, <1>7 DEF SyncType
  <2>2. Fails \/ Goto(AfterLaunch(s), s) \/ Goto(AfterAlign(t), t)
    BY <1>14 DEF CreateLauncher, AlignLauncher, EndCall
  <2> HIDE DEF s, t
  <2> QED
    BY <1>3, <1>4, <1>6, <1>8, <2>1, <2>2
<1>15. CASE DeleteWorkerPod
  <2> DEFINE s == [sync EXCEPT !.ix = sync.ix + 1]
  <2>1. SyncCounts(s)
    BY <1>1, <1>7 DEF SyncType
  <2>2. Fails \/ Goto("cleanup", s)
    BY <1>15 DEF DeleteWorkerPod, EndCall
  <2> HIDE DEF s
  <2> QED
    BY <1>3, <1>4, <1>5, <1>8, <2>1, <2>2
<1>16. CASE DeletePodGroup
  <2> DEFINE s == CleanedUp(sync)
  <2>1. /\ s.job.status.worker = ZeroCounts
        /\ s.job.spec = sync.job.spec /\ s.workers = sync.workers
    BY <1>1 DEF CleanedUp, SyncType, JobType, StatusType
  <2>2. SyncCounts(s)
    BY <1>1, <2>1 DEF SyncCounts, CountsNone, Unread
  <2>3. Fails \/ Goto("finish", s) \/ Goto("status", s)
    BY <1>16 DEF DeletePodGroup, EndCall
  <2> HIDE DEF s
  <2> QED
    BY <1>3, <1>4, <1>5, <1>8, <2>2, <2>3
<1>17. CASE SyncStart
  <2>1. sync'.job = Prepared(jobC) /\ Unread(sync') /\ pc' \in {"cleanup", "deps"} \cup Late
    BY <1>5, <1>6, <1>17 DEF SyncStart, NoSync, NoPods, Unread
  <2>2. CountsNone(Prepared(jobC).status)
    BY PreparedFields DEF CountsNone, hasCondition, CondTypes, SuspendedCounts, TypeInv, TypeOK
  <2>3. SyncCounts(sync')
    BY <2>1, <2>2 DEF SyncCounts
  <2> QED
    BY <1>2, <1>5, <2>1, <2>3, SyncEndCounts DEF SyncStart
<1> QED
  BY <1>10, <1>11, <1>12, <1>13, <1>14, <1>15, <1>16, <1>17

\* No step makes a suspended job count workers.
LEMMA CountsStep == ASSUME TypeInv, SuspendedCounts, [Next]_vars PROVE SuspendedCounts'
<1> USE DEF objectVars, jobVars, launcherVars, launcherPodVars, podVars, podGroupVars
<1>1. CASE SyncSkip \/ UNCHANGED vars
  BY <1>1 DEF SyncSkip, vars, controllerVars, SuspendedCounts, CountsNone, Unread
<1>2. CASE UpdateStatus \/ UpdateFinishedStatus
  <2>1. launcherRunningC \in BOOLEAN /\ job \in JobType
    BY DEF TypeInv, TypeOK
  <2>2. PICK status : /\ CountsNone(status)
                      /\ \/ UNCHANGED job
                         \/ job' = [job EXCEPT !.status = status]
    BY <1>2, NewCounts DEF UpdateStatus, UpdateFinishedStatus, WriteStatus, SuspendedCounts
  <2>3. CountsNone(job'.status)
    BY <2>1, <2>2 DEF SuspendedCounts, JobType
  <2>4. sync' = NoSync /\ jobC' = jobC
    BY <1>2 DEF UpdateStatus, UpdateFinishedStatus, WriteStatus, EndCall, Return, Goto, Fails
  <2>5. CountsNone(NoSync.job.status) /\ ~NoSync.job.spec.suspend
    BY DEF NoSync, NewStatus, NoConditions, Unset, CondTypes, CountsNone, hasCondition
  <2> QED
    BY <2>3, <2>4, <2>5 DEF SuspendedCounts, CountsNone
<1>3. CASE Controller /\ ~(SyncSkip \/ UpdateStatus \/ UpdateFinishedStatus)
  BY <1>3, SyncCountsStep DEF Controller
<1>4. CASE Deliver
  <2>1. sync'.job = sync.job /\ sync'.workers = sync.workers /\ pc' = pc
    BY <1>4 DEF Deliver, DeliverJob, DeliverLauncher, DeliverLauncherPod, DeliverPod,
       DeliverPodGroup, TypeInv, TypeOK, SyncType
  <2>2. job' = job /\ jobC' \in {job, jobC}
    BY <1>4 DEF Deliver, DeliverJob, DeliverLauncher, DeliverLauncherPod, DeliverPod,
       DeliverPodGroup
  <2> QED
    BY <2>1, <2>2 DEF SuspendedCounts, CountsNone, Unread
<1>5. CASE Crash
  <2>1. CountsNone(NoSync.job.status) /\ ~NoSync.job.spec.suspend
    BY DEF NoSync, NewStatus, NoConditions, Unset, CondTypes, CountsNone, hasCondition
  <2> QED
    BY <1>5, <2>1 DEF Crash, SuspendedCounts, CountsNone
<1>6. CASE Cluster /\ ~Crash
  <2>1. UNCHANGED controllerVars /\ jobC' = jobC /\ job'.status = job.status
    BY <1>6 DEF Cluster, UserEdit, LauncherPodStart, LauncherPodStop, LauncherFinish,
       LauncherExpire, PodProgress, PodFault, TypeInv, TypeOK, JobType
  <2> QED
    BY <2>1 DEF controllerVars, SuspendedCounts, CountsNone, Unread
<1> QED
  BY <1>1, <1>2, <1>3, <1>4, <1>5, <1>6 DEF Next

-----------------------------------------------------------------------------
(* The progress of a sync.                                                 *)

\* The caches are as they were.
Held == UNCHANGED <<jobC, launcherC, launcherRunningC, podsC, podGroupC>>

\* What a sync has found depends on the caches alone.
LEMMA HeldProgress ==
    ASSUME Held, NEW stage, NEW s, ProgressAt(stage, s), pc' = stage, sync' = s
    PROVE  Progress'
<1>1. Cleaned' = Cleaned /\ Grouped' = Grouped /\ Aligned' = Aligned
  BY DEF Held, Cleaned, KeptPod, Grouped, Aligned
<1>2. ASSUME NEW t
      PROVE  /\ StatusDue(t) => StatusDue(t)'
             /\ Told(t) => Told(t)'
             /\ Reads(t) => Reads(t)'
             /\ Surplus(t)' = Surplus(t)
             /\ \A n : Taken(t, n) => Taken(t, n)'
  BY <1>1 DEF Held, StatusDue, Told, Reads, Surplus, Taken, Staffed, Launched, Unread
<1>3. Rested => Rested'
  BY <1>1, <1>2 DEF Held, Rested
<1> QED
  BY <1>1, <1>2, <1>3 DEF Held, Progress, ProgressAt, KeptPod, Unread, Reads, StatusDue, Taken

\* What is left of a sync once the workers are there, or are not wanted.
LEMMA AfterLaunchDue ==
    ASSUME TypeInv, NEW s \in SyncType, s.ix = 0,
           jobC.spec.reconciled, ~Done(jobC.status),
           s.job = Prepared(jobC), s.launcher = launcherC,
           jobC.spec.suspend => Unread(s) /\ launcherC.state # "absent",
           ~jobC.spec.suspend /\ ~isJobFinished(launcherC) =>
                Grouped /\ Staffed(s) /\ Launched(s)
    PROVE  ProgressAt(AfterLaunch(s), s)
<1>1. s.job.spec = jobC.spec
  BY PreparedFields DEF TypeInv, TypeOK
<1>2. CASE AfterLaunch(s) = "align"
  BY <1>2 DEF ProgressAt
<1>3. CASE AfterLaunch(s) # "align"
  <2>1. Aligned
    BY <1>1, <1>3 DEF AfterLaunch, Aligned
  <2>2. AfterLaunch(s) = IF jobC.spec.suspend THEN "cleanup" ELSE "status"
    BY <1>1, <1>3 DEF AfterLaunch, AfterAlign
  <2>3. \A i \in Index : ~(i < 0)
    BY DEF Index
  <2> QED
    BY <2>1, <2>2, <2>3 DEF ProgressAt, StatusDue
<1> QED
  BY <1>2, <1>3

\* A launcher that may be created is: a sync that passes this stage has found
\* one, or that it must wait for the workers.
LEMMA AfterWorkersDue ==
    ASSUME TypeInv, NEW s \in SyncType, s.ix = 0,
           jobC.spec.reconciled, ~Done(jobC.status), Reads(s),
           jobC.spec.suspend => Unread(s),
           ~jobC.spec.suspend => Grouped /\ Staffed(s)
    PROVE  ProgressAt(AfterWorkers(s), s)
<1>1. s.job.spec = jobC.spec
  BY PreparedFields DEF TypeInv, TypeOK, Reads
<1>2. CASE AfterWorkers(s) = "launch"
  BY <1>2 DEF ProgressAt
<1>3. CASE AfterWorkers(s) # "launch"
  <2>1. AfterWorkers(s) = AfterLaunch(s) /\ Launched(s)
    BY <1>1, <1>3 DEF AfterWorkers, Launched, Reads
  <2>2. jobC.spec.suspend => launcherC.state # "absent"
    BY <2>1, UnreadCounts DEF Launched
  <2> QED
    BY <2>1, <2>2, AfterLaunchDue DEF Reads
<1> QED
  BY <1>2, <1>3

\* getOrCreateWorker is entered with the PodGroup as it should be, and finds
\* surplus pods or none.
LEMMA EnterDue ==
    ASSUME TypeInv, Held, sync.ix = 0, jobC.spec.reconciled, ~Done(jobC.status),
           Reads(sync), Unread(sync), ~jobC.spec.suspend, Grouped, EnterWorkers(sync)
    PROVE  Progress'
<1>1. sync \in SyncType /\ Keep(sync) = jobC.spec.replicas
  BY PreparedFields DEF TypeInv, TypeOK, Reads, Keep
<1>2. CASE Keep(sync) = 0
  <2>1. ProgressAt(AfterWorkers(sync), sync)
    BY <1>1, <1>2, AfterWorkersDue DEF Staffed
  <2> QED
    BY <1>2, <2>1, HeldProgress DEF EnterWorkers, Goto
<1>3. CASE Keep(sync) # 0 /\ Surplus(sync) # {}
  <2>1. ProgressAt("scaledown", [sync EXCEPT !.todo = Surplus(sync)])
    BY DEF ProgressAt
  <2> QED
    BY <1>3, <2>1, HeldProgress DEF EnterWorkers, Goto
<1>4. CASE Keep(sync) # 0 /\ Surplus(sync) = {}
  <2>1. Taken(sync, 0)
    BY DEF Taken, Unread, Index
  <2>2. ProgressAt("workers", sync)
    BY <1>4, <2>1 DEF ProgressAt
  <2> QED
    BY <1>4, <2>2, HeldProgress DEF EnterWorkers, Goto
<1> QED
  BY <1>2, <1>3, <1>4

\* A call that fails puts the key back.
LEMMA QuietReply ==
    ASSUME NEW accepted, NEW reply \in Replies(accepted), NEW Advance, EndCall(reply, Advance),
           Quiet'
    PROVE  reply = "ok" /\ accepted /\ Applied(reply) /\ Advance
BY DEF Replies, EndCall, Fails, Quiet, Applied, CallFaults

\* A sync starts with the job and the launcher of the caches.
LEMMA SyncStartDue == ASSUME TypeInv, SyncStart, Quiet' PROVE Progress'
<1> DEFINE s == [NoSync EXCEPT !.job = Prepared(jobC), !.launcher = launcherC,
                               !.cached = launcherC.state # "absent"]
<1>1. /\ jobC.spec.reconciled /\ Held
      /\ Done(jobC.status) => isCleanUpPods(jobC.spec)
  BY DEF SyncStart, Held, launcherPodVars, podVars, podGroupVars
<1>2. /\ NoSync \in SyncType /\ Prepared(jobC) \in JobType /\ launcherC \in LauncherType
  BY NoSyncType, PreparedType DEF TypeInv, TypeOK
<1>3. /\ s \in SyncType /\ s.ix = 0 /\ Unread(s)
      /\ s.job = Prepared(jobC) /\ s.launcher = launcherC
  BY <1>2 DEF SyncType, NoSync, NoPods, Unread
<1>4. CASE Done(jobC.status)
  <2> DEFINE t == [s EXCEPT !.launcher = NoLauncher, !.cached = FALSE]
  <2>1. sync' = t /\ pc' = "cleanup"
    BY <1>4 DEF SyncStart
  <2>2. t.ix = 0 /\ Unread(t) /\ t.job = Prepared(jobC)
    BY <1>3 DEF SyncType, Unread
  <2> HIDE DEF s, t
  <2>3. ProgressAt("cleanup", t)
    BY <1>1, <1>4, <2>2 DEF ProgressAt, Index
  <2> QED
    BY <1>1, <2>1, <2>3, HeldProgress
<1>5. CASE ~Done(jobC.status) /\ isJobFinished(launcherC)
  <2>1. sync' = s /\ pc' = AfterLaunch(s)
    BY <1>5 DEF SyncStart
  <2> HIDE DEF s
  <2>2. ProgressAt(AfterLaunch(s), s)
    BY <1>1, <1>3, <1>5, AfterLaunchDue DEF isJobFinished
  <2> QED
    BY <1>1, <2>1, <2>2, HeldProgress
<1>6. CASE ~Done(jobC.status) /\ ~isJobFinished(launcherC)
  <2>1. sync' = s /\ pc' = "deps"
    BY <1>6 DEF SyncStart
  <2> HIDE DEF s
  <2>2. ProgressAt("deps", s)
    BY <1>1, <1>3, <1>6 DEF ProgressAt, Reads
  <2> QED
    BY <1>1, <2>1, <2>2, HeldProgress
<1> QED
  BY <1>4, <1>5, <1>6

\* The dependents leave the caches alone, in this model.
LEMMA EnsureDependentsDue ==
    ASSUME TypeInv, Progress, EnsureDependents, Quiet'
    PROVE  Progress'
<1>1. pc = "deps" /\ Held /\ sync \in SyncType /\ sync.ix = 0
  BY DEF EnsureDependents, Held, objectVars, jobVars, launcherVars, launcherPodVars, podVars,
     podGroupVars, TypeInv, TypeOK, LoopOK
<1>2. /\ jobC.spec.reconciled /\ ~Done(jobC.status)
      /\ Reads(sync) /\ Unread(sync)
  BY <1>1 DEF Progress, ProgressAt
<1>3. sync.job.spec = jobC.spec
  BY <1>2, PreparedFields DEF TypeInv, TypeOK, Reads
<1>4. IF sync.job.spec.suspend THEN Goto(AfterWorkers(sync), sync)
      ELSE IF GangScheduling THEN Goto("podgroup", sync)
      ELSE EnterWorkers(sync)
  <2>1. PICK reply \in Replies(TRUE) :
          EndCall(reply, IF sync.job.spec.suspend THEN Goto(AfterWorkers(sync), sync)
                         ELSE IF GangScheduling THEN Goto("podgroup", sync)
                         ELSE EnterWorkers(sync))
    BY DEF EnsureDependents
  <2> QED
    BY <2>1 DEF EndCall, Fails, Quiet
<1>5. CASE jobC.spec.suspend
  <2>1. ProgressAt(AfterWorkers(sync), sync)
    BY <1>1, <1>2, <1>5, AfterWorkersDue
  <2> QED
    BY <1>1, <1>3, <1>4, <1>5, <2>1, HeldProgress DEF Goto
<1>6. CASE ~jobC.spec.suspend /\ GangScheduling
  <2>1. ProgressAt("podgroup", sync)
    BY <1>2, <1>6 DEF ProgressAt
  <2> QED
    BY <1>1, <1>3, <1>4, <1>6, <2>1, HeldProgress DEF Goto
<1>7. CASE ~jobC.spec.suspend /\ ~GangScheduling
  BY <1>1, <1>2, <1>3, <1>4, <1>7, EnterDue DEF Grouped
<1> QED
  BY <1>5, <1>6, <1>7

\* The PodGroup is passed without a write only if it asks for the right number.
LEMMA GetOrCreatePodGroupDue ==
    ASSUME TypeInv, Progress, GetOrCreatePodGroup, Quiet'
    PROVE  Progress'
<1> DEFINE minMember == calculateMinAvailable(sync)
<1>1. pc = "podgroup" /\ sync \in SyncType /\ sync.ix = 0
  BY DEF GetOrCreatePodGroup, TypeInv, TypeOK, LoopOK
<1>2. /\ jobC.spec.reconciled /\ ~Done(jobC.status) /\ ~jobC.spec.suspend
      /\ Reads(sync) /\ Unread(sync)
  BY <1>1 DEF Progress, ProgressAt
<1>3. minMember = jobC.spec.replicas + 1
  BY <1>2, PreparedFields DEF TypeInv, TypeOK, Reads, calculateMinAvailable, Keep
<1>4. CASE pgSpecsAreEqual(minMember) /\ EnterWorkers(sync) /\ UNCHANGED podGroupC
  <2>1. Held
    BY <1>4 DEF GetOrCreatePodGroup, Held, jobVars, launcherVars, launcherPodVars, podVars
  <2>2. Grouped
    BY <1>3, <1>4 DEF Grouped, pgSpecsAreEqual
  <2>3. EnterWorkers(sync)
    BY <1>4
  <2> HIDE DEF minMember
  <2> QED
    BY <1>1, <1>2, <2>1, <2>2, <2>3, EnterDue
<1>5. ASSUME NEW accepted, NEW reply \in Replies(accepted),
             IF Applied(reply)
               THEN podGroup' = minMember /\ podGroupFresh' = FALSE
               ELSE UNCHANGED <<podGroup, podGroupFresh>>,
             EndCall(reply, EnterWorkers(sync))
      PROVE  FALSE
  BY <1>5, QuietReply DEF Quiet, Fresh
<1> QED
  BY <1>4, <1>5 DEF GetOrCreatePodGroup

\* The deletion of surplus pods is never the last thing to happen.
LEMMA ScaleDownDue == ASSUME TypeInv, ScaleDown, Quiet' PROVE Progress'
<1>1. PICK i \in sync.todo : \E reply \in Replies(pods[i] # "absent") :
        LET rest == [sync EXCEPT !.todo = @ \ {i}] IN
        /\ IF Applied(reply) THEN SetPod(i, "absent") ELSE UNCHANGED <<pods, podsFresh>>
        /\ EndCall(reply, Goto(IF rest.todo = {} THEN "workers" ELSE "scaledown", rest))
  BY DEF ScaleDown
<1>2. i \in Index
  BY DEF TypeInv, TypeOK, SyncType
<1>3. pods[i] # "absent" /\ SetPod(i, "absent")
  BY <1>1, QuietReply
<1> QED
  BY <1>2, <1>3 DEF SetPod, Quiet, Fresh

\* A worker is passed without a write only if the cache has its pod.
LEMMA GetOrCreateWorkerDue ==
    ASSUME TypeInv, Progress, GetOrCreateWorker, Quiet'
    PROVE  Progress'
<1> DEFINE i == sync.ix
           With(phase) == [sync EXCEPT !.workers[i] = phase, !.ix = i + 1]
           Step(phase) == IF i + 1 < Keep(sync)
                            THEN Goto("workers", With(phase))
                            ELSE Goto(AfterWorkers(With(phase)), [With(phase) EXCEPT !.ix = 0])
<1>1. /\ pc = "workers" /\ sync \in SyncType /\ i < Keep(sync) /\ i \in Nat
      /\ Keep(sync) \in 0 .. MaxReplicas
  BY DEF GetOrCreateWorker, TypeInv, TypeOK, LoopOK, SyncType, Keep, JobType, SpecType
<1>2. /\ jobC.spec.reconciled /\ ~Done(jobC.status) /\ ~jobC.spec.suspend
      /\ Reads(sync) /\ Grouped /\ Surplus(sync) = {} /\ Taken(sync, i)
  BY <1>1 DEF Progress, ProgressAt
<1>3. Keep(sync) = jobC.spec.replicas /\ sync.job.spec = jobC.spec
  BY <1>2, PreparedFields DEF TypeInv, TypeOK, Reads, Keep
<1>4. i \in Index
  BY <1>1, ReplicasAssumption DEF Index
<1>5. CASE podsC[i] # "absent" /\ Step(podsC[i]) /\ UNCHANGED <<pods, podsFresh, faults>>
  <2> DEFINE s == With(podsC[i])
             t == [s EXCEPT !.ix = 0]
  <2>1. Held
    BY <1>5 DEF GetOrCreateWorker, Held, jobVars, launcherVars, launcherPodVars, podGroupVars
  <2>2. podsC[i] \in PodPhases
    BY <1>4 DEF TypeInv, TypeOK
  <2>3. /\ s.job = sync.job /\ s.launcher = sync.launcher /\ s.ix = i + 1
        /\ s.workers = [sync.workers EXCEPT ![i] = podsC[i]]
        /\ t.job = sync.job /\ t.launcher = sync.launcher /\ t.ix = 0
        /\ t.workers = s.workers /\ t \in SyncType
    <3>1. s = [sync EXCEPT !.workers = [sync.workers EXCEPT ![i] = podsC[i]], !.ix = i + 1]
      OBVIOUS
    <3>2. /\ [sync.workers EXCEPT ![i] = podsC[i]] \in [Index -> PodPhases]
          /\ i + 1 \in 0 .. MaxReplicas /\ 0 \in 0 .. MaxReplicas
      <4>1. sync.workers \in [Index -> PodPhases]
        BY <1>1 DEF SyncType
      <4>2. i + 1 \in 0 .. MaxReplicas /\ 0 \in 0 .. MaxReplicas
        BY <1>1, ReplicasAssumption
      <4> QED
        BY <2>2, <4>1, <4>2
    <3> HIDE DEF With
    <3>3. s \in SyncType
      BY <1>1, <3>1, <3>2 DEF SyncType
    <3>4. t \in SyncType
      BY <3>2, <3>3 DEF SyncType
    <3> QED
      BY <1>1, <3>1, <3>3, <3>4 DEF SyncType
  <2>4. \A k \in Index : s.workers[k] = IF k = i THEN podsC[i] ELSE sync.workers[k]
    BY <1>1, <2>3 DEF SyncType
  <2>5. Taken(s, i + 1) /\ Taken(t, i + 1)
    BY <1>1, <1>2, <1>5, <2>3, <2>4 DEF Taken, Index
  <2>6. Surplus(s) = {} /\ Surplus(t) = {}
    BY <1>2, <2>3 DEF Surplus, Keep
  <2>7. Reads(s) /\ Reads(t)
    BY <1>2, <2>3 DEF Reads
  <2>8. AfterWorkers(s) = AfterWorkers(t)
    BY <2>3 DEF AfterWorkers, AfterLaunch, AfterAlign, countReadyWorkerPods, Members
  <2>9. Step(podsC[i])
    BY <1>5
  <2>10. CASE i + 1 < Keep(sync)
    <3>1. Goto("workers", s)
      BY <2>9, <2>10
    <3> HIDE DEF s, t
    <3>2. ProgressAt("workers", s)
      BY <1>2, <2>3, <2>5, <2>6, <2>7 DEF ProgressAt
    <3> QED
      BY <2>1, <3>1, <3>2, HeldProgress DEF Goto
  <2>11. CASE ~(i + 1 < Keep(sync))
    <3>1. Goto(AfterWorkers(t), t)
      BY <2>8, <2>9, <2>11
    <3>2. i + 1 = jobC.spec.replicas /\ jobC.spec.replicas # 0
      BY <1>1, <1>3, <2>11
    <3> HIDE DEF s, t
    <3>3. Staffed(t)
      BY <2>5, <2>6, <3>2 DEF Staffed
    <3>4. ProgressAt(AfterWorkers(t), t)
      BY <1>2, <2>3, <2>7, <3>3, AfterWorkersDue
    <3> QED
      BY <2>1, <3>1, <3>4, HeldProgress DEF Goto
  <2> QED
    BY <2>10, <2>11
<1>6. CASE \E reply \in Replies(pods[i] = "absent") :
            /\ IF Applied(reply) THEN SetPod(i, "Pending") ELSE UNCHANGED <<pods, podsFresh>>
            /\ EndCall(reply, Step("Pending"))
  <2>1. PICK reply \in Replies(pods[i] = "absent") :
            /\ IF Applied(reply) THEN SetPod(i, "Pending") ELSE UNCHANGED <<pods, podsFresh>>
            /\ EndCall(reply, Step("Pending"))
    BY <1>6
  <2>2. reply = "ok"
    BY <2>1 DEF EndCall, Fails, Quiet
  <2>3. pods[i] = "absent" /\ SetPod(i, "Pending")
    BY <2>1, <2>2 DEF Replies, Applied, CallFaults
  <2> QED
    BY <1>4, <2>3 DEF SetPod, Quiet, Fresh
<1> QED
  BY <1>5, <1>6 DEF GetOrCreateWorker

\* The launcher is not created, suspended or resumed either.
LEMMA LauncherDue ==
    ASSUME CreateLauncher \/ AlignLauncher, Quiet'
    PROVE  FALSE
<1>1. \E reply \in {"ok", "rejected"} \cup CallFaults :
        /\ Applied(reply) => "cache" \notin launcherFresh'
        /\ reply # "ok" => Fails
  BY DEF CreateLauncher, AlignLauncher, EndCall, Replies
<1> QED
  BY <1>1 DEF Applied, Fails, Quiet, Fresh

\* The clean-up passes a pod without a write only if it is to be kept.
LEMMA DeleteWorkerPodDue ==
    ASSUME TypeInv, CachesKnow, Progress, DeleteWorkerPod, Quiet'
    PROVE  Progress'
<1> DEFINE i == sync.ix
           s == [sync EXCEPT !.ix = i + 1]
           kept == \/ podsC[i] = "absent"
                   \/ /\ sync.job.spec.cleanPodPolicy = "Running"
                      /\ ~isPodRunning(podsC[i])
                      /\ podsC[i] # "Pending"
<1>1. /\ pc = "cleanup" /\ sync \in SyncType /\ i < Keep(sync) /\ i \in Nat
      /\ Keep(sync) \in 0 .. MaxReplicas
  BY DEF DeleteWorkerPod, TypeInv, TypeOK, SyncType, Keep, JobType, SpecType
<1>2. i \in Index
  BY <1>1, ReplicasAssumption DEF Index
<1>3. ProgressAt("cleanup", sync)
  BY <1>1 DEF Progress
<1>4. sync.job.spec = jobC.spec
  BY <1>3, PreparedFields DEF ProgressAt, TypeInv, TypeOK
<1>5. s.job = sync.job /\ s.launcher = sync.launcher /\ s.workers = sync.workers /\ s.ix = i + 1
  BY <1>1 DEF SyncType
<1>6. CASE kept /\ Goto("cleanup", s)
  <2>1. Held
    BY DEF DeleteWorkerPod, Held, jobVars, launcherVars, launcherPodVars, podGroupVars
  <2>2. KeptPod(i)
    BY <1>4, <1>6 DEF KeptPod
  <2>3. Goto("cleanup", s)
    BY <1>6
  <2> HIDE DEF s
  <2>4. \A k \in Index : k < i + 1 => KeptPod(k)
    BY <1>1, <1>3, <2>2 DEF ProgressAt, Index
  <2>5. ProgressAt("cleanup", s)
    BY <1>3, <1>5, <2>4 DEF ProgressAt, Unread
  <2> QED
    BY <2>1, <2>3, <2>5, HeldProgress DEF Goto
<1>7. CASE ~kept /\ \E reply \in Replies(TRUE) :
            /\ IF Applied(reply) THEN SetPod(i, "absent") ELSE UNCHANGED <<pods, podsFresh>>
            /\ EndCall(reply, Goto("cleanup", s))
  <2>1. SetPod(i, "absent")
    BY <1>7, QuietReply
  <2>2. podsFresh' = Index
    BY DEF Quiet, Fresh
  <2>3. pods[i] = "absent" /\ i \in podsFresh
    BY <1>2, <2>1, <2>2 DEF SetPod
  <2> QED
    BY <1>7, <2>3 DEF CachesKnow
<1> QED
  BY <1>6, <1>7 DEF DeleteWorkerPod

\* The clean-up ends without a write only if there is no PodGroup.
LEMMA DeletePodGroupDue ==
    ASSUME TypeInv, Progress, DeletePodGroup, Quiet'
    PROVE  Progress'
<1> DEFINE s == CleanedUp(sync)
<1>1. pc = "cleanup" /\ sync \in SyncType /\ sync.ix >= Keep(sync)
      /\ sync.ix \in Nat /\ Keep(sync) \in Nat
  BY ReplicasAssumption DEF DeletePodGroup, TypeInv, TypeOK, SyncType, Keep, JobType, SpecType
<1>2. ProgressAt("cleanup", sync)
  BY <1>1 DEF Progress
<1>3. Prepared(jobC) \in JobType /\ sync.job = Prepared(jobC)
  BY <1>2, PreparedType DEF ProgressAt, TypeInv, TypeOK
<1>4. /\ s.job = WithoutCounts(Prepared(jobC)) /\ s.launcher = sync.launcher
      /\ s.workers = sync.workers
  BY <1>1, <1>3 DEF CleanedUp, WithoutCounts, SyncType
<1>5. /\ Keep(sync) = jobC.spec.replicas
      /\ Done(s.job.status) <=> Done(jobC.status)
  BY <1>3, <1>4, PreparedFields, WithoutCountsFields DEF TypeInv, TypeOK, Keep, Done
<1> HIDE DEF s
<1>6. CASE /\ ~GangScheduling \/ podGroupC = 0
           /\ Goto(IF Done(s.job.status) THEN "finish" ELSE "status", s)
  <2>1. Held
    BY DEF DeletePodGroup, Held, jobVars, launcherVars, launcherPodVars, podVars
  <2>2. Cleaned
    BY <1>1, <1>2, <1>5, <1>6 DEF Cleaned, ProgressAt, Index
  <2>3. CASE Done(jobC.status)
    <3>1. ProgressAt("finish", s)
      BY <1>2, <1>4, <2>2, <2>3 DEF ProgressAt
    <3> QED
      BY <1>5, <1>6, <2>1, <2>3, <3>1, HeldProgress DEF Goto
  <2>4. CASE ~Done(jobC.status)
    <3>1. StatusDue(s)
      BY <1>2, <1>4, <2>2, <2>4 DEF ProgressAt, StatusDue, Unread
    <3>2. ProgressAt("status", s)
      BY <1>2, <2>4, <3>1 DEF ProgressAt
    <3> QED
      BY <1>5, <1>6, <2>1, <2>4, <3>2, HeldProgress DEF Goto
  <2> QED
    BY <2>3, <2>4
<1>7. ASSUME NEW reply \in Replies(podGroup # 0), NEW stage,
             IF Applied(reply)
               THEN podGroup' = 0 /\ podGroupFresh' = FALSE
               ELSE UNCHANGED <<podGroup, podGroupFresh>>,
             EndCall(reply, Goto(stage, s))
      PROVE  FALSE
  BY <1>7, QuietReply DEF Quiet, Fresh
<1> QED
  BY <1>6, <1>7 DEF DeletePodGroup, s

\* A sync ends without a write only if the job has the status it would report.
LEMMA UpdateStatusDue ==
    ASSUME TypeInv, CachesKnow, Progress, UpdateStatus, Quiet'
    PROVE  Progress'
<1> DEFINE status == NewJobStatus(sync, launcherRunningC)
<1>1. pc = "status" /\ sync \in SyncType /\ Held
  BY DEF UpdateStatus, Held, launcherVars, launcherPodVars, podVars, podGroupVars, TypeInv, TypeOK
<1>2. jobC.spec.reconciled /\ ~Done(jobC.status) /\ StatusDue(sync)
  BY <1>1 DEF Progress, ProgressAt
<1> HIDE DEF status
<1>3. CASE status = sync.job.status
  <2>1. Return
    BY <1>3 DEF UpdateStatus, status
  <2>2. ProgressAt("idle", NoSync)
    BY <1>1, <1>2, <1>3 DEF ProgressAt, Rested, Told, status
  <2> QED
    BY <1>1, <2>1, <2>2, HeldProgress DEF Return, Goto
<1>4. CASE status # sync.job.status
  <2>1. PICK reply \in Replies(versionCurrent) :
          /\ IF Applied(reply) /\ job.status # status
               THEN job' = [job EXCEPT !.status = status] /\ jobFresh' = {}
               ELSE UNCHANGED <<job, jobFresh>>
          /\ EndCall(reply, Return)
    BY <1>4 DEF UpdateStatus, WriteStatus, status
  <2>2. Applied(reply) /\ Return
    BY <2>1, QuietReply
  <2>3. job.status = status /\ "cache" \in jobFresh
    BY <2>1, <2>2 DEF Quiet, Fresh
  <2>4. jobC.status = status
    BY <2>3 DEF CachesKnow
  <2>5. ProgressAt("idle", NoSync)
    BY <1>1, <1>2, <2>4 DEF ProgressAt, Rested, Told, status
  <2> QED
    BY <1>1, <2>2, <2>5, HeldProgress DEF Return, Goto
<1> QED
  BY <1>3, <1>4

\* After the clean-up of a done job it has no workers to report.
LEMMA UpdateFinishedStatusDue ==
    ASSUME TypeInv, CachesKnow, Progress, UpdateFinishedStatus, Quiet'
    PROVE  Progress'
<1>1. pc = "finish" /\ Held
  BY DEF UpdateFinishedStatus, Held, launcherVars, launcherPodVars, podVars, podGroupVars
<1>2. /\ Done(jobC.status) /\ isCleanUpPods(jobC.spec) /\ Cleaned
      /\ sync.job.status.worker = ZeroCounts
  BY <1>1, PreparedType, WithoutCountsFields DEF Progress, ProgressAt, TypeInv, TypeOK
<1>3. PICK reply \in Replies(versionCurrent) :
        /\ IF Applied(reply) /\ job.status # sync.job.status
             THEN job' = [job EXCEPT !.status = sync.job.status] /\ jobFresh' = {}
             ELSE UNCHANGED <<job, jobFresh>>
        /\ EndCall(reply, Return)
  BY DEF UpdateFinishedStatus, WriteStatus
<1>4. Applied(reply) /\ Return
  BY <1>3, QuietReply
<1>5. job.status = sync.job.status /\ "cache" \in jobFresh
  BY <1>3, <1>4 DEF Quiet, Fresh
<1>6. ProgressAt("idle", NoSync)
  BY <1>2, <1>5 DEF ProgressAt, Rested, CachesKnow
<1> QED
  BY <1>1, <1>4, <1>6, HeldProgress DEF Return, Goto

\* A job that is not reconciled, or done and keeps its pods, asks for nothing.
LEMMA SyncSkipDue == ASSUME SyncSkip PROVE Progress'
<1>1. Held /\ pc' = "idle" /\ sync' = sync
  BY DEF SyncSkip, Held, objectVars, jobVars, launcherVars, launcherPodVars, podVars,
     podGroupVars
<1>2. ProgressAt("idle", sync)
  BY DEF SyncSkip, ProgressAt, Rested
<1> QED
  BY <1>1, <1>2, HeldProgress

\* The event of a launcher pod may be dropped when the cache has no launcher
\* (handleObject): nothing was found in it then.
LEMMA DeliverDue ==
    ASSUME TypeInv, Progress, Deliver, Quiet'
    PROVE  Progress'
<1>1. DeliverLauncherPod /\ launcherC.state = "absent"
  BY DEF Deliver, DeliverJob, DeliverLauncher, DeliverLauncherPod, DeliverPod, DeliverPodGroup,
     Quiet, ownerFound
<1>2. UNCHANGED <<jobC, launcherC, podsC, podGroupC, pc, sync>>
  BY <1>1 DEF DeliverLauncherPod, jobVars, launcherVars, podVars, podGroupVars
<1>3. ASSUME NEW s, StatusDue(s), Told(s)
      PROVE  NewJobStatus(s, launcherRunningC') \in {s.job.status, jobC.status}
  <2>1. s.launcher.state = "absent"
    BY <1>1, <1>3 DEF StatusDue
  <2>2. NewJobStatus(s, launcherRunningC') = NewJobStatus(s, launcherRunningC)
    BY <2>1 DEF NewJobStatus, NewLauncherStatus, launcherPodsRun
  <2> QED
    BY <1>3, <2>2 DEF Told
<1>4. /\ Cleaned' = Cleaned /\ Grouped' = Grouped /\ Aligned' = Aligned
      /\ \A i : KeptPod(i)' <=> KeptPod(i)
  BY <1>2 DEF Cleaned, KeptPod, Grouped, Aligned
<1>5. ASSUME NEW t
      PROVE  /\ StatusDue(t) => StatusDue(t)'
             /\ Reads(t) => Reads(t)'
             /\ Surplus(t)' = Surplus(t)
             /\ \A n : Taken(t, n) => Taken(t, n)'
  BY <1>2, <1>4 DEF StatusDue, Reads, Surplus, Taken, Staffed, Launched, Unread
<1>6. Rested => Rested'
  BY <1>2, <1>3, <1>4, <1>5 DEF Rested, Told
<1> QED
  BY <1>2, <1>4, <1>5, <1>6
     DEF Progress, ProgressAt, KeptPod, Unread, Reads, StatusDue, Taken

\* What the rest of the cluster does is still to be delivered.
LEMMA ClusterDue == ASSUME TypeInv, Cluster, Quiet' PROVE FALSE
<1>1. CASE PodProgress \/ PodFault
  <2>1. PICK i \in Index : \E phase : SetPod(i, phase) /\ phase # pods[i]
    BY <1>1 DEF PodProgress, PodFault, PodEnd, PodFaults
  <2> QED
    BY <2>1 DEF SetPod, Quiet, Fresh
<1>2. CASE ~(PodProgress \/ PodFault)
  BY <1>2 DEF Cluster, UserEdit, LauncherPodStart, LauncherPodStop, LauncherFinish,
     LauncherExpire, Crash, Quiet, Fresh
<1> QED
  BY <1>1, <1>2

\* The steps of a running sync neither freshen a cache nor empty the queue.
LEMMA QuietBefore ==
    ASSUME TypeInv, Controller \/ Deliver, ~SyncSkip, ~SyncStart, Quiet'
    PROVE  Quiet
<1>1. CASE Deliver
  BY <1>1 DEF Deliver, DeliverJob, DeliverLauncher, DeliverLauncherPod, DeliverPod,
     DeliverPodGroup, Quiet, Fresh, jobVars, launcherVars, podVars, podGroupVars
<1>2. CASE EnsureDependents \/ GetOrCreatePodGroup \/ CreateLauncher \/ AlignLauncher
  <2>1. dirty' = dirty \/ dirty' = TRUE
    BY <1>2 DEF EnsureDependents, GetOrCreatePodGroup, CreateLauncher, AlignLauncher,
       EnterWorkers, EndCall, Fails, Goto
  <2>2. /\ UNCHANGED <<jobFresh, podsFresh>>
        /\ "cache" \in launcherFresh' => "cache" \in launcherFresh
        /\ podGroupFresh' = podGroupFresh \/ podGroupFresh' = FALSE
    <3>1. CASE EnsureDependents
      BY <3>1 DEF EnsureDependents, objectVars, jobVars, launcherVars, podVars, podGroupVars
    <3>2. CASE GetOrCreatePodGroup
      BY <3>2 DEF GetOrCreatePodGroup, jobVars, launcherVars, podVars
    <3>3. CASE CreateLauncher
      BY <3>3 DEF CreateLauncher, jobVars, podVars, podGroupVars
    <3>4. CASE AlignLauncher
      BY <3>4 DEF AlignLauncher, jobVars, podVars, podGroupVars
    <3> QED
      BY <1>2, <3>1, <3>2, <3>3, <3>4
  <2>3. Fresh
    BY <2>2 DEF Quiet, Fresh
  <2>4. ~dirty
    BY <2>1, Zenon DEF Quiet
  <2> QED
    BY <2>3, <2>4 DEF Quiet
<1>3. CASE ScaleDown \/ GetOrCreateWorker \/ DeleteWorkerPod
  <2>1. podsFresh' \subseteq podsFresh
    BY <1>3 DEF ScaleDown, GetOrCreateWorker, DeleteWorkerPod, SetPod
  <2>2. UNCHANGED <<jobFresh, launcherFresh, podGroupFresh>> /\ podsFresh \subseteq Index
    BY <1>3 DEF ScaleDown, GetOrCreateWorker, DeleteWorkerPod, jobVars, launcherVars,
       podGroupVars, TypeInv, TypeOK
  <2>3. dirty' = dirty \/ dirty' = TRUE
    BY <1>3 DEF ScaleDown, GetOrCreateWorker, DeleteWorkerPod, EndCall, Fails, Goto
  <2>4. Fresh
    BY <2>1, <2>2 DEF Quiet, Fresh
  <2>5. ~dirty
    BY <2>3, Zenon DEF Quiet
  <2> QED
    BY <2>4, <2>5 DEF Quiet
<1>4. CASE DeletePodGroup \/ UpdateStatus \/ UpdateFinishedStatus
  <2>1. dirty' = dirty \/ dirty' = TRUE
    BY <1>4 DEF DeletePodGroup, UpdateStatus, UpdateFinishedStatus, WriteStatus, EndCall, Fails,
       Goto, Return
  <2>2. /\ UNCHANGED <<launcherFresh, podsFresh>>
        /\ "cache" \in jobFresh' => "cache" \in jobFresh
        /\ podGroupFresh' = podGroupFresh \/ podGroupFresh' = FALSE
    BY <1>4 DEF DeletePodGroup, UpdateStatus, UpdateFinishedStatus, WriteStatus, jobVars,
       launcherVars, podVars, podGroupVars
  <2>3. Fresh
    BY <2>2 DEF Quiet, Fresh
  <2>4. ~dirty
    BY <2>1, Zenon DEF Quiet
  <2> QED
    BY <2>3, <2>4 DEF Quiet
<1> QED
  BY <1>1, <1>2, <1>3, <1>4 DEF Controller

\* Every step keeps the invariant.
LEMMA RestStep == ASSUME RestInv, [Next]_vars PROVE RestInv'
<1>1. TypeInv' /\ CachesKnow' /\ SuspendedCounts'
  BY NextType, CachesStep, CountsStep DEF RestInv
<1>2. TypeInv /\ CachesKnow /\ (Quiet => Progress)
  BY DEF RestInv
<1>3. ASSUME Quiet' PROVE Progress'
  <2>1. CASE SyncSkip \/ SyncStart
    BY <1>2, <1>3, <2>1, SyncSkipDue, SyncStartDue
  <2>2. CASE (Controller \/ Deliver) /\ ~(SyncSkip \/ SyncStart)
    <3>1. Progress
      BY <1>2, <1>3, <2>2, QuietBefore
    <3> QED
      BY <1>2, <1>3, <2>2, <3>1, EnsureDependentsDue, GetOrCreatePodGroupDue, ScaleDownDue,
         GetOrCreateWorkerDue, LauncherDue, DeleteWorkerPodDue, DeletePodGroupDue,
         UpdateStatusDue, UpdateFinishedStatusDue, DeliverDue DEF Controller
  <2>3. CASE Cluster
    BY <1>2, <1>3, <2>3, ClusterDue
  <2>4. CASE UNCHANGED vars
    <3>1. Held /\ Quiet /\ pc' = pc /\ sync' = sync
      BY <1>3, <2>4 DEF vars, objectVars, jobVars, launcherVars, launcherPodVars, podVars,
         podGroupVars, controllerVars, Held, Quiet, Fresh
    <3> QED
      BY <1>2, <3>1, HeldProgress DEF Progress
  <2> QED
    BY <2>1, <2>2, <2>3, <2>4 DEF Next, Controller
<1> QED
  BY <1>1, <1>3 DEF RestInv

\* At first the key is queued.
LEMMA InitRest == ASSUME Init PROVE RestInv
<1>1. CachesKnow
  BY DEF Init, CachesKnow, NoPods
<1>2. CountsNone(NewStatus) /\ ~NoSync.job.spec.suspend /\ NoSync.job.status = NewStatus
  BY DEF NoSync, NewStatus, NoConditions, Unset, CondTypes, CountsNone, hasCondition
<1>3. SuspendedCounts
  BY <1>2 DEF Init, SuspendedCounts
<1>4. ~Quiet
  BY DEF Init, Quiet
<1> QED
  BY <1>1, <1>3, <1>4, InitType DEF RestInv

-----------------------------------------------------------------------------
(* At rest.                                                                *)

\* The numbers of the pods there may be, of those of a sync with all its
\* workers, and of the pods of the cache.
LEMMA StaffedPods ==
    ASSUME TypeInv, NEW s \in SyncType, s.job.spec = jobC.spec, Staffed(s)
    PROVE  /\ jobC.spec.replicas > 0 =>
                \A i \in Index : podsC[i] # "absent" <=> i < jobC.spec.replicas
           /\ \A i \in Index : s.workers[i] =
                IF i < jobC.spec.replicas THEN podsC[i] ELSE "absent"
<1> DEFINE n == jobC.spec.replicas
           podFullList == {i \in Index : podsC[i] # "absent"}
<1>1. n \in 0 .. MaxReplicas /\ Keep(s) = n /\ n \in Nat
  BY ReplicasAssumption DEF TypeInv, TypeOK, JobType, SpecType, Keep
<1>2. CASE n = 0
  BY <1>2 DEF Staffed, Unread, Index
<1>3. CASE n # 0
  <2>1. Surplus(s) = {} /\ Taken(s, n)
    BY <1>3 DEF Staffed
  <2>2. ASSUME NEW i \in Index, ~(i < n), podsC[i] # "absent"
        PROVE  FALSE
    <3>1. (0 .. n - 1) \cup {i} \subseteq podFullList
      BY <1>1, <2>1, <2>2, ReplicasAssumption DEF Taken, Index
    <3>2. IsFiniteSet(podFullList)
      <4>1. 0 \in Int /\ MaxReplicas - 1 \in Int
        BY ReplicasAssumption
      <4>2. IsFiniteSet(Index) /\ podFullList \subseteq Index
        BY <4>1, FS_Interval DEF Index
      <4> QED
        BY <4>2, FS_Subset
    <3>3. IsFiniteSet(0 .. n - 1) /\ Cardinality(0 .. n - 1) = n
      <4>1. 0 \in Int /\ n - 1 \in Int
        BY <1>1
      <4> HIDE DEF n
      <4> QED
        BY <1>1, <1>3, <4>1, FS_Interval
    <3>4. Cardinality((0 .. n - 1) \cup {i}) = n + 1
      <4>1. i \notin 0 .. n - 1
        BY <1>1, <2>2, ReplicasAssumption DEF Index
      <4> HIDE DEF n
      <4> QED
        BY <3>3, <4>1, FS_AddElement
    <3>5. n + 1 <= Cardinality(podFullList) /\ Cardinality(podFullList) \in Nat
      BY <3>1, <3>2, <3>4, FS_Subset, FS_CardinalityType
    <3>6. Label(i) >= n
      BY <1>1, <2>2, ReplicasAssumption DEF Label, Index
    <3>7. Surplus(s) = {k \in podFullList : Label(k) >= n}
      <4>1. Cardinality(podFullList) > Keep(s)
        BY <1>1, <3>5
      <4> QED
        BY <1>1, <4>1 DEF Surplus
    <3> QED
      BY <2>1, <2>2, <3>6, <3>7
  <2> QED
    BY <2>1, <2>2 DEF Taken
<1> QED
  BY <1>2, <1>3

\* The counts of a sync with all its workers are those of the pods.
LEMMA StaffedCounts ==
    ASSUME TypeInv, NEW s \in SyncType, s.job.spec = jobC.spec, Staffed(s),
           job = jobC, podsC = pods
    PROVE  /\ \A phases : "absent" \notin phases => HowMany(s, phases) = WantedIn(phases)
           /\ (\A i \in Wanted : isPodRunning(pods[i])) =>
                HowMany(s, {"Running", "Ready"}) = Cardinality(Members(s))
           /\ (\A i \in Wanted : pods[i] = "Ready") =>
                countReadyWorkerPods(s) = Cardinality(Members(s))
<1>1. \A i \in Index : s.workers[i] = IF i \in Wanted THEN pods[i] ELSE "absent"
  BY StaffedPods DEF Wanted
<1>2. Wanted \subseteq Index
  BY DEF Wanted
<1>3. ASSUME NEW phases, "absent" \notin phases
      PROVE  HowMany(s, phases) = WantedIn(phases)
  <2>1. {i \in Index : s.workers[i] \in phases} = {i \in Wanted : pods[i] \in phases}
    BY <1>1, <1>2, <1>3
  <2> QED
    BY <2>1 DEF HowMany, WantedIn
<1>4. ASSUME \A i \in Wanted : isPodRunning(pods[i])
      PROVE  HowMany(s, {"Running", "Ready"}) = Cardinality(Members(s))
  <2>1. {i \in Index : s.workers[i] \in {"Running", "Ready"}} = Members(s)
    BY <1>1, <1>2, <1>4 DEF Members, isPodRunning
  <2> QED
    BY <2>1 DEF HowMany
<1>5. ASSUME \A i \in Wanted : pods[i] = "Ready"
      PROVE  countReadyWorkerPods(s) = Cardinality(Members(s))
  <2>1. {i \in Index : s.workers[i] = "Ready"} = Members(s)
    BY <1>1, <1>2, <1>5 DEF Members
  <2> QED
    BY <2>1 DEF countReadyWorkerPods
<1> QED
  BY <1>3, <1>4, <1>5

\* What cleanUpWorkerPods leaves is what the policy asks for.
LEMMA CleanedAsAsked ==
    ASSUME TypeInv, Cleaned, job = jobC, podsC = pods
    PROVE  (\A i \in Wanted : pods[i] \in LeftPhases) /\ GroupAsAsked(0)
<1>1. ASSUME NEW i \in Wanted PROVE pods[i] \in LeftPhases
  <2>1. i \in Index /\ KeptPod(i) /\ pods[i] \in PodPhases
    BY DEF Cleaned, Wanted, TypeInv, TypeOK
  <2> QED
    BY <2>1 DEF KeptPod, LeftPhases, isPodRunning, PodPhases
<1>2. GroupAsAsked(0)
  BY DEF Cleaned, GroupAsAsked
<1> QED
  BY <1>1, <1>2

\* What a sync tells, or has found told before, is what the job says, apart
\* from the Created condition and the counts of a suspended job.
LEMMA ToldStatus ==
    ASSUME TypeInv, NEW s \in SyncType, StatusDue(s), Told(s)
    PROVE  LET new == NewJobStatus(s, launcherRunningC)
               old == jobC.status
           IN /\ s.job.spec = jobC.spec
              /\ new.completed = old.completed /\ new.launcher = old.launcher
              /\ \A t \in CondTypes \ {"Created"} : new.conds[t] = old.conds[t]
              /\ ~jobC.spec.suspend => new.worker = old.worker
<1>1. jobC \in JobType /\ Prepared(jobC) \in JobType
  BY PreparedType DEF TypeInv, TypeOK
<1>2. CASE jobC.spec.suspend
  BY <1>1, <1>2, PreparedFields, WithoutCountsFields DEF StatusDue, Told
<1>3. CASE ~jobC.spec.suspend
  BY <1>1, <1>3, PreparedFields DEF StatusDue, Told
<1> QED
  BY <1>2, <1>3

\* At rest, the caches are what the server has, and what the last sync found in
\* them is what the properties ask for.
LEMMA RestGives == RestInv => NothingForgotten
<1> SUFFICES ASSUME RestInv, AtRest, job.spec.reconciled
             PROVE  IF Done(job.status) THEN EndedAsAsked
                    ELSE /\ ~isJobFinished(launcher)
                         /\ \/ launcher.state = "absent"
                            \/ launcher.suspend = job.spec.suspend
                            \/ launcherC.suspend # launcher.suspend
                         /\ launcher.state = "active" =>
                                job.status.launcher =
                                    IF launcherRunning THEN "active" ELSE "inactive"
                         /\ IF job.spec.suspend THEN SuspendedAsAsked ELSE RunningAsAsked
  BY DEF NothingForgotten
<1>1. TypeInv /\ SuspendedCounts /\ Rested
  BY DEF RestInv, AtRest, Quiet, Fresh, Progress, ProgressAt
<1>2. /\ job = jobC /\ launcherC.state = launcher.state
      /\ launcherRunningC = launcherRunning
  BY DEF RestInv, AtRest, CachesKnow
<1>3. podsC = pods
  <2>1. \A i \in Index : podsC[i] = pods[i]
    BY DEF RestInv, AtRest, CachesKnow
  <2> QED
    BY <1>1, <2>1 DEF TypeInv, TypeOK
<1>4. CASE Done(job.status)
  <2>1. isCleanUpPods(job.spec) => Cleaned /\ job.status.worker = ZeroCounts
    BY <1>1, <1>2, <1>4 DEF Rested
  <2> QED
    BY <1>1, <1>2, <1>3, <1>4, <2>1, CleanedAsAsked DEF EndedAsAsked
<1>5. CASE ~Done(job.status)
  <2>1. PICK s \in SyncType : StatusDue(s) /\ Told(s)
    BY <1>1, <1>2, <1>5 DEF Rested
  <2> DEFINE new == NewJobStatus(s, launcherRunning)
             status == job.status
  <2>2. /\ s.job.spec = job.spec /\ s.launcher = launcherC
        /\ new.completed = status.completed /\ new.launcher = status.launcher
        /\ \A t \in CondTypes \ {"Created"} : new.conds[t] = status.conds[t]
        /\ ~job.spec.suspend => new.worker = status.worker
    BY <1>1, <1>2, <2>1, ToldStatus DEF StatusDue
  <2>3. /\ new.worker = NewWorkerStatus(s)
        /\ new.launcher = NewLauncherStatus(s, launcherRunning)
        /\ isJobFinished(s.launcher) => new.completed
    BY NewFields
  <2>4. /\ job.spec.suspend =>
              hasCondition(new.conds, "Suspended") /\ ~hasCondition(new.conds, "Running")
        /\ ~job.spec.suspend => ~hasCondition(new.conds, "Suspended")
        /\ /\ ~job.spec.suspend
           /\ launcherPodsRun(s, launcherRunning)
           /\ HowMany(s, {"Running", "Ready"}) = Cardinality(Members(s))
           => hasCondition(new.conds, "Running")
        /\ (\E i \in Index : s.workers[i] = "Evicted") => isFailed(new.conds)
        /\ isJobFinished(s.launcher) => isFinished(new.conds)
    BY <2>2, NewConditions
  <2> HIDE DEF new, status
  <2>5. ~isJobFinished(launcher)
    BY <1>2, <1>5, <2>2, <2>3, <2>4
       DEF status, Done, isFinished, isSucceeded, isFailed, hasCondition, isJobFinished, CondTypes
  <2>6. \/ launcher.state = "absent"
        \/ launcher.suspend = job.spec.suspend
        \/ launcherC.suspend # launcher.suspend
    BY <1>2, <2>1 DEF StatusDue, Aligned
  <2>7. launcher.state = "active" =>
            job.status.launcher = IF launcherRunning THEN "active" ELSE "inactive"
    BY <1>2, <2>2, <2>3 DEF status, NewLauncherStatus
  <2>8. launcher.state \in {"absent", "active"}
    BY <1>1, <2>5 DEF TypeInv, TypeOK, LauncherType, isJobFinished
  <2>9. ASSUME job.spec.suspend PROVE SuspendedAsAsked
    <3>1. Cleaned /\ launcherC.state # "absent"
      BY <1>2, <2>1, <2>9 DEF StatusDue
    <3>2. hasCondition(status.conds, "Suspended") /\ ~hasCondition(status.conds, "Running")
      BY <2>2, <2>4, <2>9 DEF hasCondition, CondTypes
    <3>3. status.worker = ZeroCounts
      BY <1>1, <3>2 DEF SuspendedCounts, CountsNone, status
    <3> QED
      BY <1>1, <1>2, <1>3, <2>8, <3>1, <3>2, <3>3, CleanedAsAsked DEF SuspendedAsAsked, status
  <2>10. ASSUME ~job.spec.suspend PROVE RunningAsAsked
    <3>1. Grouped /\ Staffed(s) /\ Launched(s)
      BY <1>2, <2>1, <2>5, <2>10 DEF StatusDue, isJobFinished
    <3>2. job.spec.replicas > 0 => \A i \in Index : pods[i] # "absent" <=> i \in Wanted
      BY <1>1, <1>2, <1>3, <2>2, <3>1, StaffedPods DEF Wanted
    <3>3. GroupAsAsked(job.spec.replicas + 1)
      BY <1>2, <3>1 DEF Grouped, GroupAsAsked
    <3>4. /\ \A phases : "absent" \notin phases => HowMany(s, phases) = WantedIn(phases)
          /\ (\A i \in Wanted : isPodRunning(pods[i])) =>
                HowMany(s, {"Running", "Ready"}) = Cardinality(Members(s))
          /\ (\A i \in Wanted : pods[i] = "Ready") =>
                countReadyWorkerPods(s) = Cardinality(Members(s))
      BY <1>1, <1>2, <1>3, <2>2, <3>1, StaffedCounts
    <3>5. \/ job.spec.launcherCreationPolicy = "AtStartup"
          \/ \A i \in Wanted : pods[i] = "Ready"
          => launcher.state = "active"
      BY <1>2, <2>8, <3>1, <3>4 DEF Launched
    <3>6. ~hasCondition(status.conds, "Suspended")
      BY <2>2, <2>4, <2>10 DEF hasCondition, CondTypes
    <3>7. launcherRunning /\ (\A i \in Wanted : isPodRunning(pods[i])) =>
            hasCondition(status.conds, "Running")
      <4>1. ASSUME launcherRunning, \A i \in Wanted : isPodRunning(pods[i])
            PROVE  hasCondition(new.conds, "Running")
        <5>1. launcher.state = "active"
          BY <4>1 DEF RestInv, CachesKnow
        <5> QED
          BY <1>2, <2>2, <2>4, <2>10, <3>4, <4>1, <5>1 DEF launcherPodsRun
      <4> QED
        BY <2>2, <4>1 DEF hasCondition, CondTypes
    <3>8. (\E i \in Wanted : pods[i] = "Evicted") => isFailed(status.conds)
      <4>1. \A i \in Wanted : i \in Index /\ s.workers[i] = pods[i]
        BY <1>1, <1>2, <1>3, <2>2, <3>1, StaffedPods DEF Wanted
      <4> QED
        BY <2>2, <2>4, <4>1 DEF isFailed, hasCondition, CondTypes
    <3>9. status.worker = [set |-> TRUE, active |-> WantedIn({"Running", "Ready"}),
                           succeeded |-> WantedIn({"Succeeded"}),
                           failed |-> WantedIn({"Failed", "Evicted"})]
      BY <2>2, <2>3, <2>10, <3>4 DEF NewWorkerStatus
    <3> QED
      BY <3>2, <3>3, <3>5, <3>6, <3>7, <3>8, <3>9 DEF RunningAsAsked, status
  <2> QED
    BY <1>5, <2>5, <2>6, <2>7, <2>9, <2>10
<1> QED
  BY <1>4, <1>5

\* Whatever syncs, edits, failures, lost replies and restarts there were: when
\* nothing is left that would make the controller look at the job again, its
\* pods, launcher, PodGroup and status are as its spec asks.
THEOREM NothingIsForgotten == Safety => []NothingForgotten
BY InitRest, RestStep, RestGives, PTL DEF Safety
=============================================================================
