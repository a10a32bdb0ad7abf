------------------------ MODULE GroupJobOutcomeProofs ------------------------
(***************************************************************************)
(* A GroupJob reports its launcher's result, once and for good, and        *)
(* nothing is taken away from it without a reason.                         *)
(*                                                                         *)
(* OutcomeInv: never success and failure at once.  filterOutCondition does *)
(* not ensure it: a Failed condition that comes in leaves a Succeeded one  *)
(* as it is. What does is the order of syncHandler.  A job whose copy is   *)
(* done never reaches updateGroupJobStatus, a job is completed as soon as  *)
(* it has succeeded, and the workers of a job whose launcher has finished  *)
(* are not looked at, so that no eviction is added to a success.  The      *)
(* invariant says so of the job, of its cached version and of the copy a   *)
(* sync works on.                                                          *)
(*                                                                         *)
(* ResultInv: what any copy knows of the launcher's end is true or         *)
(* forgotten for a reason, and what is reported is what was known.         *)
(* NoRelaunch, NoWorkerAfterCompletion and the safety of ReportsOutcome    *)
(* follow from it.                                                         *)
(*                                                                         *)
(* RemovalInv: a sync that deletes a worker pod still sees why.            *)
(***************************************************************************)
EXTENDS GroupJobControllerProofs

\* A status does not report both results, and is completed if it succeeded.
Exclusive(status) ==
    /\ ~(isSucceeded(status.conds) /\ isFailed(status.conds))
    /\ isSucceeded(status.conds) => status.completed

\* A sync that may still update the status works on a job that is not done.
Undecided ==
    pc \in Stages \ {"idle", "cleanup", "finish"} => ~Done(sync.job.status)

\* A sync that has found the launcher finished has read no worker pod.
WorkersUnread ==
    isJobFinished(sync.launcher) =>
        /\ pc \notin {"deps", "podgroup", "scaledown", "workers", "launch"}
        /\ \A i \in Index : sync.workers[i] = "absent"

SyncDecides == Exclusive(sync.job.status) /\ Undecided /\ WorkersUnread

OutcomeInv ==
    /\ TypeInv
    /\ Exclusive(job.status) /\ Exclusive(jobC.status)
    /\ SyncDecides

-----------------------------------------------------------------------------
(* The condition list.                                                     *)

\* A condition of another type leaves both results alone.
LEMMA SetOther ==
    ASSUME NEW conds \in Conditions, NEW type \in {"Created", "Suspended", "Running"},
           NEW status, NEW reason
    PROVE  LET new == setCondition(conds, type, status, reason)
           IN /\ new["Succeeded"] = conds["Succeeded"]
              /\ new["Failed"] = conds["Failed"]
BY SetKeeps DEF Displaced, Lowered, CondTypes

\* Success lowers a failure that was reported before.
LEMMA SetSucceeded ==
    ASSUME NEW conds \in Conditions, NEW reason,
           ~(isSucceeded(conds) /\ isFailed(conds))
    PROVE  LET new == setCondition(conds, "Succeeded", "True", reason)
           IN isSucceeded(new) /\ ~isFailed(new)
<1> DEFINE condition == newCondition("True", reason)
           new == setCondition(conds, "Succeeded", "True", reason)
<1>1. CASE conds["Succeeded"] = condition
  BY <1>1 DEF setCondition, newCondition, isSucceeded, isFailed, hasCondition
<1>2. CASE conds["Succeeded"] # condition
  <2>1. new = [filterOutCondition(conds, "Succeeded") EXCEPT !["Succeeded"] = condition]
    BY <1>2 DEF setCondition
  <2>2. /\ new["Succeeded"] = condition
        /\ new["Failed"] = IF isPresent(conds, "Failed")
                             THEN [conds["Failed"] EXCEPT !.status = "False"]
                             ELSE conds["Failed"]
    BY <2>1 DEF filterOutCondition, Displaced, Lowered, CondTypes
  <2>3. conds["Failed"] \in Condition
    BY DEF Conditions, CondTypes
  <2> QED
    BY <2>2, <2>3 DEF newCondition, isPresent, isSucceeded, isFailed, hasCondition, Condition
<1> QED
  BY <1>1, <1>2

\* A failure leaves the Succeeded condition alone.
LEMMA SetFailed ==
    ASSUME NEW conds \in Conditions, NEW reason
    PROVE  LET new == setCondition(conds, "Failed", "True", reason)
           IN new["Succeeded"] = conds["Succeeded"] /\ isFailed(new)
BY DEF setCondition, newCondition, filterOutCondition, Displaced, Lowered, Conditions, CondTypes,
       isFailed, hasCondition

-----------------------------------------------------------------------------
(* The statuses the controller computes.                                   *)

\* syncHandler's first changes to its copy of the job leave its result alone.
LEMMA PreparedKeeps ==
    ASSUME NEW j \in JobType
    PROVE  LET status == Prepared(j).status
           IN /\ status.conds["Succeeded"] = j.status.conds["Succeeded"]
              /\ status.conds["Failed"] = j.status.conds["Failed"]
              /\ status.completed = j.status.completed
BY PreparedFields DEF CondTypes

\* updateGroupJobStatus adds at most one result to the status of a job that is
\* not done, and completes it with a success.
LEMMA StatusExclusive ==
    ASSUME NEW s \in SyncType, NEW podRunning \in BOOLEAN,
           Exclusive(s.job.status), ~Done(s.job.status),
           isJobFinished(s.launcher) => \A i \in Index : s.workers[i] = "absent"
    PROVE  Exclusive(NewJobStatus(s, podRunning))
<1> DEFINE spec == s.job.spec
           old == s.job.status
           allRunning == /\ launcherPodsRun(s, podRunning)
                         /\ HowMany(s, {"Running", "Ready"}) = Cardinality(Members(s))
           suspended == SuspendedCond(old.conds, spec)
           outcome == OutcomeCond(suspended, s.launcher)
           evicted == EvictedCond(outcome, s.workers)
           running == RunningCond(evicted, spec, allRunning)
           new == NewJobStatus(s, podRunning)
<1>1. old.conds \in Conditions /\ old.completed \in BOOLEAN
  BY DEF SyncType, JobType, StatusType
<1>2. suspended \in Conditions
  BY <1>1, SetType DEF SuspendedCond, CondTypes, Reasons
<1>3. outcome \in Conditions
  BY <1>2, SetType DEF OutcomeCond, CondTypes, Reasons
<1>4. evicted \in Conditions
  BY <1>3, SetType DEF EvictedCond, CondTypes, Reasons
<1>5. new.conds = running /\ (s.launcher.state = "complete" => new.completed)
  BY DEF NewJobStatus
<1>6. /\ running["Succeeded"] = evicted["Succeeded"]
      /\ running["Failed"] = evicted["Failed"]
  BY <1>4, SetOther DEF RunningCond
<1>7. ~isSucceeded(old.conds)
  BY DEF Exclusive, Done, isFinished
<1>8. ~isSucceeded(suspended)
  BY <1>1, <1>7, SetOther DEF SuspendedCond, isSucceeded, hasCondition
<1> HIDE DEF suspended, outcome, evicted, running, new, allRunning
<1>9. ASSUME s.launcher.state = "complete" PROVE Exclusive(new)
  <2>1. isSucceeded(outcome) /\ ~isFailed(outcome)
    BY <1>2, <1>8, <1>9, SetSucceeded DEF outcome, OutcomeCond
  <2>2. evicted = outcome
    BY <1>9 DEF evicted, EvictedCond, isJobFinished
  <2> QED
    BY <1>5, <1>6, <1>9, <2>1, <2>2
       DEF Exclusive, isSucceeded, isFailed, hasCondition, isJobFinished
<1>10. ASSUME s.launcher.state # "complete" PROVE Exclusive(new)
  <2>1. ~isSucceeded(outcome)
    BY <1>2, <1>8, <1>10, SetFailed DEF outcome, OutcomeCond, isSucceeded, hasCondition
  <2>2. ~isSucceeded(evicted)
    BY <1>3, <2>1, SetFailed DEF evicted, EvictedCond, isSucceeded, hasCondition
  <2> QED
    BY <1>5, <1>6, <2>2 DEF Exclusive, isSucceeded, isFailed, hasCondition
<1> QED
  BY <1>9, <1>10 DEF new

-----------------------------------------------------------------------------
(* The steps of a sync.                                                    *)

\* A sync that has ended decides nothing.
LEMMA EndDecides == ASSUME pc' = "idle", sync' = NoSync PROVE SyncDecides'
<1>1. Exclusive(NoSync.job.status)
  BY DEF NoSync, NewStatus, NoConditions, Unset, CondTypes, Exclusive, isSucceeded, hasCondition
<1>2. ~isJobFinished(NoSync.launcher)
  BY DEF NoSync, NoLauncher, isJobFinished
<1> QED
  BY <1>1, <1>2 DEF SyncDecides, Undecided, WorkersUnread

\* A sync that goes on with an undecided job and an unfinished launcher may
\* go on to any stage.
LEMMA GotoDecides ==
    ASSUME NEW stage, NEW s, Goto(stage, s), Exclusive(s.job.status),
           ~Done(s.job.status), ~isJobFinished(s.launcher)
    PROVE  SyncDecides'
BY DEF Goto, SyncDecides, Undecided, WorkersUnread

\* The stages up to the creation of the launcher.
Early == {"deps", "podgroup", "scaledown", "workers", "launch"}

\* In these stages neither the launcher of the sync is finished nor its job done.
LEMMA EarlyStages ==
    ASSUME OutcomeInv, pc \in Early
    PROVE  /\ Exclusive(sync.job.status) /\ ~Done(sync.job.status)
           /\ ~isJobFinished(sync.launcher)
BY DEF OutcomeInv, SyncDecides, Undecided, WorkersUnread, Stages, Early

\* They leave the copy of the job alone.
LEMMA EarlyMoves ==
    ASSUME TypeInv,
           \/ EnsureDependents \/ GetOrCreatePodGroup \/ ScaleDown
           \/ GetOrCreateWorker \/ CreateLauncher
    PROVE  /\ pc \in Early
           /\ \/ Fails
              \/ \E stage \in Stages \ {"idle"} : \E s :
                    /\ Goto(stage, s) /\ s.job = sync.job
                    /\ s.launcher.state \in {sync.launcher.state, "active"}
<1> DEFINE Kept(s) == /\ s.job = sync.job
                      /\ s.launcher.state \in {sync.launcher.state, "active"}
           Busy == Stages \ {"idle"}
           Moves == Fails \/ \E stage \in Busy : \E s : Goto(stage, s) /\ Kept(s)
<1>1. pc \in Early /\ sync \in SyncType
  BY DEF TypeInv, TypeOK, EnsureDependents, GetOrCreatePodGroup, updatePodGroup, ScaleDown,
     GetOrCreateWorker, CreateLauncher, Early
<1>2. \A stage \in Busy : \A s : Kept(s) /\ Goto(stage, s) => Moves
  OBVIOUS
<1>3. Fails => Moves
  OBVIOUS
<1>4. Kept(sync)
  OBVIOUS
<1>5. /\ {"podgroup", "scaledown", "workers"} \subseteq Busy
      /\ \A s : AfterWorkers(s) \in Busy /\ AfterLaunch(s) \in Busy
  BY DEF Stages, AfterWorkers, AfterLaunch, AfterAlign
<1>6. EnterWorkers(sync) => Moves
  <2>1. Kept([sync EXCEPT !.todo = Surplus(sync)])
    BY <1>1 DEF SyncType
  <2> QED
    BY <1>2, <1>4, <2>1, <1>5 DEF EnterWorkers
<1> SUFFICES Moves
  BY <1>1
<1> HIDE DEF Moves, Kept, Busy
<1>7. CASE EnsureDependents
  BY <1>2, <1>3, <1>4, <1>6, <1>7, <1>5 DEF EnsureDependents, EndCall
<1>8. CASE GetOrCreatePodGroup
  BY <1>3, <1>6, <1>8 DEF GetOrCreatePodGroup, updatePodGroup, EndCall
<1>9. CASE ScaleDown
  <2>1. \A i : Kept([sync EXCEPT !.todo = @ \ {i}])
    BY <1>1 DEF SyncType, Kept
  <2>2. PICK i \in sync.todo : \E reply \in Replies(pods[i] # "absent") :
          LET rest == [sync EXCEPT !.todo = @ \ {i}]
          IN EndCall(reply, Goto(IF rest.todo = {} THEN "workers" ELSE "scaledown", rest))
    BY <1>9 DEF ScaleDown
  <2> QED
    BY <1>2, <1>3, <1>5, <2>1, <2>2 DEF EndCall
<1>10. CASE GetOrCreateWorker
  <2> DEFINE With(phase) == [sync EXCEPT !.workers[sync.ix] = phase, !.ix = sync.ix + 1]
             Step(phase) == IF sync.ix + 1 < Keep(sync)
                              THEN Goto("workers", With(phase))
                              ELSE Goto(AfterWorkers(With(phase)), [With(phase) EXCEPT !.ix = 0])
  <2>1. \A phase : Kept(With(phase)) /\ Kept([With(phase) EXCEPT !.ix = 0])
    BY <1>1 DEF SyncType, Kept
  <2>2. \A phase : Step(phase) => Moves
    <3> HIDE DEF With
    <3> QED
      BY <1>2, <1>5, <2>1
  <2>3. Step(podsC[sync.ix]) \/ Step("Pending") \/ Fails
    BY <1>10 DEF GetOrCreateWorker, EndCall
  <2> QED
    BY <1>3, <2>2, <2>3
<1>11. CASE CreateLauncher
  <2> DEFINE s == [sync EXCEPT !.launcher = [state |-> "active",
                                             suspend |-> sync.job.spec.suspend]]
  <2>1. Kept(s)
    BY <1>1 DEF SyncType, Kept
  <2>2. Goto(AfterLaunch(s), s) \/ Fails
    BY <1>11 DEF CreateLauncher, EndCall
  <2> QED
    BY <1>2, <1>3, <1>5, <2>1, <2>2
<1> QED
  BY <1>7, <1>8, <1>9, <1>10, <1>11

\* Nor do they leave what SyncDecides says.
LEMMA EarlyDecides ==
    ASSUME OutcomeInv,
           \/ EnsureDependents \/ GetOrCreatePodGroup \/ ScaleDown
           \/ GetOrCreateWorker \/ CreateLauncher
    PROVE  SyncDecides'
<1>1. TypeInv
  BY DEF OutcomeInv
<1>2. /\ Exclusive(sync.job.status) /\ ~Done(sync.job.status)
      /\ ~isJobFinished(sync.launcher)
  BY <1>1, EarlyMoves, EarlyStages
<1>3. CASE Fails
  BY <1>3, EndDecides DEF Fails
<1>4. ASSUME NEW stage, NEW s, Goto(stage, s), s.job = sync.job,
             s.launcher.state \in {sync.launcher.state, "active"}
      PROVE  SyncDecides'
  <2>1. ~isJobFinished(s.launcher)
    BY <1>2, <1>4 DEF isJobFinished
  <2> QED
    BY <1>2, <1>4, <2>1, GotoDecides
<1> QED
  BY <1>1, <1>3, <1>4, EarlyMoves

\* A sync starts with an undecided job or goes straight to the clean-up, and
\* with a finished launcher it skips the workers.
LEMMA StartDecides == ASSUME OutcomeInv, SyncStart PROVE SyncDecides'
<1> DEFINE s == [NoSync EXCEPT !.job = Prepared(jobC), !.launcher = launcherC,
                               !.cached = launcherC.state # "absent"]
<1>1. jobC \in JobType /\ Exclusive(jobC.status)
  BY DEF OutcomeInv, TypeInv, TypeOK
<1>2. /\ Exclusive(Prepared(jobC).status)
      /\ Done(Prepared(jobC).status) <=> Done(jobC.status)
  BY <1>1, PreparedKeeps
     DEF Exclusive, Done, isFinished, isSucceeded, isFailed, hasCondition
<1>3. /\ s.job = Prepared(jobC) /\ s.launcher = launcherC
      /\ \A i \in Index : s.workers[i] = "absent"
  BY DEF NoSync, NoPods
<1> HIDE DEF s
<1>4. CASE Done(jobC.status)
  <2>1. pc' = "cleanup" /\ sync' = [s EXCEPT !.launcher = NoLauncher, !.cached = FALSE]
    BY <1>4 DEF SyncStart, s
  <2>2. sync'.job = Prepared(jobC) /\ ~isJobFinished(sync'.launcher)
    BY <2>1 DEF s, NoSync, NoLauncher, isJobFinished
  <2> QED
    BY <1>2, <2>1, <2>2 DEF SyncDecides, Undecided, WorkersUnread
<1>5. CASE ~Done(jobC.status)
  <2>1. /\ sync' = s
        /\ pc' = IF isJobFinished(launcherC) THEN AfterLaunch(s) ELSE "deps"
    BY <1>5 DEF SyncStart, s
  <2>2. AfterLaunch(s) \in {"align", "cleanup", "status"}
    BY DEF AfterLaunch, AfterAlign
  <2> QED
    BY <1>2, <1>3, <1>5, <2>1, <2>2 DEF SyncDecides, Undecided, WorkersUnread
<1> QED
  BY <1>4, <1>5

\* After the creation of the launcher only its suspend flag, the loop index and
\* the worker counts of the sync change.
LEMMA LateMoves ==
    ASSUME TypeInv, AlignLauncher \/ DeleteWorkerPod \/ DeletePodGroup
    PROVE  /\ pc # "idle"
           /\ \/ Fails
              \/ \E stage \in {"cleanup", "status", "finish"} : \E s :
                    /\ Goto(stage, s)
                    /\ s.job.status.conds = sync.job.status.conds
                    /\ s.job.status.completed = sync.job.status.completed
                    /\ s.launcher.state = sync.launcher.state /\ s.workers = sync.workers
                    /\ stage = "status" /\ Done(s.job.status) => pc = "align"
<1> DEFINE Kept(stage, s) ==
               /\ s.job.status.conds = sync.job.status.conds
               /\ s.job.status.completed = sync.job.status.completed
               /\ s.launcher.state = sync.launcher.state /\ s.workers = sync.workers
               /\ stage = "status" /\ Done(s.job.status) => pc = "align"
           Moves == \E stage \in {"cleanup", "status", "finish"} : \E s :
                        Goto(stage, s) /\ Kept(stage, s)
<1>1. sync \in SyncType /\ pc # "idle"
  BY DEF TypeInv, TypeOK, AlignLauncher, DeleteWorkerPod, DeletePodGroup
<1>2. CASE AlignLauncher
  <2> DEFINE s == [sync EXCEPT !.launcher.suspend = sync.job.spec.suspend]
  <2>1. s.job = sync.job /\ s.workers = sync.workers /\ s.launcher.state = sync.launcher.state
    BY <1>1 DEF SyncType, LauncherType
  <2>2. AfterAlign(s) \in {"cleanup", "status"} /\ pc = "align"
    BY <1>2 DEF AfterAlign, AlignLauncher
  <2>3. Goto(AfterAlign(s), s) \/ Fails
    BY <1>2 DEF AlignLauncher, EndCall
  <2> HIDE DEF s
  <2> QED
    BY <1>1, <2>1, <2>2, <2>3
<1>3. CASE DeleteWorkerPod
  <2> DEFINE s == [sync EXCEPT !.ix = sync.ix + 1]
  <2>1. s.job = sync.job /\ s.workers = sync.workers /\ s.launcher = sync.launcher
    BY <1>1 DEF SyncType
  <2>2. Goto("cleanup", s) \/ Fails
    BY <1>3 DEF DeleteWorkerPod, EndCall
  <2> HIDE DEF s
  <2> QED
    BY <1>1, <2>1, <2>2
<1>4. CASE DeletePodGroup
  <2> DEFINE s == [sync EXCEPT !.job.status.worker = ZeroCounts, !.ix = 0]
             stage == IF Done(s.job.status) THEN "finish" ELSE "status"
  <2>1. /\ s.job.status.conds = sync.job.status.conds
        /\ s.job.status.completed = sync.job.status.completed
        /\ s.workers = sync.workers /\ s.launcher = sync.launcher
    BY <1>1 DEF SyncType, JobType, StatusType
  <2>2. Goto(stage, s) \/ Fails
    BY <1>4 DEF DeletePodGroup, CleanedUp, EndCall
  <2>3. stage \in {"cleanup", "status", "finish"} /\ (stage = "status" => ~Done(s.job.status))
    OBVIOUS
  <2> HIDE DEF s, stage
  <2> QED
    BY <1>1, <2>1, <2>2, <2>3
<1> QED
  BY <1>2, <1>3, <1>4

LEMMA LateDecides ==
    ASSUME OutcomeInv, AlignLauncher \/ DeleteWorkerPod \/ DeletePodGroup
    PROVE  SyncDecides'
<1>1. TypeInv /\ sync \in SyncType /\ SyncDecides
  BY DEF OutcomeInv, TypeInv, TypeOK
<1>2. CASE Fails
  BY <1>2, EndDecides DEF Fails
<1>3. ASSUME NEW stage \in {"cleanup", "status", "finish"}, NEW s, Goto(stage, s),
             s.job.status.conds = sync.job.status.conds,
             s.job.status.completed = sync.job.status.completed,
             s.launcher.state = sync.launcher.state, s.workers = sync.workers,
             stage = "status" /\ Done(s.job.status) => pc = "align"
      PROVE  SyncDecides'
  <2>1. sync' = s /\ pc' = stage
    BY <1>3 DEF Goto
  <2>2. Exclusive(s.job.status)
    BY <1>1, <1>3 DEF SyncDecides, Exclusive
  <2>3. isJobFinished(s.launcher) <=> isJobFinished(sync.launcher)
    BY <1>3 DEF isJobFinished
  <2>4. stage = "status" => ~Done(s.job.status)
    BY <1>1, <1>3 DEF SyncDecides, Undecided, Stages, Done
  <2> QED
    BY <1>1, <1>3, <2>1, <2>2, <2>3, <2>4 DEF SyncDecides, Undecided, WorkersUnread
<1> QED
  BY <1>1, <1>2, <1>3, LateMoves

\* doUpdateJobStatus writes the status it is given or none.
LEMMA WriteKeeps ==
    ASSUME job \in JobType, Exclusive(job.status),
           NEW status, Exclusive(status), WriteStatus(status)
    PROVE  Exclusive(job'.status) /\ SyncDecides'
<1>1. PICK reply \in Replies(versionCurrent) :
        /\ IF Applied(reply) /\ job.status # status
             THEN job' = [job EXCEPT !.status = status] /\ jobFresh' = {}
             ELSE UNCHANGED <<job, jobFresh>>
        /\ EndCall(reply, Return)
  BY DEF WriteStatus
<1>2. job'.status \in {job.status, status}
  BY <1>1 DEF JobType
<1>3. Return \/ Fails
  BY <1>1 DEF EndCall
<1> QED
  BY <1>2, <1>3, EndDecides DEF Return, Fails, Goto

-----------------------------------------------------------------------------
(* The invariant.                                                          *)

\* No step lets a job report both results, nor a sync decide twice.
LEMMA OutcomeStep == ASSUME OutcomeInv, [Next]_vars PROVE OutcomeInv'
<1>1. TypeInv'
  BY NextType DEF OutcomeInv
<1>2. /\ job \in JobType /\ Exclusive(job.status) /\ Exclusive(jobC.status)
      /\ sync \in SyncType /\ SyncDecides /\ pc \in Stages /\ launcherRunningC \in BOOLEAN
  BY DEF OutcomeInv, TypeInv, TypeOK
<1> SUFFICES Exclusive(job'.status) /\ Exclusive(jobC'.status) /\ SyncDecides'
  BY <1>1 DEF OutcomeInv
<1> USE DEF vars, objectVars, jobVars, controllerVars, budgetVars
<1>3. CASE UNCHANGED <<job, jobC, pc, sync>>
  BY <1>2, <1>3 DEF SyncDecides, Undecided, WorkersUnread
<1>4. CASE SyncStart
  BY <1>2, <1>4, StartDecides DEF SyncStart
<1>5. CASE EnsureDependents \/ GetOrCreatePodGroup \/ ScaleDown \/ GetOrCreateWorker
             \/ CreateLauncher
  <2>1. UNCHANGED <<job, jobC>>
    BY <1>5 DEF EnsureDependents, GetOrCreatePodGroup, updatePodGroup, ScaleDown, GetOrCreateWorker,
       CreateLauncher
  <2> QED
    BY <1>2, <1>5, <2>1, EarlyDecides
<1>6. CASE AlignLauncher \/ DeleteWorkerPod \/ DeletePodGroup
  <2>1. UNCHANGED <<job, jobC>>
    BY <1>6 DEF AlignLauncher, DeleteWorkerPod, DeletePodGroup
  <2> QED
    BY <1>2, <1>6, <2>1, LateDecides
<1>7. CASE UpdateStatus
  <2> DEFINE status == NewJobStatus(sync, launcherRunningC)
  <2>1. Exclusive(status)
    BY <1>2, <1>7, StatusExclusive
       DEF UpdateStatus, SyncDecides, Undecided, WorkersUnread, Stages
  <2> HIDE DEF status
  <2>2. jobC' = jobC /\ ((Return /\ UNCHANGED job) \/ WriteStatus(status))
    BY <1>7 DEF UpdateStatus, status
  <2>3. CASE Return /\ UNCHANGED job
    BY <1>2, <2>2, <2>3, EndDecides DEF Return, Goto
  <2>4. CASE WriteStatus(status)
    BY <1>2, <2>1, <2>2, <2>4, WriteKeeps
  <2> QED
    BY <2>2, <2>3, <2>4
<1>8. CASE UpdateFinishedStatus
  BY <1>2, <1>8, WriteKeeps DEF UpdateFinishedStatus, SyncDecides
<1>9. CASE DeliverJob
  BY <1>2, <1>9 DEF DeliverJob, SyncDecides, Undecided, WorkersUnread
<1>10. CASE DeliverLauncher
  <2>1. /\ sync'.job = sync.job /\ sync'.launcher = sync.launcher
        /\ sync'.workers = sync.workers
    BY <1>2, <1>10 DEF DeliverLauncher, SyncType
  <2> QED
    BY <1>2, <1>10, <2>1 DEF DeliverLauncher, SyncDecides, Undecided, WorkersUnread
<1>11. CASE UserEdit
  <2>1. job'.status = job.status
    BY <1>2, <1>11 DEF UserEdit, JobType
  <2> QED
    BY <1>2, <1>11, <2>1 DEF UserEdit, SyncDecides, Undecided, WorkersUnread
<1>12. CASE Crash
  BY <1>2, <1>12, EndDecides DEF Crash
<1>13. SyncSkip \/ (Deliver /\ ~DeliverJob /\ ~DeliverLauncher)
         \/ (Cluster /\ ~UserEdit /\ ~Crash) => UNCHANGED <<job, jobC, pc, sync>>
  BY DEF SyncSkip, Deliver, DeliverLauncherPod, DeliverPod, DeliverPodGroup, Cluster,
     LauncherPodStart, LauncherPodStop, LauncherFinish, LauncherExpire, PodProgress, PodFault
<1>14. CASE UNCHANGED vars
  BY <1>3, <1>14
<1> QED
  BY <1>3, <1>4, <1>5, <1>6, <1>7, <1>8, <1>9, <1>10, <1>11, <1>12, <1>13, <1>14
     DEF Next, Controller, Deliver, Cluster

\* A new job has no result.
LEMMA InitOutcome == ASSUME Init PROVE OutcomeInv
<1>1. TypeInv
  BY InitType
<1>2. job.status = NewStatus /\ jobC = job
  BY DEF Init
<1>3. Exclusive(NewStatus)
  BY DEF NewStatus, NoConditions, Unset, CondTypes, Exclusive, isSucceeded, hasCondition
<1>4. SyncDecides
  BY <1>3 DEF Init, NoSync, NoLauncher, SyncDecides, Undecided, WorkersUnread, isJobFinished
<1> QED
  BY <1>1, <1>2, <1>3, <1>4 DEF OutcomeInv

\* A job never reports success and failure at once: not when an eviction had
\* marked it Failed before its launcher succeeds, and not when a stale sync
\* meets an evicted worker after the success (updateGroupJobStatus).
THEOREM OutcomeExclusive == Safety => []OutcomeNotBoth
<1>1. OutcomeInv => OutcomeNotBoth
  BY DEF OutcomeInv, Exclusive, OutcomeNotBoth
<1> QED
  BY <1>1, InitOutcome, OutcomeStep, PTL DEF Safety

-----------------------------------------------------------------------------
(* The result of the launcher and the result of the job.                   *)
(*                                                                         *)
(* From here on a launcher Job only expires once the job has been seen     *)
(* completed: with a shorter time to live a sync that still holds an older *)
(* version of the job finds no launcher, and starts it again.              *)
(***************************************************************************)

\* The controller has seen the job completed, in its cache and in its sync.
Observed == jobC.status.completed /\ (pc = "idle" \/ sync.job.status.completed)

SameResult(a, b) ==
    /\ a.completed = b.completed
    /\ a.conds["Succeeded"] = b.conds["Succeeded"]
    /\ a.conds["Failed"] = b.conds["Failed"]

Settled(status) == status.completed => isFinished(status.conds)

\* The cached job and the copy of the sync are the job, or older.
CopiesLag ==
    /\ Settled(job.status) /\ Settled(jobC.status) /\ Settled(sync.job.status)
    /\ jobC.status.completed => job.status.completed
    /\ sync.job.status.completed => job.status.completed
    /\ "cache" \in jobFresh => SameResult(jobC.status, job.status)
    /\ "sync" \in jobFresh /\ pc # "idle" => SameResult(sync.job.status, job.status)

\* Whoever has seen the launcher finished is right, unless it has expired.
EndOf(l) ==
    isJobFinished(l) => l.state = launcher.state \/ (launcher.state = "absent" /\ Observed)

\* What one sync has found out the next one finds in the caches again: the
\* finished launcher or, once that may have expired, the completed job.
EndsKnown ==
    /\ isJobFinished(sync.launcher) => isJobFinished(launcherC) \/ Observed
    /\ job.status.completed => jobC.status.completed \/ isJobFinished(launcherC)

\* A completed job records the result of its launcher.
Recorded ==
    job.status.completed =>
        \/ launcher.state = "complete" /\ isSucceeded(job.status.conds)
        \/ launcher.state = "failed" /\ isFailed(job.status.conds)
        \/ launcher.state = "absent" /\ Observed

\* No sync of a completed job is on its way to create anything.
EarlyUndecided == pc \in Early => ~job.status.completed

ResultInv ==
    /\ CopiesLag /\ EndOf(launcherC) /\ EndOf(sync.launcher)
    /\ EndsKnown /\ Recorded /\ EarlyUndecided

\* A step that leaves the results of the server and of the caches alone.
ObjectsStay ==
    /\ job'.status = job.status /\ jobC'.status = jobC.status
    /\ launcher'.state = launcher.state /\ launcherC'.state = launcherC.state
    /\ jobFresh' \subseteq jobFresh

\* A sync that goes on with the same job, and has not finished its launcher.
SyncStays ==
    /\ pc = "idle" <=> pc' = "idle"
    /\ pc' \in Early => pc \in Early
    /\ SameResult(sync'.job.status, sync.job.status)
    /\ isJobFinished(sync'.launcher) => sync'.launcher.state = sync.launcher.state

\* Between syncs there is nothing to be known.
LEMMA NoSyncKnows ==
    /\ ~NoSync.job.status.completed /\ ~isJobFinished(NoSync.launcher)
    /\ Settled(NoSync.job.status)
BY DEF NoSync, NewStatus, NoLauncher, isJobFinished, Settled

\* Such steps keep the invariant, and so does the end of a sync.
LEMMA SyncStaysResult ==
    ASSUME ResultInv, ObjectsStay, SyncStays
    PROVE  ResultInv'
<1> USE DEF ResultInv, ObjectsStay, SyncStays
<1>1. Observed' <=> Observed
  BY DEF Observed, SameResult
<1>2. CopiesLag'
  BY DEF CopiesLag, SameResult, Settled, isFinished, isSucceeded, isFailed, hasCondition
<1>3. EndOf(launcherC)' /\ EndOf(sync.launcher)'
  BY <1>1 DEF EndOf, isJobFinished
<1>4. EndsKnown'
  BY <1>1 DEF EndsKnown, isJobFinished
<1>5. Recorded' /\ EarlyUndecided'
  BY <1>1 DEF Recorded, EarlyUndecided
<1> QED
  BY <1>2, <1>3, <1>4, <1>5

LEMMA SyncEndsResult ==
    ASSUME ResultInv, ObjectsStay, pc' = "idle", sync' = NoSync
    PROVE  ResultInv'
<1> USE NoSyncKnows DEF ResultInv, ObjectsStay
<1>1. Observed => Observed'
  BY DEF Observed
<1>2. CopiesLag'
  BY DEF CopiesLag, SameResult
<1>3. EndOf(launcherC)' /\ EndOf(sync.launcher)'
  BY <1>1 DEF EndOf, isJobFinished
<1>4. EndsKnown'
  BY DEF EndsKnown, isJobFinished
<1>5. Recorded' /\ EarlyUndecided'
  BY <1>1 DEF Recorded, EarlyUndecided, Early
<1> QED
  BY <1>2, <1>3, <1>4, <1>5

\* The calls of a sync but for the creation of the launcher and the status update.
LEMMA CallsResult ==
    ASSUME TypeInv, ResultInv,
           \/ EnsureDependents \/ GetOrCreatePodGroup \/ ScaleDown \/ GetOrCreateWorker
           \/ AlignLauncher \/ DeleteWorkerPod \/ DeletePodGroup
    PROVE  ResultInv'
<1>1. ObjectsStay
  BY DEF TypeInv, TypeOK, JobType, LauncherType, ObjectsStay, objectVars, jobVars, launcherVars,
     EnsureDependents, GetOrCreatePodGroup, updatePodGroup, ScaleDown, GetOrCreateWorker,
     AlignLauncher, DeleteWorkerPod, DeletePodGroup
<1>2. Fails \/ SyncStays
  <2>1. CASE EnsureDependents \/ GetOrCreatePodGroup \/ ScaleDown \/ GetOrCreateWorker
    <3>1. ASSUME NEW stage \in Stages \ {"idle"}, NEW s, Goto(stage, s), s.job = sync.job,
                 s.launcher.state \in {sync.launcher.state, "active"}
          PROVE  SyncStays
      BY <2>1, <3>1, EarlyMoves DEF Goto, SyncStays, SameResult, isJobFinished, Early
    <3> QED
      BY <2>1, <3>1, EarlyMoves
  <2>2. CASE AlignLauncher \/ DeleteWorkerPod \/ DeletePodGroup
    <3>1. ASSUME NEW stage \in {"cleanup", "status", "finish"}, NEW s, Goto(stage, s),
                 s.job.status.conds = sync.job.status.conds,
                 s.job.status.completed = sync.job.status.completed,
                 s.launcher.state = sync.launcher.state
          PROVE  SyncStays
      BY <2>2, <3>1, LateMoves DEF Goto, SyncStays, SameResult, Early
    <3> QED
      BY <2>2, <3>1, LateMoves
  <2> QED
    BY <2>1, <2>2
<1>3. CASE Fails
  BY <1>1, <1>3, SyncEndsResult DEF Fails
<1>4. CASE SyncStays
  BY <1>1, <1>4, SyncStaysResult
<1> QED
  BY <1>2, <1>3, <1>4

\* The server applies no call that it does not accept.
LEMMA AppliedCall ==
    ASSUME NEW accepted, NEW reply \in Replies(accepted), Applied(reply)
    PROVE  accepted
BY DEF Replies, Applied, CallFaults

LEMMA CreateLauncherResult ==
    ASSUME TypeInv, ResultInv, CreateLauncher
    PROVE  ResultInv'
<1>1. /\ pc = "launch" /\ ~job.status.completed /\ ~jobC.status.completed /\ ~Observed
  BY DEF CreateLauncher, ResultInv, EarlyUndecided, Early, CopiesLag, Observed
<1>2. UNCHANGED <<job, jobC, jobFresh, launcherC>>
  BY DEF CreateLauncher, jobVars
<1>3. \/ launcher'.state = launcher.state
      \/ launcher.state = "absent" /\ launcher'.state = "active"
  <2>1. PICK reply \in Replies(launcher.state = "absent") :
            IF Applied(reply)
              THEN launcher' = [state |-> "active", suspend |-> sync.job.spec.suspend]
              ELSE UNCHANGED launcher
    BY DEF CreateLauncher
  <2>2. Applied(reply) => launcher.state = "absent"
    BY AppliedCall
  <2> QED
    BY <2>1, <2>2
<1>4. Fails \/ SyncStays
  BY EarlyMoves, <1>1 DEF Goto, SyncStays, SameResult, isJobFinished, Early
<1>5. CASE launcher'.state = launcher.state
  <2>1. ObjectsStay
    BY <1>2, <1>5 DEF ObjectsStay
  <2> QED
    BY <1>4, <2>1, SyncEndsResult, SyncStaysResult DEF Fails
<1>6. CASE launcher.state = "absent" /\ launcher'.state = "active"
  <2>1. ~isJobFinished(launcherC) /\ ~isJobFinished(sync.launcher)
    BY <1>1, <1>6 DEF ResultInv, EndOf, isJobFinished
  <2>2. CopiesLag'
    BY <1>2, <1>4, NoSyncKnows
       DEF ResultInv, CopiesLag, Fails, SyncStays, SameResult, Settled, isFinished, isSucceeded,
           isFailed, hasCondition
  <2>3. ~isJobFinished(launcherC') /\ ~isJobFinished(sync'.launcher)
    BY <1>2, <1>4, <2>1, NoSyncKnows DEF Fails, SyncStays, isJobFinished
  <2>4. ~job'.status.completed
    BY <1>1, <1>2
  <2> QED
    BY <2>2, <2>3, <2>4 DEF ResultInv, EndOf, EndsKnown, Recorded, EarlyUndecided
<1> QED
  BY <1>3, <1>5, <1>6

\* A sync starts from the caches.
LEMMA SyncStartResult ==
    ASSUME OutcomeInv, ResultInv, SyncStart
    PROVE  ResultInv'
<1>1. /\ UNCHANGED <<job, jobC, launcher, launcherC>>
      /\ pc = "idle" /\ pc' # "idle" /\ jobC \in JobType
      /\ "cache" \in jobFresh' \/ "sync" \in jobFresh' => "cache" \in jobFresh
  BY DEF SyncStart, OutcomeInv, TypeInv, TypeOK, AfterLaunch, AfterAlign, Holders
<1>2. /\ SameResult(sync'.job.status, jobC.status)
      /\ isJobFinished(sync'.launcher) => sync'.launcher = launcherC
      /\ pc' \in Early => ~Done(jobC.status) /\ ~isJobFinished(launcherC)
  <2> DEFINE s == [NoSync EXCEPT !.job = Prepared(jobC), !.launcher = launcherC,
                                 !.cached = launcherC.state # "absent"]
  <2>1. s.job = Prepared(jobC) /\ s.launcher = launcherC
    BY DEF NoSync
  <2>2. LET t == [s EXCEPT !.launcher = NoLauncher, !.cached = FALSE]
        IN t.job = Prepared(jobC) /\ t.launcher = NoLauncher
    BY DEF NoSync
  <2> HIDE DEF s
  <2>3. \/ /\ Done(jobC.status) /\ pc' = "cleanup"
           /\ sync' = [s EXCEPT !.launcher = NoLauncher, !.cached = FALSE]
        \/ /\ ~Done(jobC.status) /\ sync' = s
           /\ pc' = IF isJobFinished(launcherC) THEN AfterLaunch(s) ELSE "deps"
    BY DEF SyncStart, s
  <2>4. AfterLaunch(s) \notin Early
    BY DEF AfterLaunch, AfterAlign, Early
  <2>5. SameResult(Prepared(jobC).status, jobC.status)
    BY <1>1, PreparedKeeps DEF SameResult
  <2>6. ~isJobFinished(NoLauncher)
    BY DEF NoLauncher, isJobFinished
  <2> QED
    BY <2>1, <2>2, <2>3, <2>4, <2>5, <2>6 DEF Early
<1>3. CopiesLag'
  BY <1>1, <1>2
     DEF ResultInv, CopiesLag, SameResult, Settled, isFinished, isSucceeded, isFailed, hasCondition
<1>4. Observed' <=> Observed
  BY <1>1, <1>2 DEF Observed, SameResult
<1>5. EndOf(launcherC)' /\ EndOf(sync.launcher)' /\ EndsKnown' /\ Recorded'
  BY <1>1, <1>2, <1>4 DEF ResultInv, EndOf, EndsKnown, Recorded
<1>6. EarlyUndecided'
  BY <1>1, <1>2 DEF ResultInv, EarlyUndecided, EndsKnown, CopiesLag, Settled, Done
<1> QED
  BY <1>3, <1>5, <1>6 DEF ResultInv

\* The status that a sync computes from a finished launcher records its result.
LEMMA StatusRecords ==
    ASSUME NEW s \in SyncType, NEW podRunning \in BOOLEAN,
           Exclusive(s.job.status), ~Done(s.job.status), ~s.job.status.completed,
           isJobFinished(s.launcher) => \A i \in Index : s.workers[i] = "absent"
    PROVE  LET new == NewJobStatus(s, podRunning) IN
           /\ new.completed => isJobFinished(s.launcher)
           /\ s.launcher.state = "complete" => isSucceeded(new.conds)
           /\ s.launcher.state = "failed" => isFailed(new.conds)
<1> DEFINE spec == s.job.spec
           old == s.job.status
           allRunning == /\ launcherPodsRun(s, podRunning)
                         /\ HowMany(s, {"Running", "Ready"}) = Cardinality(Members(s))
           suspended == SuspendedCond(old.conds, spec)
           outcome == OutcomeCond(suspended, s.launcher)
           evicted == EvictedCond(outcome, s.workers)
           running == RunningCond(evicted, spec, allRunning)
           new == NewJobStatus(s, podRunning)
<1>1. old.conds \in Conditions
  BY DEF SyncType, JobType, StatusType
<1>2. suspended \in Conditions
  BY <1>1, SetType DEF SuspendedCond, CondTypes, Reasons
<1>3. outcome \in Conditions
  BY <1>2, SetType DEF OutcomeCond, CondTypes, Reasons
<1>4. evicted \in Conditions
  BY <1>3, SetType DEF EvictedCond, CondTypes, Reasons
<1>5. /\ new.conds = running
      /\ new.completed => s.launcher.state \in {"complete", "failed"}
  BY DEF NewJobStatus
<1>6. /\ running["Succeeded"] = evicted["Succeeded"]
      /\ running["Failed"] = evicted["Failed"]
  BY <1>4, SetOther DEF RunningCond
<1>7. ~isSucceeded(suspended)
  BY <1>1, SetOther DEF SuspendedCond, Exclusive, isSucceeded, hasCondition
<1>8. isJobFinished(s.launcher) => evicted = outcome
  BY DEF EvictedCond
<1>9. s.launcher.state = "complete" => isSucceeded(outcome)
  <2> HIDE DEF suspended
  <2> QED
    BY <1>2, <1>7, SetSucceeded DEF OutcomeCond
<1>10. s.launcher.state = "failed" => isFailed(outcome)
  <2> HIDE DEF suspended
  <2> QED
    BY <1>2, SetFailed DEF OutcomeCond
<1> HIDE DEF suspended, outcome, evicted, running, new, allRunning
<1>11. /\ new.completed => isJobFinished(s.launcher)
       /\ s.launcher.state = "complete" => isSucceeded(new.conds)
       /\ s.launcher.state = "failed" => isFailed(new.conds)
  BY <1>5, <1>6, <1>8, <1>9, <1>10 DEF isJobFinished, isSucceeded, isFailed, hasCondition
<1> QED
  BY <1>11 DEF new

\* A status may be written if it records the result, and forgets none.
Writable(status) ==
    /\ Settled(status)
    /\ job.status.completed => status.completed
    /\ status.completed =>
        /\ jobC.status.completed \/ isJobFinished(launcherC)
        /\ \/ launcher.state = "complete" /\ isSucceeded(status.conds)
           \/ launcher.state = "failed" /\ isFailed(status.conds)
           \/ launcher.state = "absent" /\ jobC.status.completed

LEMMA WriteResult ==
    ASSUME job \in JobType, ResultInv, UNCHANGED <<jobC, launcher, launcherC>>,
           NEW status, WriteStatus(status), versionCurrent => Writable(status)
    PROVE  ResultInv'
<1>1. PICK reply \in Replies(versionCurrent) :
        /\ IF Applied(reply) /\ job.status # status
             THEN job' = [job EXCEPT !.status = status] /\ jobFresh' = {}
             ELSE UNCHANGED <<job, jobFresh>>
        /\ EndCall(reply, Return)
  BY DEF WriteStatus
<1>2. pc' = "idle" /\ sync' = NoSync
  BY <1>1 DEF EndCall, Return, Goto, Fails
<1>3. CASE UNCHANGED <<job, jobFresh>>
  BY <1>2, <1>3, SyncEndsResult DEF ObjectsStay
<1>4. CASE ~UNCHANGED <<job, jobFresh>>
  <2>1. job'.status = status /\ jobFresh' = {} /\ Writable(status)
    <3>1. Applied(reply) /\ job' = [job EXCEPT !.status = status] /\ jobFresh' = {}
      BY <1>1, <1>4
    <3>2. versionCurrent
      BY <3>1, AppliedCall
    <3> QED
      BY <3>1, <3>2 DEF JobType
  <2>2. Observed' <=> jobC.status.completed
    BY <1>2 DEF Observed
  <2>3. CopiesLag' /\ EarlyUndecided'
    BY <1>2, <2>1, NoSyncKnows DEF ResultInv, CopiesLag, EarlyUndecided, Early, Writable
  <2>4. EndOf(launcherC)' /\ EndOf(sync.launcher)' /\ EndsKnown' /\ Recorded'
    BY <1>2, <2>1, <2>2, NoSyncKnows DEF ResultInv, EndOf, EndsKnown, Recorded, Writable, Observed
  <2> QED
    BY <2>3, <2>4 DEF ResultInv
<1> QED
  BY <1>3, <1>4

LEMMA UpdateStatusResult ==
    ASSUME OutcomeInv, ResultInv, UpdateStatus
    PROVE  ResultInv'
<1> DEFINE status == NewJobStatus(sync, launcherRunningC)
<1>1. /\ job \in JobType /\ sync \in SyncType /\ launcherRunningC \in BOOLEAN
      /\ pc = "status" /\ UNCHANGED <<jobC, launcher, launcherC>>
  BY DEF OutcomeInv, TypeInv, TypeOK, UpdateStatus, launcherVars
<1>2. /\ Exclusive(sync.job.status) /\ ~Done(sync.job.status) /\ ~sync.job.status.completed
      /\ isJobFinished(sync.launcher) => \A i \in Index : sync.workers[i] = "absent"
  BY <1>1 DEF OutcomeInv, SyncDecides, Undecided, WorkersUnread, Stages, ResultInv, CopiesLag,
              Settled, Done
<1>3. /\ status.completed => isJobFinished(sync.launcher)
      /\ sync.launcher.state = "complete" => isSucceeded(status.conds)
      /\ sync.launcher.state = "failed" => isFailed(status.conds)
  BY <1>1, <1>2, StatusRecords
<1> HIDE DEF status
<1>4. ~Observed
  BY <1>1, <1>2 DEF Observed
<1>5. versionCurrent => Writable(status)
  <2>1. Settled(status)
    BY <1>3 DEF Settled, isFinished, isJobFinished
  <2> QED
    BY <1>1, <1>2, <1>3, <1>4, <2>1
       DEF versionCurrent, Writable, ResultInv, CopiesLag, SameResult, EndOf, EndsKnown,
           isJobFinished
<1>6. (Return /\ UNCHANGED <<job, jobFresh>>) \/ WriteStatus(status)
  BY DEF UpdateStatus, status
<1>7. CASE Return /\ UNCHANGED <<job, jobFresh>>
  BY <1>1, <1>7, SyncEndsResult DEF ObjectsStay, Return, Goto
<1>8. CASE WriteStatus(status)
  BY <1>1, <1>5, <1>8, WriteResult
<1> QED
  BY <1>6, <1>7, <1>8

LEMMA UpdateFinishedStatusResult ==
    ASSUME TypeInv, ResultInv, UpdateFinishedStatus
    PROVE  ResultInv'
<1>1. /\ job \in JobType /\ pc = "finish" /\ UNCHANGED <<jobC, launcher, launcherC>>
      /\ WriteStatus(sync.job.status)
  BY DEF TypeInv, TypeOK, UpdateFinishedStatus, launcherVars
<1>2. versionCurrent => Writable(sync.job.status)
  BY <1>1 DEF versionCurrent, Writable, ResultInv, CopiesLag, SameResult, EndsKnown, Recorded,
              Observed, isSucceeded, isFailed, hasCondition
<1> QED
  BY <1>1, <1>2, WriteResult

\* The informers bring the caches up to date.
LEMMA DeliverResult == ASSUME OutcomeInv, ResultInv, Deliver PROVE ResultInv'
<1>1. CASE DeliverJob
  <2>1. /\ UNCHANGED <<job, launcher, launcherC, pc, sync>>
        /\ jobC' = job /\ jobFresh' = jobFresh \cup {"cache"}
    BY <1>1 DEF DeliverJob, launcherVars
  <2>2. Observed => Observed'
    BY <2>1 DEF Observed, ResultInv, CopiesLag
  <2>3. CopiesLag'
    BY <2>1 DEF ResultInv, CopiesLag, SameResult
  <2>4. EndOf(launcherC)' /\ EndOf(sync.launcher)' /\ EndsKnown' /\ Recorded' /\ EarlyUndecided'
    BY <2>1, <2>2 DEF ResultInv, EndOf, EndsKnown, Recorded, EarlyUndecided
  <2> QED
    BY <2>3, <2>4 DEF ResultInv
<1>2. CASE DeliverLauncher
  <2>1. /\ UNCHANGED <<job, jobC, jobFresh, launcher, pc>> /\ launcherC' = launcher
        /\ sync'.job = sync.job /\ sync'.launcher = sync.launcher
    BY <1>2 DEF DeliverLauncher, jobVars, OutcomeInv, TypeInv, TypeOK, SyncType
  <2>2. Observed' <=> Observed
    BY <2>1 DEF Observed
  <2>3. CopiesLag' /\ EarlyUndecided' /\ Recorded' /\ EndOf(launcherC)' /\ EndOf(sync.launcher)'
    BY <2>1, <2>2 DEF ResultInv, CopiesLag, EarlyUndecided, Recorded, EndOf
  <2>4. EndsKnown'
    BY <2>1, <2>2 DEF ResultInv, EndsKnown, EndOf, Recorded, Observed, isJobFinished
  <2> QED
    BY <2>3, <2>4 DEF ResultInv
<1>3. CASE DeliverLauncherPod \/ DeliverPod \/ DeliverPodGroup
  <2>1. ObjectsStay /\ UNCHANGED <<pc, sync>>
    BY <1>3 DEF DeliverLauncherPod, DeliverPod, DeliverPodGroup, ObjectsStay, jobVars, launcherVars
  <2> QED
    BY <2>1, SyncStaysResult DEF SyncStays, SameResult
<1> QED
  BY <1>1, <1>2, <1>3 DEF Deliver

\* What happens in the cluster: the launcher Job ends once, and expires when its
\* job has been seen completed.
LEMMA ClusterResult ==
    ASSUME LauncherTTL # "any", OutcomeInv, ResultInv, Cluster
    PROVE  ResultInv'
<1>1. CASE LauncherFinish
  <2>1. /\ UNCHANGED <<job, jobC, jobFresh, launcherC, pc, sync>> /\ launcher.state = "active"
        /\ launcher'.state \in {"complete", "failed"}
    BY <1>1 DEF LauncherFinish, jobVars, controllerVars, OutcomeInv, TypeInv, TypeOK, LauncherType
  <2>2. ~job.status.completed /\ ~isJobFinished(launcherC) /\ ~isJobFinished(sync.launcher)
    BY <2>1 DEF ResultInv, Recorded, EndOf, isJobFinished
  <2> QED
    BY <2>1, <2>2 DEF ResultInv, CopiesLag, EndOf, EndsKnown, Recorded, EarlyUndecided, SameResult
<1>2. CASE LauncherExpire
  <2>1. /\ UNCHANGED <<job, jobC, jobFresh, launcherC, pc, sync>> /\ isJobFinished(launcher)
        /\ launcher'.state = "absent" /\ Observed
    BY <1>2, FlagsAssumption
       DEF LauncherExpire, jobVars, controllerVars, NoLauncher, Observed
  <2>2. Observed'
    BY <2>1 DEF Observed
  <2> QED
    BY <2>1, <2>2 DEF ResultInv, CopiesLag, EndOf, EndsKnown, Recorded, EarlyUndecided, Observed
<1>3. CASE UserEdit
  <2>1. ObjectsStay /\ UNCHANGED <<pc, sync>>
    BY <1>3 DEF UserEdit, ObjectsStay, launcherVars, controllerVars, OutcomeInv, TypeInv, TypeOK,
                JobType
  <2> QED
    BY <2>1, SyncStaysResult DEF SyncStays, SameResult
<1>4. CASE Crash
  <2>1. /\ UNCHANGED <<job, launcher>> /\ jobC' = job /\ launcherC' = launcher
        /\ pc' = "idle" /\ sync' = NoSync
    BY <1>4 DEF Crash
  <2>2. Observed => job.status.completed
    BY DEF Observed, ResultInv, CopiesLag
  <2>3. CopiesLag' /\ EarlyUndecided'
    BY <2>1, NoSyncKnows DEF ResultInv, CopiesLag, EarlyUndecided, Early, SameResult
  <2>4. EndOf(launcherC)' /\ EndOf(sync.launcher)' /\ EndsKnown'
    BY <2>1, NoSyncKnows DEF EndOf, EndsKnown
  <2>5. Recorded'
    BY <2>1 DEF ResultInv, Recorded, Observed
  <2> QED
    BY <2>3, <2>4, <2>5 DEF ResultInv
<1>5. CASE LauncherPodStart \/ LauncherPodStop \/ PodProgress \/ PodFault
  <2>1. ObjectsStay /\ UNCHANGED <<pc, sync>>
    BY <1>5 DEF LauncherPodStart, LauncherPodStop, PodProgress, PodFault, ObjectsStay, jobVars,
                launcherVars, controllerVars
  <2> QED
    BY <2>1, SyncStaysResult DEF SyncStays, SameResult
<1> QED
  BY <1>1, <1>2, <1>3, <1>4, <1>5 DEF Cluster

\* Every step keeps what the copies of the job and of the launcher say of them.
LEMMA ResultStep ==
    ASSUME LauncherTTL # "any", OutcomeInv, ResultInv, [Next]_vars
    PROVE  ResultInv'
<1>1. CASE SyncSkip \/ UNCHANGED vars
  <2>1. ObjectsStay /\ UNCHANGED <<pc, sync>>
    BY <1>1 DEF SyncSkip, ObjectsStay, vars, objectVars, jobVars, launcherVars, controllerVars
  <2> QED
    BY <2>1, SyncStaysResult DEF SyncStays, SameResult
<1>2. CASE EnsureDependents \/ GetOrCreatePodGroup \/ ScaleDown \/ GetOrCreateWorker
             \/ AlignLauncher \/ DeleteWorkerPod \/ DeletePodGroup
  BY <1>2, CallsResult DEF OutcomeInv
<1> QED
  BY <1>1, <1>2, SyncStartResult, CreateLauncherResult, UpdateStatusResult,
     UpdateFinishedStatusResult, DeliverResult, ClusterResult
     DEF Next, Controller, OutcomeInv

\* A new job has no result, and nobody has seen one.
LEMMA InitResult == ASSUME Init PROVE ResultInv
<1>1. /\ job.status = NewStatus /\ jobC = job /\ pc = "idle" /\ sync = NoSync
      /\ launcher = NoLauncher /\ launcherC = NoLauncher
  BY DEF Init
<1>2. ~NewStatus.completed /\ ~isJobFinished(NoLauncher)
  BY DEF NewStatus, NoLauncher, isJobFinished
<1> QED
  BY <1>1, <1>2, NoSyncKnows
     DEF ResultInv, CopiesLag, Settled, SameResult, EndOf, EndsKnown, Recorded, EarlyUndecided,
         Early

\* The two invariants hold throughout.
THEOREM ResultInvariant ==
    ASSUME LauncherTTL # "any"
    PROVE  Safety => [](OutcomeInv /\ ResultInv)
<1>1. Init => OutcomeInv /\ ResultInv
  BY InitOutcome, InitResult
<1>2. OutcomeInv /\ ResultInv /\ [Next]_vars => OutcomeInv' /\ ResultInv'
  BY OutcomeStep, ResultStep
<1> QED
  BY <1>1, <1>2, PTL DEF Safety

-----------------------------------------------------------------------------
(* What a completed job keeps.                                             *)

\* The launcher Job only comes and goes in three kinds of steps.
LEMMA LauncherMoves ==
    ASSUME TypeInv, [Next]_vars
    PROVE  \/ launcher'.state = launcher.state
           \/ CreateLauncher /\ launcher.state = "absent" /\ launcher'.state = "active"
           \/ /\ LauncherFinish /\ launcher.state = "active"
              /\ launcher'.state \in {"complete", "failed"}
           \/ LauncherExpire /\ isJobFinished(launcher) /\ launcher'.state = "absent"
<1>1. launcher \in LauncherType
  BY DEF TypeInv, TypeOK
<1>2. CASE CreateLauncher
  <2>1. PICK reply \in Replies(launcher.state = "absent") :
            IF Applied(reply)
              THEN launcher' = [state |-> "active", suspend |-> sync.job.spec.suspend]
              ELSE UNCHANGED launcher
    BY <1>2 DEF CreateLauncher
  <2>2. Applied(reply) => launcher.state = "absent"
    BY AppliedCall
  <2> QED
    BY <1>2, <2>1, <2>2
<1>3. CASE AlignLauncher
  <2>1. \/ launcher' = [launcher EXCEPT !.suspend = sync.job.spec.suspend]
        \/ launcher' = launcher
    BY <1>3 DEF AlignLauncher
  <2> QED
    BY <1>1, <2>1 DEF LauncherType
<1>4. CASE LauncherFinish
  BY <1>1, <1>4 DEF LauncherFinish, LauncherType
<1>5. CASE LauncherExpire
  BY <1>5 DEF LauncherExpire, NoLauncher
<1>6. CASE UNCHANGED launcher
  BY <1>6
<1>7. \/ UNCHANGED launcher
      \/ CreateLauncher \/ AlignLauncher \/ LauncherFinish \/ LauncherExpire
  BY DEF Next, Controller, SyncSkip, SyncStart, EnsureDependents, GetOrCreatePodGroup,
     updatePodGroup, ScaleDown, GetOrCreateWorker, DeleteWorkerPod, DeletePodGroup, UpdateStatus,
     UpdateFinishedStatus, Deliver, DeliverJob, DeliverLauncher, DeliverLauncherPod, DeliverPod,
     DeliverPodGroup, Cluster, UserEdit, LauncherPodStart, LauncherPodStop, PodProgress,
     PodFault, Crash, vars, objectVars, launcherVars
<1> QED
  BY <1>2, <1>3, <1>4, <1>5, <1>6, <1>7

\* The launcher of a completed job is not started again: a sync that is about
\* to create it works on a job that has no result yet.
THEOREM LauncherStartsOnce ==
    ASSUME LauncherTTL # "any"
    PROVE  Safety => NoRelaunch
<1> DEFINE A == job.status.completed /\ launcher.state = "absent" => launcher'.state = "absent"
<1>1. OutcomeInv /\ ResultInv /\ [Next]_vars => [A]_vars
  <2> SUFFICES ASSUME OutcomeInv, ResultInv, [Next]_vars, job.status.completed,
                      launcher.state = "absent"
               PROVE  launcher'.state = "absent"
    OBVIOUS
  <2>1. ~CreateLauncher
    BY DEF CreateLauncher, ResultInv, EarlyUndecided, Early
  <2> QED
    BY <2>1, LauncherMoves DEF OutcomeInv, isJobFinished
<1> QED
  BY <1>1, ResultInvariant, PTL DEF Safety, NoRelaunch

\* No worker pod is created for a completed job, for the same reason.
THEOREM WorkersEndWithJob ==
    ASSUME LauncherTTL # "any"
    PROVE  Safety => NoWorkerAfterCompletion
<1> DEFINE A == job.status.completed =>
                   \A i \in Index : pods[i] = "absent" => pods'[i] = "absent"
<1>1. OutcomeInv /\ ResultInv /\ [Next]_vars => [A]_vars
  <2> SUFFICES ASSUME OutcomeInv, ResultInv, [Next]_vars, job.status.completed,
                      NEW i \in Index, pods[i] = "absent"
               PROVE  pods'[i] = "absent"
    OBVIOUS
  <2>1. pods \in [Index -> PodPhases] /\ ~GetOrCreateWorker
    BY DEF GetOrCreateWorker, ResultInv, EarlyUndecided, Early, OutcomeInv, TypeInv, TypeOK
  <2>2. ASSUME NEW k, SetPod(k, "absent") PROVE pods'[i] = "absent"
    BY <2>1, <2>2 DEF SetPod
  <2>3. CASE ScaleDown \/ DeleteWorkerPod
    BY <2>2, <2>3 DEF ScaleDown, DeleteWorkerPod
  <2>4. CASE PodProgress \/ PodFault
    BY <2>1, <2>4 DEF PodProgress, PodFault, SetPod
  <2>5. \/ UNCHANGED pods
        \/ ScaleDown \/ DeleteWorkerPod \/ GetOrCreateWorker \/ PodProgress \/ PodFault
    BY DEF Next, Controller, SyncSkip, SyncStart, EnsureDependents, GetOrCreatePodGroup,
       CreateLauncher, AlignLauncher, DeletePodGroup, UpdateStatus, UpdateFinishedStatus,
       Deliver, DeliverJob, DeliverLauncher, DeliverLauncherPod, DeliverPod, DeliverPodGroup,
       Cluster, UserEdit, LauncherPodStart, LauncherPodStop, LauncherFinish, LauncherExpire,
       Crash, vars, objectVars, podVars
  <2> QED
    BY <2>1, <2>3, <2>4, <2>5
<1> QED
  BY <1>1, ResultInvariant, PTL DEF Safety, NoWorkerAfterCompletion

-----------------------------------------------------------------------------
(* The controller keeps the promise of JobOutcome.                         *)

\* Only the two status updates of the controller change the status.
LEMMA StatusMoves ==
    ASSUME TypeInv, [Next]_vars
    PROVE  job'.status = job.status \/ UpdateStatus \/ UpdateFinishedStatus
<1>1. CASE UserEdit
  BY <1>1 DEF UserEdit, TypeInv, TypeOK, JobType
<1>2. UNCHANGED job \/ UpdateStatus \/ UpdateFinishedStatus \/ UserEdit
  BY DEF Next, Controller, SyncSkip, SyncStart, EnsureDependents, GetOrCreatePodGroup,
     updatePodGroup, ScaleDown, GetOrCreateWorker, CreateLauncher, AlignLauncher,
     DeleteWorkerPod, DeletePodGroup, Deliver, DeliverJob, DeliverLauncher, DeliverLauncherPod,
     DeliverPod, DeliverPodGroup, Cluster, LauncherPodStart, LauncherPodStop, LauncherFinish,
     LauncherExpire, PodProgress, PodFault, Crash, vars, objectVars, jobVars
<1> QED
  BY <1>1, <1>2

\* A sync that updates the status of a completed job writes the result that
\* the status already records.
LEMMA CompletedStays ==
    ASSUME OutcomeInv, ResultInv, [Next]_vars, job.status.completed
    PROVE  SameResult(job'.status, job.status)
<1>1. job \in JobType /\ TypeInv
  BY DEF OutcomeInv, TypeInv, TypeOK
<1>2. ASSUME NEW status, WriteStatus(status),
             versionCurrent => SameResult(status, job.status)
      PROVE  SameResult(job'.status, job.status)
  <2>1. PICK reply \in Replies(versionCurrent) :
            IF Applied(reply) /\ job.status # status
              THEN job' = [job EXCEPT !.status = status] /\ jobFresh' = {}
              ELSE UNCHANGED <<job, jobFresh>>
    BY <1>2 DEF WriteStatus
  <2>2. Applied(reply) => versionCurrent
    BY AppliedCall
  <2>3. job' = job \/ (job'.status = status /\ versionCurrent)
    BY <1>1, <2>1, <2>2 DEF JobType
  <2> QED
    BY <1>2, <2>3 DEF SameResult
<1>3. CASE UpdateStatus
  <2>1. ~versionCurrent
    BY <1>3 DEF UpdateStatus, versionCurrent, OutcomeInv, SyncDecides, Undecided, Stages, Done,
                ResultInv, CopiesLag, SameResult, Settled
  <2>2. UNCHANGED job \/ WriteStatus(NewJobStatus(sync, launcherRunningC))
    BY <1>3 DEF UpdateStatus
  <2> QED
    BY <1>2, <2>1, <2>2 DEF SameResult
<1>4. CASE UpdateFinishedStatus
  BY <1>2, <1>4 DEF UpdateFinishedStatus, versionCurrent, ResultInv, CopiesLag
<1>5. CASE job'.status = job.status
  BY <1>5 DEF SameResult
<1> QED
  BY <1>1, <1>3, <1>4, <1>5, StatusMoves

\* The result a job reports and that of its launcher, before and after the job
\* is completed.
ResultsAgree ==
    /\ ~job.status.completed =>
         /\ reportedResult = "none"
         /\ launcher.state = "complete" => launcherResult = "Succeeded"
         /\ launcher.state = "failed" => launcherResult = "Failed"
         /\ ~isJobFinished(launcher) => launcherResult = "none"
    /\ job.status.completed =>
         /\ reportedResult \in {"Succeeded", "Failed"}
         /\ launcherResult = reportedResult

LEMMA InvAgree == OutcomeInv /\ ResultInv => ResultsAgree
<1> SUFFICES ASSUME OutcomeInv, ResultInv PROVE ResultsAgree
  OBVIOUS
<1>1. /\ Exclusive(job.status) /\ Recorded /\ Settled(job.status)
  BY DEF OutcomeInv, ResultInv, CopiesLag
<1> QED
  BY <1>1 DEF Exclusive, Recorded, Settled, isFinished, isJobFinished, reportedResult,
              launcherResult, ResultsAgree

\* The end of the launcher is the abstract end; the status update that
\* completes the job reports it; nothing else is to be seen.
LEMMA OutcomeNext ==
    ASSUME LauncherTTL # "any", OutcomeInv, ResultInv, [Next]_vars
    PROVE  [Outcome!Next]_(Outcome!vars)
<1>1. OutcomeInv' /\ ResultInv' /\ TypeInv
  BY OutcomeStep, ResultStep DEF OutcomeInv
<1>2. ResultsAgree'
  BY <1>1, InvAgree, PTL
<1>3. ResultsAgree
  BY InvAgree
<1> USE DEF Outcome!Next, Outcome!vars, Outcome!Finish, Outcome!Report, Outcome!Results,
            ResultsAgree
<1>4. CASE job.status.completed
  <2>1. SameResult(job'.status, job.status)
    BY <1>4, CompletedStays
  <2>2. reportedResult' = reportedResult
    BY <2>1 DEF reportedResult, SameResult, isSucceeded, isFailed, hasCondition
  <2> QED
    BY <1>2, <1>3, <1>4, <2>1, <2>2 DEF SameResult
<1>5. CASE ~job.status.completed /\ ~job'.status.completed
  <2>1. CASE launcher'.state = launcher.state
    BY <1>5, <2>1 DEF reportedResult, launcherResult
  <2>2. CASE launcher.state = "absent" /\ launcher'.state = "active"
    BY <1>2, <1>3, <1>5, <2>2 DEF isJobFinished
  <2>3. CASE launcher.state = "active" /\ launcher'.state \in {"complete", "failed"}
    BY <1>2, <1>3, <1>5, <2>3 DEF isJobFinished
  <2>4. ~LauncherExpire
    BY <1>5, FlagsAssumption DEF LauncherExpire, ResultInv, CopiesLag
  <2> QED
    BY <1>1, <2>1, <2>2, <2>3, <2>4, LauncherMoves
<1>6. CASE ~job.status.completed /\ job'.status.completed
  <2>1. UNCHANGED <<launcher, jobC>>
    BY <1>1, <1>6, StatusMoves DEF UpdateStatus, UpdateFinishedStatus, launcherVars
  <2>2. isJobFinished(launcher)
    BY <1>1, <1>6, <2>1 DEF ResultInv, Recorded, Observed, CopiesLag, isJobFinished
  <2>3. launcherResult' = launcherResult /\ launcherResult \in {"Succeeded", "Failed"}
    BY <2>1, <2>2 DEF isJobFinished, launcherResult
  <2> QED
    BY <1>2, <1>3, <1>6, <2>3
<1> QED
  BY <1>4, <1>5, <1>6

\* Whatever the caches, retries, lost replies and restarts do, the job reports
\* the result of its launcher, once and for good: everything ReportsOutcome says
\* except that it is reported in the end.
THEOREM ImplementsJobOutcome ==
    ASSUME LauncherTTL # "any"
    PROVE  Safety => Outcome!Safety
<1>1. Init => Outcome!Init
  <2> SUFFICES ASSUME Init PROVE Outcome!Init
    OBVIOUS
  <2>1. job.status = NewStatus /\ launcher = NoLauncher
    BY DEF Init
  <2> QED
    BY <2>1 DEF Outcome!Init, reportedResult, launcherResult, NewStatus, NoLauncher
<1>2. OutcomeInv /\ ResultInv /\ [Next]_vars => [Outcome!Next]_(Outcome!vars)
  BY OutcomeNext
<1> QED
  BY <1>1, <1>2, ResultInvariant, PTL DEF Safety, Outcome!Safety

-----------------------------------------------------------------------------
(* What a sync may take away.                                              *)

\* A sync that stands at the deletion of surplus workers has only surplus ones
\* on its list; one that stands at the clean-up works on a job that is
\* suspended or done.
Justified(stage, s) ==
    /\ stage = "scaledown" => \A i \in s.todo : i >= Keep(s)
    /\ stage = "cleanup" => s.job.spec.suspend \/ Done(s.job.status)

RemovalInv == TypeInv /\ Justified(pc, sync)

LEMMA GotoJustified ==
    /\ \A stage, s : Goto(stage, s) /\ Justified(stage, s) => Justified(pc, sync)'
    /\ Fails \/ Return => Justified(pc, sync)'
BY DEF Goto, Fails, Return, Justified

\* The stages after the workers.
LEMMA AfterJustified ==
    ASSUME NEW s
    PROVE  \A t : t.job = s.job =>
                /\ Justified(AfterAlign(s), t)
                /\ Justified(AfterLaunch(s), t)
                /\ Justified(AfterWorkers(s), t)
BY DEF Justified, AfterAlign, AfterLaunch, AfterWorkers

LEMMA EnterJustified ==
    ASSUME ~RunLauncherAsWorker, NEW s \in SyncType, EnterWorkers(s)
    PROVE  Justified(pc, sync)'
<1> DEFINE t == [s EXCEPT !.todo = Surplus(s)]
<1>1. t.todo = Surplus(s) /\ Keep(t) = Keep(s)
  BY DEF SyncType, Keep
<1>2. \A i \in Surplus(s) : i >= Keep(s)
  BY DEF Surplus, Label
<1>3. Justified("scaledown", t) /\ Justified("workers", s)
  BY <1>1, <1>2 DEF Justified
<1>4. Justified(AfterWorkers(s), s)
  BY AfterJustified
<1>5. \/ Goto(AfterWorkers(s), s)
      \/ Goto("scaledown", t)
      \/ Goto("workers", s)
  BY DEF EnterWorkers
<1> HIDE DEF t
<1> QED
  BY <1>3, <1>4, <1>5, GotoJustified

\* The steps of a sync.
LEMMA SyncJustified ==
    ASSUME ~RunLauncherAsWorker, RemovalInv, Controller
    PROVE  Justified(pc, sync)'
<1>1. TypeInv /\ sync \in SyncType /\ jobC \in JobType /\ Justified(pc, sync)
  BY DEF RemovalInv, TypeInv, TypeOK
<1>2. CASE SyncSkip
  BY <1>1, <1>2 DEF SyncSkip
<1>3. CASE SyncStart
  <2> DEFINE s == [NoSync EXCEPT !.job = Prepared(jobC), !.launcher = launcherC,
                                 !.cached = launcherC.state # "absent"]
             t == [s EXCEPT !.launcher = NoLauncher, !.cached = FALSE]
  <2>1. s.job = Prepared(jobC) /\ t.job = Prepared(jobC)
    BY DEF NoSync
  <2>2. Done(jobC.status) => Done(Prepared(jobC).status)
    BY <1>1, PreparedKeeps DEF Done, isFinished, isSucceeded, isFailed, hasCondition
  <2>3. \/ Done(jobC.status) /\ sync' = t /\ pc' = "cleanup"
        \/ sync' = s /\ pc' \in {AfterLaunch(s), "deps"}
    BY <1>3 DEF SyncStart
  <2>4. Justified(AfterLaunch(s), s)
    BY AfterJustified
  <2> HIDE DEF s, t
  <2> QED
    BY <2>1, <2>2, <2>3, <2>4 DEF Justified
<1>4. CASE EnsureDependents
  <2>1. \/ Goto(AfterWorkers(sync), sync) \/ Goto("podgroup", sync)
        \/ EnterWorkers(sync) \/ Fails
    BY <1>4 DEF EnsureDependents, EndCall
  <2>2. Justified(AfterWorkers(sync), sync) /\ Justified("podgroup", sync)
    BY AfterJustified DEF Justified
  <2> QED
    BY <1>1, <2>1, <2>2, GotoJustified, EnterJustified
<1>5. CASE GetOrCreatePodGroup
  BY <1>1, <1>5, GotoJustified, EnterJustified DEF GetOrCreatePodGroup, EndCall
<1>6. CASE ScaleDown
  <2>1. PICK i \in sync.todo : \E reply \in Replies(pods[i] # "absent") :
          LET rest == [sync EXCEPT !.todo = @ \ {i}]
          IN EndCall(reply, Goto(IF rest.todo = {} THEN "workers" ELSE "scaledown", rest))
    BY <1>6 DEF ScaleDown
  <2> DEFINE rest == [sync EXCEPT !.todo = @ \ {i}]
  <2>2. Fails \/ Goto("workers", rest) \/ Goto("scaledown", rest)
    BY <2>1 DEF EndCall
  <2>3. rest.todo \subseteq sync.todo /\ Keep(rest) = Keep(sync)
    BY <1>1 DEF SyncType, Keep
  <2>4. Justified("workers", rest) /\ Justified("scaledown", rest)
    BY <1>1, <1>6, <2>3 DEF Justified, ScaleDown
  <2> HIDE DEF rest
  <2> QED
    BY <2>2, <2>4, GotoJustified
<1>7. CASE GetOrCreateWorker
  <2> DEFINE With(phase) == [sync EXCEPT !.workers[sync.ix] = phase, !.ix = sync.ix + 1]
             Step(phase) == IF sync.ix + 1 < Keep(sync)
                              THEN Goto("workers", With(phase))
                              ELSE Goto(AfterWorkers(With(phase)), [With(phase) EXCEPT !.ix = 0])
  <2>1. \A phase : /\ Justified("workers", With(phase))
                   /\ Justified(AfterWorkers(With(phase)), [With(phase) EXCEPT !.ix = 0])
    <3>1. \A phase : [With(phase) EXCEPT !.ix = 0].job = With(phase).job
      BY <1>1 DEF SyncType
    <3> HIDE DEF With
    <3> QED
      BY <3>1, AfterJustified DEF Justified
  <2>2. \A phase : Step(phase) => Justified(pc, sync)'
    <3> HIDE DEF With
    <3> QED
      BY <2>1, GotoJustified
  <2>3. Step(podsC[sync.ix]) \/ Step("Pending") \/ Fails
    BY <1>7 DEF GetOrCreateWorker, EndCall
  <2> QED
    BY <2>2, <2>3, GotoJustified
<1>8. CASE CreateLauncher
  <2> DEFINE s == [sync EXCEPT !.launcher = [state |-> "active",
                                             suspend |-> sync.job.spec.suspend]]
  <2>1. Goto(AfterLaunch(s), s) \/ Fails
    BY <1>8 DEF CreateLauncher, EndCall
  <2> HIDE DEF s
  <2> QED
    BY <2>1, AfterJustified, GotoJustified
<1>9. CASE AlignLauncher
  <2> DEFINE s == [sync EXCEPT !.launcher.suspend = sync.job.spec.suspend]
  <2>1. Goto(AfterAlign(s), s) \/ Fails
    BY <1>9 DEF AlignLauncher, EndCall
  <2> HIDE DEF s
  <2> QED
    BY <2>1, AfterJustified, GotoJustified
<1>10. CASE DeleteWorkerPod
  <2> DEFINE s == [sync EXCEPT !.ix = sync.ix + 1]
  <2>1. s.job = sync.job
    BY <1>1 DEF SyncType
  <2>2. Goto("cleanup", s) \/ Fails
    BY <1>10 DEF DeleteWorkerPod, EndCall
  <2> HIDE DEF s
  <2> QED
    BY <1>1, <1>10, <2>1, <2>2, GotoJustified DEF Justified, DeleteWorkerPod
<1>11. CASE DeletePodGroup
  <2>1. ASSUME NEW stage \in {"finish", "status"}, NEW s, Goto(stage, s)
        PROVE  Justified(pc, sync)'
    BY <2>1, GotoJustified DEF Justified
  <2> QED
    BY <1>11, <2>1, GotoJustified DEF DeletePodGroup, EndCall
<1>12. CASE UpdateStatus \/ UpdateFinishedStatus
  BY <1>12, GotoJustified DEF UpdateStatus, UpdateFinishedStatus, WriteStatus, EndCall
<1> QED
  BY <1>2, <1>3, <1>4, <1>5, <1>6, <1>7, <1>8, <1>9, <1>10, <1>11, <1>12 DEF Controller

LEMMA RemovalStep ==
    ASSUME ~RunLauncherAsWorker, RemovalInv, [Next]_vars
    PROVE  RemovalInv'
<1>1. TypeInv' /\ sync \in SyncType
  BY NextType DEF RemovalInv, TypeInv, TypeOK
<1>2. CASE UNCHANGED <<pc, sync>>
  BY <1>1, <1>2 DEF RemovalInv
<1>3. CASE Controller
  BY <1>1, <1>3, SyncJustified DEF RemovalInv
<1>4. CASE DeliverLauncher
  <2>1. /\ pc' = pc /\ sync'.job = sync.job /\ sync'.todo = sync.todo
    BY <1>1, <1>4 DEF DeliverLauncher, SyncType
  <2> QED
    BY <1>1, <2>1 DEF RemovalInv, Justified, Keep
<1>5. CASE Crash
  BY <1>1, <1>5 DEF Crash, RemovalInv, Justified
<1> QED
  BY <1>2, <1>3, <1>4, <1>5
     DEF Next, Deliver, DeliverJob, DeliverLauncherPod, DeliverPod, DeliverPodGroup, Cluster,
         UserEdit, LauncherPodStart, LauncherPodStop, LauncherFinish, LauncherExpire, PodProgress,
         PodFault, vars, controllerVars

\* The controller takes a worker pod away only from a job it sees suspended or
\* done, or when its index is beyond the replicas (getOrCreateWorker,
\* cleanUpWorkerPods).  The hypothesis is needed: the labels of the workers of a
\* job that runs its launcher as a worker are one higher than their indexes, and
\* the scale-down then deletes a worker too many (the run PaddedLabels).
THEOREM RemovalsJustified ==
    ASSUME ~RunLauncherAsWorker
    PROVE  Safety => RemovalJustified
<1> DEFINE A == \A i \in Index : Removed(i) /\ pc # "idle" /\ faults' = faults =>
                    \/ sync.job.spec.suspend
                    \/ Done(sync.job.status)
                    \/ i >= Keep(sync)
<1>1. Init => RemovalInv
  BY InitType DEF Init, RemovalInv, Justified
<1>2. RemovalInv /\ [Next]_vars => RemovalInv'
  BY RemovalStep
<1>3. RemovalInv /\ [Next]_vars => [A]_vars
  <2> SUFFICES ASSUME RemovalInv, [Next]_vars, NEW i \in Index, Removed(i), faults' = faults
               PROVE  \/ sync.job.spec.suspend
                      \/ Done(sync.job.status)
                      \/ i >= Keep(sync)
    OBVIOUS
  <2>1. /\ pods \in [Index -> PodPhases] /\ faults \in Nat
        /\ Justified(pc, sync)
    BY BoundsAssumption DEF RemovalInv, TypeInv, TypeOK
  <2>2. ASSUME NEW k, NEW phase, SetPod(k, phase) PROVE i = k /\ phase = "absent"
    BY <2>1, <2>2 DEF SetPod, Removed
  <2>3. CASE ScaleDown
    BY <2>1, <2>2, <2>3 DEF ScaleDown, Justified, Removed
  <2>4. CASE DeleteWorkerPod
    BY <2>1, <2>4 DEF DeleteWorkerPod, Justified
  <2>5. ~GetOrCreateWorker
    BY <2>1, <2>2 DEF GetOrCreateWorker, Removed
  <2>6. ~PodProgress /\ ~PodFault
    BY <2>1, <2>2 DEF PodProgress, PodFault
  <2>7. \/ UNCHANGED pods
        \/ ScaleDown \/ DeleteWorkerPod \/ GetOrCreateWorker \/ PodProgress \/ PodFault
    BY DEF Next, Controller, SyncSkip, SyncStart, EnsureDependents, GetOrCreatePodGroup,
       CreateLauncher, AlignLauncher, DeletePodGroup, UpdateStatus, UpdateFinishedStatus,
       Deliver, DeliverJob, DeliverLauncher, DeliverLauncherPod, DeliverPod, DeliverPodGroup,
       Cluster, UserEdit, LauncherPodStart, LauncherPodStop, LauncherFinish, LauncherExpire,
       Crash, vars, objectVars, podVars
  <2> QED
    BY <2>3, <2>4, <2>5, <2>6, <2>7 DEF Removed
<1> QED
  BY <1>1, <1>2, <1>3, PTL DEF Safety, RemovalJustified
=============================================================================
