----------------------------- MODULE OperatorProofs -----------------------------
(***************************************************************************)
(* No job is synced twice at a time in the whole cluster, and no sync      *)
(* reads a cache that is not filled, for every number of processes,        *)
(* workers, jobs and informers.                                            *)
(*                                                                         *)
(* Within a process it is the queue that keeps two workers from one key:   *)
(* the keys that it knows to be processed are those in the workers' hands  *)
(* (HandsKnown), and a queued key is not among them (QueueType).  Between  *)
(* processes it is the lease: whoever has a key in his hands leads         *)
(* (HandsLead), and one process leads (LeaderElectionProofs).              *)
(***************************************************************************)
EXTENDS LeaderElectionProofs, WorkQueueProofs

Held(p) == {hands[p][w] : w \in Workers} \ {Nothing}

HandsKnown == \A p \in Procs : queue[p].processing = Held(p)

HandsApart ==
    \A p \in Procs, v, w \in Workers :
        hands[p][v] = hands[p][w] /\ hands[p][v] # Nothing => v = w

HandsLead ==
    \A p \in Procs, w \in Workers :
        hands[p][w] # Nothing => stage[p] \in {"working", "draining"}

WorkersWait ==
    \A p \in Procs : stage[p] \in {"working", "draining"} =>
        \A i \in Informers : informers[p][i] = "synced"

HandsInv == HandsKnown /\ HandsApart /\ HandsLead

OperatorInv == TypeOK /\ ElectionInv /\ HandsInv /\ WorkersWait

-----------------------------------------------------------------------------
(* Types.                                                                  *)

ProcessType ==
    /\ crd \in BOOLEAN
    /\ holder \in Procs \cup {Nobody, Departed}
    /\ stage \in [Procs -> Stages]
    /\ signalled \in [Procs -> BOOLEAN]
    /\ renewal \in [Procs -> Renewals]
    /\ timer \in [Procs -> 0 .. RenewDeadline + RetryPeriod]
    /\ seen \in [Procs -> Unseen .. LeaseDuration]

ControllerType ==
    /\ informers \in [Procs -> [Informers -> InformerStates]]
    /\ news \in [Procs -> [Keys -> NewsStates]]
    /\ queue \in [Procs -> QueueType(Keys)]
    /\ hands \in [Procs -> [Workers -> Keys \cup {Nothing}]]
    /\ erred \in [Procs -> SUBSET Workers]

BudgetType == changes \in 0 .. MaxChanges /\ faults \in 0 .. MaxFaults

\* A function of functions stays one when one value of one function changes.
LEMMA NestedExcept ==
    ASSUME NEW A, NEW B, NEW C, NEW f \in [A -> [B -> C]], NEW a \in A, NEW b \in B,
           NEW c \in C
    PROVE  [f EXCEPT ![a][b] = c] \in [A -> [B -> C]]
<1>1. [f[a] EXCEPT ![b] = c] \in [B -> C]
  OBVIOUS
<1>2. [f EXCEPT ![a][b] = c] = [f EXCEPT ![a] = [f[a] EXCEPT ![b] = c]]
  OBVIOUS
<1> QED
  BY <1>1, <1>2

LEMMA TypeParts == TypeOK <=> ProcessType /\ ControllerType /\ BudgetType
BY DEF TypeOK, ProcessType, ControllerType, BudgetType

LEMMA FaultType ==
    ASSUME BudgetType, NEW kind, Fault(kind)
    PROVE  faults' \in 0 .. MaxFaults
BY OperatorBoundsAssumption DEF BudgetType, Fault

\* What a new process begins with has its type.
LEMMA NoControllerType ==
    /\ NoController.informers \in [Informers -> InformerStates]
    /\ NoController.news \in [Keys -> NewsStates]
    /\ NoController.queue \in QueueType(Keys)
    /\ NoController.hands \in [Workers -> Keys \cup {Nothing}]
    /\ NoController.erred \in SUBSET Workers
BY EmptyQueue DEF NoController, InformerFor, InformerStates, NewsStates

LEMMA GoneType ==
    ASSUME TypeOK, NEW p \in Procs, Gone(p), faults' \in 0 .. MaxFaults
    PROVE  TypeOK'
<1>1. ProcessType'
  BY DurationsAssumption DEF TypeOK, ProcessType, Gone, Stages, Renewals, Unseen
<1>2. ControllerType'
  BY NoControllerType DEF TypeOK, ControllerType, Gone
<1>3. BudgetType'
  BY DEF TypeOK, BudgetType, Gone
<1> QED
  BY <1>1, <1>2, <1>3 DEF TypeOK, ProcessType, ControllerType, BudgetType

\* The steps of the election and of a process's life.
LEMMA ProcessStepType ==
    ASSUME TypeOK, NEW p \in Procs,
           \/ Start(p) \/ Signal(p) \/ Observe(p) \/ Acquire(p) \/ Renew(p) \/ StartWorkers(p)
    PROVE  TypeOK'
<1>1. UNCHANGED <<controllerVars, changes>>
  BY DEF Start, Signal, Observe, Acquire, Renew, StartWorkers
<1>2. ControllerType' /\ changes' \in 0 .. MaxChanges
  BY <1>1 DEF TypeOK, ControllerType, controllerVars
<1>3. faults' \in 0 .. MaxFaults
  BY FaultType, TypeParts DEF Start, Signal, Observe, Acquire, Renew, StartWorkers, BudgetType
<1>4. ProcessType'
  <2> USE DurationsAssumption DEF TypeOK, ProcessType, leaseVars, Stages, Renewals
  <2>1. CASE Start(p) \/ StartWorkers(p)
    BY <2>1 DEF Start, StartWorkers
  <2>2. CASE Signal(p)
    BY <2>2 DEF Signal
  <2>3. CASE Observe(p)
    BY <2>3 DEF Observe, Unseen
  <2>4. CASE Acquire(p)
    BY <2>4 DEF Acquire, LeaseWrittenBy, Unseen
  <2>5. CASE Renew(p)
    <3>1. renewal' \in [Procs -> Renewals] /\ UNCHANGED <<crd, stage, signalled>>
      BY <2>5 DEF Renew
    <3>2. timer' \in [Procs -> 0 .. RenewDeadline + RetryPeriod]
      <4>1. UNCHANGED timer \/ timer' = [timer EXCEPT ![p] = 0]
        BY <2>5 DEF Renew
      <4>2. 0 \in 0 .. RenewDeadline + RetryPeriod
        OBVIOUS
      <4> QED
        BY <4>1, <4>2
    <3>3. holder' \in Procs \cup {Nobody, Departed} /\ seen' \in [Procs -> Unseen .. LeaseDuration]
      BY <2>5 DEF Renew, LeaseWrittenBy, Unseen
    <3> QED
      BY <3>1, <3>2, <3>3
  <2> QED
    BY <2>1, <2>2, <2>3, <2>4, <2>5
<1> QED
  BY <1>2, <1>3, <1>4, TypeParts DEF TypeOK, ProcessType, ControllerType

LEMMA TickType == ASSUME TypeOK, Tick PROVE TypeOK'
<1>1. ProcessType'
  <2> USE DurationsAssumption DEF TypeOK, ProcessType, Tick
  <2>1. timer' \in [Procs -> 0 .. RenewDeadline + RetryPeriod]
    <3>1. ASSUME NEW q \in Procs
          PROVE  (IF Leading(q) THEN timer[q] + 1 ELSE timer[q])
                    \in 0 .. RenewDeadline + RetryPeriod
      <4>1. timer[q] \in 0 .. RenewDeadline + RetryPeriod
        OBVIOUS
      <4>2. Leading(q) => timer[q] < RetryPeriod \/ timer[q] < RenewDeadline
        OBVIOUS
      <4> QED
        BY <4>1, <4>2
    <3> QED
      BY <3>1
  <2>2. seen' \in [Procs -> Unseen .. LeaseDuration]
    BY DEF Unseen
  <2> QED
    BY <2>1, <2>2
<1>2. ControllerType' /\ BudgetType'
  BY DEF TypeOK, ControllerType, BudgetType, Tick, controllerVars
<1> QED
  BY <1>1, <1>2 DEF TypeOK, ProcessType, ControllerType, BudgetType

\* Steps that leave the processes alone.
LEMMA ControllerStepType ==
    ASSUME TypeOK, UNCHANGED processVars, ControllerType', BudgetType'
    PROVE  TypeOK'
BY DEF TypeOK, ControllerType, BudgetType, processVars, leaseVars

LEMMA InformerStepType ==
    ASSUME TypeOK, NEW p \in Procs, NEW i \in Informers, StartInformer(p, i) \/ SyncInformer(p, i)
    PROVE  TypeOK'
<1>1. informers' \in [Procs -> [Informers -> InformerStates]]
  <2>1. "started" \in InformerStates /\ "synced" \in InformerStates
    BY DEF InformerStates
  <2>2. PICK state \in InformerStates : informers' = [informers EXCEPT ![p][i] = state]
    BY <2>1 DEF StartInformer, SyncInformer
  <2> QED
    BY <2>2, NestedExcept DEF TypeOK
<1>2. news' \in [Procs -> [Keys -> NewsStates]]
  <2>1. [k \in Keys |-> "unheard"] \in [Keys -> NewsStates]
    BY DEF NewsStates
  <2>2. UNCHANGED news \/ news' = [news EXCEPT ![p] = [k \in Keys |-> "unheard"]]
    BY DEF StartInformer, SyncInformer
  <2> QED
    BY <2>1, <2>2 DEF TypeOK
<1>3. UNCHANGED <<processVars, queue, hands, erred, changes, faults>>
  BY DEF StartInformer, SyncInformer
<1> QED
  BY <1>1, <1>2, <1>3, ControllerStepType DEF TypeOK, ControllerType, BudgetType

LEMMA NewsStepType ==
    ASSUME TypeOK, NEW p \in Procs, NEW key \in Keys, See(p, key) \/ Hear(p, key)
    PROVE  TypeOK'
<1>1. news' \in [Procs -> [Keys -> NewsStates]]
  <2>1. "unheard" \in NewsStates /\ "heard" \in NewsStates
    BY DEF NewsStates
  <2>2. PICK state \in NewsStates : news' = [news EXCEPT ![p][key] = state]
    BY <2>1 DEF See, Hear
  <2> QED
    BY <2>2, NestedExcept DEF TypeOK
<1>2. AddRateLimited(queue[p], key) \in QueueType(Keys)
  BY AddRateLimitedQueue DEF TypeOK
<1>3. queue' \in [Procs -> QueueType(Keys)]
  BY <1>2 DEF TypeOK, See, Hear
<1>4. UNCHANGED <<processVars, informers, hands, erred, changes, faults>>
  BY DEF See, Hear
<1> QED
  BY <1>1, <1>3, <1>4, ControllerStepType DEF TypeOK, ControllerType, BudgetType

LEMMA ChangeType ==
    ASSUME TypeOK, NEW key \in Keys, Change(key)
    PROVE  TypeOK'
<1>1. news' \in [Procs -> [Keys -> NewsStates]]
  BY DEF TypeOK, Change, NewsStates
<1>2. changes' \in 0 .. MaxChanges
  BY OperatorBoundsAssumption DEF TypeOK, Change
<1>3. UNCHANGED <<processVars, informers, queue, hands, erred, faults>>
  BY DEF Change
<1> QED
  BY <1>1, <1>2, <1>3, ControllerStepType DEF TypeOK, ControllerType, BudgetType

LEMMA BackOffOverType ==
    ASSUME TypeOK, NEW p \in Procs, NEW key \in Keys, BackOffOver(p, key)
    PROVE  TypeOK'
<1>1. Ready(queue[p], key) \in QueueType(Keys)
  BY ReadyQueue DEF TypeOK
<1>2. queue' \in [Procs -> QueueType(Keys)]
  BY <1>1 DEF TypeOK, BackOffOver
<1> QED
  BY <1>2, ControllerStepType DEF TypeOK, ControllerType, BudgetType, BackOffOver

LEMMA StopControllerType ==
    ASSUME TypeOK, NEW p \in Procs, StopController(p)
    PROVE  TypeOK'
<1>1. ShutDown(queue[p]) \in QueueType(Keys)
  BY ShutDownQueue DEF TypeOK
<1>2. queue' \in [Procs -> QueueType(Keys)]
  BY <1>1 DEF TypeOK, StopController
<1>3. stage' \in [Procs -> Stages]
  BY DEF TypeOK, StopController, Stages
<1> QED
  BY <1>2, <1>3 DEF TypeOK, StopController, leaseVars

\* Under HandsKnown, the key in a worker's hands is one that Done may be called
\* with.
LEMMA InHand ==
    ASSUME TypeOK, HandsKnown, NEW p \in Procs, NEW w \in Workers, hands[p][w] # Nothing
    PROVE  hands[p][w] \in Keys /\ hands[p][w] \in queue[p].processing
BY DEF TypeOK, HandsKnown, Held

\* What the end of a sync leaves in the queue, if it returned an error and if not.
LEMMA FinishedWithError ==
    ASSUME NEW q \in QueueType(Keys), NEW key \in Keys, key \in q.processing
    PROVE  /\ Finished(q, key, TRUE) \in QueueType(Keys)
           /\ Finished(q, key, TRUE).processing = q.processing \ {key}
           /\ Finished(q, key, TRUE).dirty = q.dirty
           /\ (Finished(q, key, TRUE).shuttingDown <=> q.shuttingDown)
           /\ q.shuttingDown => Finished(q, key, TRUE).waiting = q.waiting
           /\ ~q.shuttingDown => Finished(q, key, TRUE).waiting = q.waiting \cup {key}
<1> DEFINE a == AddRateLimited(q, key)
<1>1. /\ a \in QueueType(Keys) /\ a.dirty = q.dirty /\ a.processing = q.processing
      /\ (a.shuttingDown <=> q.shuttingDown)
      /\ q.shuttingDown => a.waiting = q.waiting
      /\ ~q.shuttingDown => a.waiting = q.waiting \cup {key}
  BY AddRateLimitedQueue
<1>2. Finished(q, key, TRUE) = QueueDone(a, key)
  BY DEF Finished
<1> HIDE DEF a
<1>3. key \in a.processing
  BY <1>1
<1>4. /\ QueueDone(a, key) \in QueueType(Keys)
      /\ QueueDone(a, key).processing = a.processing \ {key}
      /\ QueueDone(a, key).dirty = a.dirty
      /\ QueueDone(a, key).waiting = a.waiting
      /\ (QueueDone(a, key).shuttingDown <=> a.shuttingDown)
  BY <1>1, <1>3, DoneQueue
<1> QED
  BY <1>1, <1>2, <1>4

LEMMA FinishedWell ==
    ASSUME NEW q \in QueueType(Keys), NEW key \in Keys, key \in q.processing
    PROVE  /\ Finished(q, key, FALSE) \in QueueType(Keys)
           /\ Finished(q, key, FALSE).processing = q.processing \ {key}
           /\ Finished(q, key, FALSE).dirty = q.dirty
           /\ Finished(q, key, FALSE).waiting = q.waiting
           /\ (Finished(q, key, FALSE).shuttingDown <=> q.shuttingDown)
<1>1. Finished(q, key, FALSE) = QueueDone(q, key)
  BY DEF Finished
<1>2. /\ QueueDone(q, key) \in QueueType(Keys)
      /\ QueueDone(q, key).processing = q.processing \ {key}
      /\ QueueDone(q, key).dirty = q.dirty
      /\ QueueDone(q, key).waiting = q.waiting
      /\ (QueueDone(q, key).shuttingDown <=> q.shuttingDown)
  BY DoneQueue
<1> QED
  BY <1>1, <1>2

\* The key that a worker gives back leaves the queue's processing set.
LEMMA EndQueue ==
    ASSUME TypeOK, HandsKnown, NEW p \in Procs, NEW w \in Workers, End(p, w)
    PROVE  /\ hands[p][w] \in Keys
           /\ \A q \in Procs \ {p} : queue'[q] = queue[q]
           /\ queue' \in [Procs -> QueueType(Keys)]
           /\ queue'[p].processing = queue[p].processing \ {hands[p][w]}
           /\ queue'[p].dirty = queue[p].dirty
           /\ (queue'[p].shuttingDown <=> queue[p].shuttingDown)
           /\ w \in erred[p] /\ ~queue[p].shuttingDown =>
                queue'[p].waiting = queue[p].waiting \cup {hands[p][w]}
           /\ w \in erred[p] /\ queue[p].shuttingDown =>
                queue'[p].waiting = queue[p].waiting
           /\ w \notin erred[p] => queue'[p].waiting = queue[p].waiting
<1> DEFINE q == queue[p]
           key == hands[p][w]
<1>1. key \in Keys /\ key \in q.processing /\ q \in QueueType(Keys)
  BY InHand DEF End, TypeOK
<1>2. queue' = [queue EXCEPT ![p] = Finished(q, key, w \in erred[p])]
  BY DEF End
<1>3. CASE w \in erred[p]
  <2> DEFINE r == Finished(q, key, TRUE)
  <2>1. queue' = [queue EXCEPT ![p] = r]
    BY <1>2, <1>3 DEF Finished
  <2>2. /\ r \in QueueType(Keys)
        /\ r.processing = q.processing \ {key} /\ r.dirty = q.dirty
        /\ (r.shuttingDown <=> q.shuttingDown)
        /\ (q.shuttingDown => r.waiting = q.waiting)
        /\ (~q.shuttingDown => r.waiting = q.waiting \cup {key})
    BY <1>1, FinishedWithError, Zenon
  <2> HIDE DEF r
  <2>3. queue'[p] = r /\ \A o \in Procs \ {p} : queue'[o] = queue[o]
    BY <2>1 DEF TypeOK
  <2>4. queue' \in [Procs -> QueueType(Keys)]
    BY <2>1, <2>2 DEF TypeOK
  <2> QED
    BY <1>1, <1>3, <2>2, <2>3, <2>4
<1>4. CASE w \notin erred[p]
  <2> DEFINE r == Finished(q, key, FALSE)
  <2>1. queue' = [queue EXCEPT ![p] = r]
    BY <1>2, <1>4 DEF Finished
  <2>2. /\ r \in QueueType(Keys)
        /\ r.processing = q.processing \ {key} /\ r.dirty = q.dirty
        /\ (r.shuttingDown <=> q.shuttingDown)
        /\ r.waiting = q.waiting
    BY <1>1, FinishedWell, Zenon
  <2> HIDE DEF r
  <2>3. queue'[p] = r /\ \A o \in Procs \ {p} : queue'[o] = queue[o]
    BY <2>1 DEF TypeOK
  <2>4. queue' \in [Procs -> QueueType(Keys)]
    BY <2>1, <2>2 DEF TypeOK
  <2> QED
    BY <1>1, <1>4, <2>2, <2>3, <2>4
<1> QED
  BY <1>3, <1>4

LEMMA WorkerStepType ==
    ASSUME TypeOK, HandsKnown, NEW p \in Procs, NEW w \in Workers,
           Begin(p, w) \/ SyncFails(p, w) \/ End(p, w)
    PROVE  TypeOK'
<1> USE DEF TypeOK, ControllerType, BudgetType
<1>1. CASE Begin(p, w)
  <2>1. Get(queue[p]) \in QueueType(Keys) /\ Head(queue[p].queue) \in Keys
    BY <1>1, GetQueue DEF Begin
  <2>2. queue' \in [Procs -> QueueType(Keys)] /\ hands' \in [Procs -> [Workers -> Keys \cup {Nothing}]]
    BY <1>1, <2>1 DEF Begin
  <2> QED
    BY <1>1, <2>2, ControllerStepType DEF Begin
<1>2. CASE SyncFails(p, w)
  <2>1. erred' \in [Procs -> SUBSET Workers]
    BY <1>2 DEF SyncFails
  <2>2. faults' \in 0 .. MaxFaults
    BY <1>2, FaultType DEF SyncFails
  <2> QED
    BY <1>2, <2>1, <2>2, ControllerStepType DEF SyncFails
<1>3. CASE End(p, w)
  <2>1. /\ queue' \in [Procs -> QueueType(Keys)]
        /\ hands' \in [Procs -> [Workers -> Keys \cup {Nothing}]]
        /\ erred' \in [Procs -> SUBSET Workers]
    BY <1>3, EndQueue DEF End
  <2> QED
    BY <1>3, <2>1, ControllerStepType DEF End
<1> QED
  BY <1>1, <1>2, <1>3

LEMMA InitType == ASSUME Init PROVE TypeOK
<1>1. ProcessType
  BY DurationsAssumption DEF Init, ProcessType, Stages, Renewals, Unseen
<1>2. ControllerType
  BY NoControllerType DEF Init, ControllerType
<1>3. BudgetType
  BY OperatorBoundsAssumption DEF Init, BudgetType
<1> QED
  BY <1>1, <1>2, <1>3, TypeParts

LEMMA NextType == ASSUME TypeOK, HandsKnown, [Next]_vars PROVE TypeOK'
<1>1. CASE UNCHANGED vars
  BY <1>1 DEF TypeOK, vars, processVars, leaseVars, controllerVars
<1>2. CASE Tick
  BY <1>2, TickType
<1>3. CASE InstallCRD
  BY <1>3 DEF TypeOK, InstallCRD, leaseVars, controllerVars
<1>4. ASSUME NEW key \in Keys, Change(key)
      PROVE  TypeOK'
  BY <1>4, ChangeType
<1>5. ASSUME NEW p \in Procs, Process(p)
      PROVE  TypeOK'
  <2>1. CASE Crash(p) \/ Stopped(p) \/ LoseLease(p) \/ \E i \in Informers : WatchRefused(p, i)
    <3>1. Gone(p) /\ faults' \in 0 .. MaxFaults
      BY <2>1, FaultType, TypeParts DEF Crash, Stopped, LoseLease, WatchRefused, BudgetType
    <3> QED
      BY <3>1, GoneType
  <2>2. CASE Start(p) \/ Signal(p) \/ Observe(p) \/ Acquire(p) \/ Renew(p) \/ StartWorkers(p)
    BY <2>2, ProcessStepType
  <2>3. CASE StopController(p)
    BY <2>3, StopControllerType
  <2>4. CASE \E i \in Informers : StartInformer(p, i) \/ SyncInformer(p, i)
    BY <2>4, InformerStepType
  <2>5. CASE \E key \in Keys : See(p, key) \/ Hear(p, key)
    BY <2>5, NewsStepType
  <2>6. CASE \E key \in Keys : BackOffOver(p, key)
    BY <2>6, BackOffOverType
  <2>7. CASE \E w \in Workers : Begin(p, w) \/ SyncFails(p, w) \/ End(p, w)
    BY <2>7, WorkerStepType
  <2> QED
    BY <1>5, <2>1, <2>2, <2>3, <2>4, <2>5, <2>6, <2>7 DEF Process
<1> QED
  BY <1>1, <1>2, <1>3, <1>4, <1>5 DEF Next

-----------------------------------------------------------------------------
(* The workers' hands.                                                     *)

WithWorkers == {"working", "draining"}

\* Whatever leaves the keys in processing where they are and no process without
\* its workers.
LEMMA HandsFrame ==
    ASSUME HandsInv, UNCHANGED hands,
           \A p \in Procs : /\ queue'[p].processing = queue[p].processing
                            /\ stage[p] \in WithWorkers => stage'[p] \in WithWorkers
    PROVE  HandsInv'
BY DEF HandsInv, HandsKnown, HandsApart, HandsLead, Held, WithWorkers

LEMMA GoneHands ==
    ASSUME TypeOK, HandsInv, NEW p \in Procs, Gone(p)
    PROVE  HandsInv'
<1>1. \A w \in Workers : hands'[p][w] = Nothing
  BY DEF TypeOK, Gone, NoController
<1>2. queue'[p].processing = {}
  BY DEF TypeOK, Gone, NoController, Empty
<1>3. \A q \in Procs \ {p} : hands'[q] = hands[q] /\ queue'[q] = queue[q] /\ stage'[q] = stage[q]
  BY DEF TypeOK, Gone
<1>4. HandsKnown'
  <2>1. queue'[p].processing = Held(p)'
    BY <1>1, <1>2 DEF Held
  <2>2. \A q \in Procs \ {p} : queue'[q].processing = Held(q)'
    BY <1>3 DEF HandsInv, HandsKnown, Held
  <2> QED
    BY <2>1, <2>2 DEF HandsKnown
<1>5. HandsApart'
  BY <1>1, <1>3 DEF HandsInv, HandsApart
<1>6. HandsLead'
  BY <1>1, <1>3 DEF HandsInv, HandsLead
<1> QED
  BY <1>4, <1>5, <1>6 DEF HandsInv

\* What a step of worker w does to the hands of its process.
LEMMA HandMoves ==
    ASSUME TypeOK, HandsInv, NEW p \in Procs, NEW w \in Workers, NEW key,
           hands' = [hands EXCEPT ![p][w] = key],
           UNCHANGED stage, key # Nothing => stage[p] \in WithWorkers,
           \A v \in Workers : hands[p][v] = key => key = Nothing,
           \A q \in Procs \ {p} : queue'[q] = queue[q],
           queue'[p].processing = (queue[p].processing \ {hands[p][w]}) \cup ({key} \ {Nothing})
    PROVE  HandsInv'
<1>1. /\ hands'[p][w] = key
      /\ \A v \in Workers \ {w} : hands'[p][v] = hands[p][v]
      /\ \A q \in Procs \ {p} : hands'[q] = hands[q]
  BY DEF TypeOK
<1>2. HandsKnown'
  <2>1. Held(p)' = (Held(p) \ {hands[p][w]}) \cup ({key} \ {Nothing})
    <3>1. \A v \in Workers \ {w} : hands[p][v] # Nothing => hands[p][v] # hands[p][w]
      BY DEF HandsInv, HandsApart
    <3> QED
      BY <1>1, <3>1 DEF Held
  <2>2. queue'[p].processing = Held(p)'
    BY <2>1 DEF HandsInv, HandsKnown
  <2>3. \A q \in Procs \ {p} : queue'[q].processing = Held(q)'
    BY <1>1 DEF HandsInv, HandsKnown, Held
  <2> QED
    BY <2>2, <2>3 DEF HandsKnown
<1>3. HandsApart'
  <2> SUFFICES ASSUME NEW q \in Procs, NEW u \in Workers, NEW v \in Workers,
                      hands'[q][u] = hands'[q][v], hands'[q][u] # Nothing
               PROVE  u = v
    BY DEF HandsApart
  <2>1. CASE q # p
    BY <1>1, <2>1 DEF HandsInv, HandsApart
  <2>2. CASE q = p
    BY <1>1, <2>2 DEF HandsInv, HandsApart
  <2> QED
    BY <2>1, <2>2
<1>4. HandsLead'
  BY <1>1 DEF HandsInv, HandsLead, WithWorkers
<1> QED
  BY <1>2, <1>3, <1>4 DEF HandsInv

LEMMA BeginHands ==
    ASSUME TypeOK, HandsInv, NEW p \in Procs, NEW w \in Workers, Begin(p, w)
    PROVE  HandsInv'
<1> DEFINE key == Head(queue[p].queue)
<1>1. queue[p] \in QueueType(Keys) /\ canGet(queue[p])
  BY DEF TypeOK, Begin
<1>2. /\ key \in Keys /\ key \notin queue[p].processing
      /\ Get(queue[p]).processing = queue[p].processing \cup {key}
  BY <1>1, GetQueue
<1>3. hands' = [hands EXCEPT ![p][w] = key] /\ queue' = [queue EXCEPT ![p] = Get(queue[p])]
      /\ UNCHANGED stage
  BY DEF Begin, processVars
<1> HIDE DEF key
<1>4. \A v \in Workers : hands[p][v] # key
  BY <1>2, ConstantsAssumption DEF HandsInv, HandsKnown, Held
<1>5. hands[p][w] = Nothing /\ Nothing \notin queue[p].processing /\ key # Nothing
  BY <1>2, ConstantsAssumption DEF Begin, HandsInv, HandsKnown, Held
<1>6. /\ \A q \in Procs \ {p} : queue'[q] = queue[q]
      /\ queue'[p].processing = (queue[p].processing \ {hands[p][w]}) \cup ({key} \ {Nothing})
  BY <1>2, <1>3, <1>5 DEF TypeOK
<1>7. stage[p] \in WithWorkers
  BY DEF Begin, WithWorkers
<1> QED
  BY <1>3, <1>4, <1>6, <1>7, HandMoves

LEMMA EndHands ==
    ASSUME TypeOK, HandsInv, NEW p \in Procs, NEW w \in Workers, End(p, w)
    PROVE  HandsInv'
<1>1. hands' = [hands EXCEPT ![p][w] = Nothing] /\ UNCHANGED stage
  BY DEF End, processVars
<1>2. /\ \A q \in Procs \ {p} : queue'[q] = queue[q]
      /\ queue'[p].processing
            = (queue[p].processing \ {hands[p][w]}) \cup ({Nothing} \ {Nothing})
  BY EndQueue DEF HandsInv
<1> QED
  BY <1>1, <1>2, HandMoves

\* The other steps that move the queue.
LEMMA QueueStepHands ==
    ASSUME TypeOK, HandsInv, NEW p \in Procs,
           \/ StopController(p)
           \/ \E key \in Keys : Hear(p, key) \/ BackOffOver(p, key)
    PROVE  HandsInv'
<1>1. UNCHANGED hands
  BY DEF StopController, Hear, BackOffOver
<1>2. queue[p] \in QueueType(Keys)
  BY DEF TypeOK
<1>3. \A q \in Procs : queue'[q].processing = queue[q].processing
  <2>1. CASE StopController(p)
    BY <1>2, <2>1, ShutDownQueue DEF TypeOK, StopController
  <2>2. ASSUME NEW key \in Keys, Hear(p, key)
        PROVE  \A q \in Procs : queue'[q].processing = queue[q].processing
    <3>1. AddRateLimited(queue[p], key).processing = queue[p].processing
      BY <1>2, <2>2, AddRateLimitedQueue
    <3> QED
      BY <2>2, <3>1 DEF TypeOK, Hear
  <2>3. ASSUME NEW key \in Keys, BackOffOver(p, key)
        PROVE  \A q \in Procs : queue'[q].processing = queue[q].processing
    <3>1. Ready(queue[p], key).processing = queue[p].processing
      BY <1>2, <2>3, ReadyQueue
    <3> QED
      BY <2>3, <3>1 DEF TypeOK, BackOffOver
  <2> QED
    BY <2>1, <2>2, <2>3
<1>4. \A q \in Procs : stage[q] \in WithWorkers => stage'[q] \in WithWorkers
  BY DEF TypeOK, StopController, Hear, BackOffOver, processVars, WithWorkers
<1> QED
  BY <1>1, <1>3, <1>4, HandsFrame

\* Steps of the rest of the process.
LEMMA StageStepHands ==
    ASSUME TypeOK, HandsInv, NEW p \in Procs,
           Start(p) \/ Acquire(p) \/ StartWorkers(p)
    PROVE  HandsInv'
<1>1. UNCHANGED <<hands, queue>>
  BY DEF Start, Acquire, StartWorkers, controllerVars
<1>2. \A q \in Procs : stage[q] \in WithWorkers => stage'[q] \in WithWorkers
  BY DEF TypeOK, Start, Acquire, StartWorkers, WithWorkers
<1> QED
  BY <1>1, <1>2, HandsFrame

LEMMA OthersKeepHands ==
    ASSUME HandsInv, UNCHANGED <<hands, queue, stage>>
    PROVE  HandsInv'
BY HandsFrame

LEMMA NextHands == ASSUME TypeOK, HandsInv, [Next]_vars PROVE HandsInv'
<1>1. CASE UNCHANGED vars
  BY <1>1, OthersKeepHands DEF vars, processVars, controllerVars
<1>2. CASE Tick \/ InstallCRD \/ \E key \in Keys : Change(key)
  BY <1>2, OthersKeepHands DEF Tick, InstallCRD, Change, processVars, controllerVars
<1>3. ASSUME NEW p \in Procs, Process(p)
      PROVE  HandsInv'
  <2>1. CASE Crash(p) \/ Stopped(p) \/ LoseLease(p) \/ \E i \in Informers : WatchRefused(p, i)
    BY <2>1, GoneHands DEF Crash, Stopped, LoseLease, WatchRefused
  <2>2. CASE Start(p) \/ Acquire(p) \/ StartWorkers(p)
    BY <2>2, StageStepHands
  <2>3. CASE StopController(p) \/ \E key \in Keys : Hear(p, key) \/ BackOffOver(p, key)
    BY <2>3, QueueStepHands
  <2>4. CASE Signal(p) \/ Observe(p) \/ Renew(p)
    BY <2>4, OthersKeepHands DEF Signal, Observe, Renew, controllerVars
  <2>5. CASE \E i \in Informers : StartInformer(p, i) \/ SyncInformer(p, i)
    BY <2>5, OthersKeepHands DEF StartInformer, SyncInformer, processVars
  <2>6. CASE \E key \in Keys : See(p, key)
    BY <2>6, OthersKeepHands DEF See, processVars
  <2>7. CASE \E w \in Workers : Begin(p, w)
    BY <2>7, BeginHands
  <2>8. CASE \E w \in Workers : SyncFails(p, w)
    BY <2>8, OthersKeepHands DEF SyncFails, processVars
  <2>9. CASE \E w \in Workers : End(p, w)
    BY <2>9, EndHands
  <2> QED
    BY <1>3, <2>1, <2>2, <2>3, <2>4, <2>5, <2>6, <2>7, <2>8, <2>9 DEF Process
<1> QED
  BY <1>1, <1>2, <1>3 DEF Next

-----------------------------------------------------------------------------
(* The caches.                                                             *)

\* An informer that has synced stays so, and a process gets its workers only in
\* StartWorkers.
LEMMA WaitFrame ==
    ASSUME WorkersWait,
           \A p \in Procs : stage'[p] \in WithWorkers =>
                /\ stage[p] \in WithWorkers
                /\ \A i \in Informers : informers[p][i] = "synced" => informers'[p][i] = "synced"
    PROVE  WorkersWait'
BY DEF WorkersWait, WithWorkers

LEMMA OthersKeepWait ==
    ASSUME WorkersWait, UNCHANGED <<stage, informers>>
    PROVE  WorkersWait'
BY WaitFrame

LEMMA NextWait == ASSUME TypeOK, WorkersWait, [Next]_vars PROVE WorkersWait'
<1>1. CASE UNCHANGED vars
  BY <1>1, OthersKeepWait DEF vars, processVars, controllerVars
<1>2. CASE Tick \/ InstallCRD \/ \E key \in Keys : Change(key)
  BY <1>2, OthersKeepWait DEF Tick, InstallCRD, Change, processVars, controllerVars
<1>3. ASSUME NEW p \in Procs, Process(p)
      PROVE  WorkersWait'
  <2>1. CASE Crash(p) \/ Stopped(p) \/ LoseLease(p) \/ \E i \in Informers : WatchRefused(p, i)
    <3>1. Gone(p)
      BY <2>1 DEF Crash, Stopped, LoseLease, WatchRefused
    <3>2. \A q \in Procs : stage'[q] \in WithWorkers =>
              stage[q] \in WithWorkers /\ informers'[q] = informers[q]
      BY <3>1 DEF TypeOK, Gone, WithWorkers
    <3> QED
      BY <3>2, WaitFrame
  <2>2. CASE Start(p) \/ Acquire(p) \/ StopController(p)
    <3>1. UNCHANGED informers
      BY <2>2 DEF Start, Acquire, StopController, controllerVars
    <3>2. \A q \in Procs : stage'[q] \in WithWorkers => stage[q] \in WithWorkers
      BY <2>2 DEF TypeOK, Start, Acquire, StopController, WithWorkers
    <3> QED
      BY <3>1, <3>2, WaitFrame
  <2>3. CASE StartWorkers(p)
    BY <2>3 DEF TypeOK, WorkersWait, StartWorkers, allSynced, controllerVars
  <2>4. CASE Signal(p) \/ Observe(p) \/ Renew(p)
    BY <2>4, OthersKeepWait DEF Signal, Observe, Renew, controllerVars
  <2>5. ASSUME NEW i \in Informers, StartInformer(p, i) \/ SyncInformer(p, i)
        PROVE  WorkersWait'
    <3>1. UNCHANGED stage /\ informers[p][i] # "synced"
      BY <2>5 DEF StartInformer, SyncInformer, processVars
    <3>2. PICK state : informers' = [informers EXCEPT ![p][i] = state]
      BY <2>5 DEF StartInformer, SyncInformer
    <3>3. \A q \in Procs, j \in Informers :
              informers[q][j] = "synced" => informers'[q][j] = "synced"
      BY <3>1, <3>2 DEF TypeOK
    <3> QED
      BY <3>1, <3>3, WaitFrame
  <2>6. CASE \E key \in Keys : See(p, key) \/ Hear(p, key) \/ BackOffOver(p, key)
    BY <2>6, OthersKeepWait DEF See, Hear, BackOffOver, processVars
  <2>7. CASE \E w \in Workers : Begin(p, w) \/ SyncFails(p, w) \/ End(p, w)
    BY <2>7, OthersKeepWait DEF Begin, SyncFails, End, processVars
  <2> QED
    BY <1>3, <2>1, <2>2, <2>3, <2>4, <2>5, <2>6, <2>7 DEF Process
<1> QED
  BY <1>1, <1>2, <1>3 DEF Next

-----------------------------------------------------------------------------
(* Theorems.                                                               *)

LEMMA InitOperator == Init => OperatorInv
<1> SUFFICES ASSUME Init
             PROVE  OperatorInv
  OBVIOUS
<1>1. TypeOK /\ ElectionInv
  BY InitType, InitElection
<1>2. \A p \in Procs : /\ queue[p].processing = {} /\ stage[p] = "down"
                       /\ \A w \in Workers : hands[p][w] = Nothing
  BY DEF Init, NoController, Empty
<1>3. HandsInv /\ WorkersWait
  BY <1>2 DEF HandsInv, HandsKnown, HandsApart, HandsLead, Held, WorkersWait
<1> QED
  BY <1>1, <1>3 DEF OperatorInv

LEMMA NextOperator == OperatorInv /\ [Next]_vars => OperatorInv'
BY NextType, NextElection, NextHands, NextWait DEF OperatorInv, HandsInv

\* The inductive invariant of the operator processes.
THEOREM OperatorInvariant == Safety => []OperatorInv
BY InitOperator, NextOperator, PTL DEF Safety

\* Every variable has its type: a queued key is queued once and nobody's.
THEOREM OperatorTypeCorrect == Safety => []TypeOK
<1>1. OperatorInv => TypeOK
  BY DEF OperatorInv
<1> QED
  BY <1>1, OperatorInvariant, PTL

\* No job is synced twice at a time: processNextWorkItem's workers share a queue
\* that hands out a key once, and the processes a lease.
THEOREM OneSyncAtATime == Safety => []OneSyncPerKey
<1>1. OperatorInv => OneSyncPerKey
  <2> SUFFICES ASSUME OperatorInv, NEW p \in Procs, NEW q \in Procs,
                      NEW v \in Workers, NEW w \in Workers,
                      hands[p][v] = hands[q][w], hands[p][v] # Nothing
               PROVE  p = q /\ v = w
    BY DEF OneSyncPerKey
  <2>1. Leading(p) /\ Leading(q)
    BY DEF OperatorInv, HandsInv, HandsLead, Leading
  <2>2. p = q
    BY <2>1 DEF OperatorInv, ElectionInv, LeaderHolds
  <2> QED
    BY <2>2 DEF OperatorInv, HandsInv, HandsApart
<1> QED
  BY <1>1, OperatorInvariant, PTL

\* Run waits for all caches before it starts workers, and no key is in a
\* worker's hands before.
THEOREM CachesFilled == Safety => []SyncsReadFilledCaches
<1>1. OperatorInv => SyncsReadFilledCaches
  BY DEF OperatorInv, HandsInv, HandsLead, WorkersWait, SyncsReadFilledCaches
<1> QED
  BY <1>1, OperatorInvariant, PTL
=============================================================================
