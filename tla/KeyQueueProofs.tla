----------------------------- MODULE KeyQueueProofs -----------------------------
(***************************************************************************)
(* Operator implements the safety part of KeyQueue: every step of the      *)
(* processes, their informers, queues and workers is a step of the promise *)
(* that the reconciliation is written against, or leaves it alone.         *)
(*                                                                         *)
(* The steps that matter are those at which keys change hands: a new       *)
(* leader's first workers start when all keys are due (Covered: between    *)
(* the first list and the start of the workers nothing is forgotten), a    *)
(* stopping one leaves them due, and a key that a worker takes is one that *)
(* was due (QueueOpen: what is added while the workers run is accepted).   *)
(***************************************************************************)
EXTENDS OperatorProofs

\* Only a worker with a key has an error to return.
ErredBusy == \A p \in Procs : \A w \in erred[p] : hands[p][w] # Nothing

QueueOpen == \A p \in Procs : queue[p].shuttingDown => stage[p] = "draining"

\* The list of the GroupJobs needs the CRD.
CRDListed == \A p \in Procs : informers[p][JobInformer] = "synced" => crd

Noted(p, key) == news[p][key] # "heard" \/ key \in queue[p].waiting \cup queue[p].dirty

\* Before a process has workers, every job is on its way to them.
Covered ==
    \A p \in Procs, key \in Keys : stage[p] \notin WithWorkers => Noted(p, key)

DueInv == ErredBusy /\ QueueOpen /\ CRDListed /\ Covered

-----------------------------------------------------------------------------
(* DueInv is an invariant.                                                 *)

\* A process that does not get or lose its workers, and keeps its keys.
LEMMA DueFrame ==
    ASSUME DueInv, crd => crd',
           \A p \in Procs :
                /\ erred'[p] = erred[p] /\ hands'[p] = hands[p]
                /\ informers'[p][JobInformer] = "synced" => informers[p][JobInformer] = "synced"
                /\ queue'[p].shuttingDown => queue[p].shuttingDown
                /\ stage[p] = "draining" => stage'[p] = "draining"
                /\ stage'[p] \notin WithWorkers =>
                      stage[p] \notin WithWorkers
                      /\ \A key \in Keys : Noted(p, key) => Noted(p, key)'
    PROVE  DueInv'
<1>1. ErredBusy'
  BY DEF DueInv, ErredBusy
<1>2. QueueOpen'
  BY DEF DueInv, QueueOpen
<1>3. CRDListed'
  BY DEF DueInv, CRDListed
<1>4. Covered'
  BY DEF DueInv, Covered
<1> QED
  BY <1>1, <1>2, <1>3, <1>4 DEF DueInv

LEMMA GoneDue ==
    ASSUME TypeOK, DueInv, NEW p \in Procs, Gone(p)
    PROVE  DueInv'
<1>1. /\ erred'[p] = {} /\ ~queue'[p].shuttingDown
      /\ informers'[p][JobInformer] = "requested" /\ \A key \in Keys : news'[p][key] = "unlisted"
  BY ConstantsAssumption DEF TypeOK, Gone, NoController, Empty, InformerFor
<1>2. \A q \in Procs \ {p} :
          /\ stage'[q] = stage[q] /\ informers'[q] = informers[q] /\ news'[q] = news[q]
          /\ queue'[q] = queue[q] /\ hands'[q] = hands[q] /\ erred'[q] = erred[q]
  BY DEF TypeOK, Gone
<1>3. UNCHANGED crd
  BY DEF Gone
<1>4. ErredBusy'
  BY <1>1, <1>2 DEF DueInv, ErredBusy
<1>5. QueueOpen'
  BY <1>1, <1>2 DEF DueInv, QueueOpen
<1>6. CRDListed'
  BY <1>1, <1>2, <1>3 DEF DueInv, CRDListed
<1>7. Covered'
  BY <1>1, <1>2 DEF DueInv, Covered, Noted
<1> QED
  BY <1>4, <1>5, <1>6, <1>7 DEF DueInv

LEMMA StageStepDue ==
    ASSUME TypeOK, DueInv, NEW p \in Procs,
           Start(p) \/ Acquire(p) \/ StartWorkers(p)
    PROVE  DueInv'
<1>1. UNCHANGED <<crd, controllerVars>>
  BY DEF Start, Acquire, StartWorkers
<1>2. \A q \in Procs : /\ stage[q] = "draining" => stage'[q] = "draining"
                       /\ stage'[q] \notin WithWorkers => stage[q] \notin WithWorkers
  BY DEF TypeOK, Start, Acquire, StartWorkers, WithWorkers
<1> QED
  BY <1>1, <1>2, DueFrame DEF controllerVars, Noted

LEMMA StopControllerDue ==
    ASSUME TypeOK, DueInv, NEW p \in Procs, StopController(p)
    PROVE  DueInv'
<1>1. UNCHANGED <<crd, informers, news, hands, erred>>
  BY DEF StopController
<1>2. /\ stage'[p] = "draining"
      /\ \A q \in Procs \ {p} : stage'[q] = stage[q] /\ queue'[q] = queue[q]
  BY DEF TypeOK, StopController
<1>3. ErredBusy' /\ CRDListed'
  BY <1>1 DEF DueInv, ErredBusy, CRDListed
<1>4. QueueOpen'
  BY <1>2 DEF DueInv, QueueOpen
<1>5. Covered'
  BY <1>1, <1>2 DEF DueInv, Covered, Noted, WithWorkers
<1> QED
  BY <1>3, <1>4, <1>5 DEF DueInv

LEMMA InformerStepDue ==
    ASSUME TypeOK, DueInv, NEW p \in Procs, NEW i \in Informers,
           StartInformer(p, i) \/ SyncInformer(p, i)
    PROVE  DueInv'
<1>1. UNCHANGED <<crd, stage, queue, hands, erred>>
  BY DEF StartInformer, SyncInformer, processVars
<1>2. ErredBusy' /\ QueueOpen'
  BY <1>1 DEF DueInv, ErredBusy, QueueOpen
<1>3. CRDListed'
  <2>1. PICK state : informers' = [informers EXCEPT ![p][i] = state]
                     /\ (state = "synced" /\ i = JobInformer => crd)
    BY DEF StartInformer, SyncInformer
  <2> QED
    BY <1>1, <2>1, ConstantsAssumption DEF TypeOK, DueInv, CRDListed
<1>4. \A q \in Procs, key \in Keys : news'[q][key] = news[q][key] \/ news'[q][key] = "unheard"
  <2>1. UNCHANGED news \/ news' = [news EXCEPT ![p] = [k \in Keys |-> "unheard"]]
    BY DEF StartInformer, SyncInformer
  <2> QED
    BY <2>1 DEF TypeOK
<1>5. Covered'
  BY <1>1, <1>4 DEF DueInv, Covered, Noted
<1> QED
  BY <1>2, <1>3, <1>5 DEF DueInv

LEMMA NewsDue ==
    ASSUME TypeOK, DueInv, UNCHANGED <<crd, stage, informers, queue, hands, erred>>,
           \A q \in Procs, key \in Keys : news'[q][key] = "heard" => news[q][key] = "heard"
    PROVE  DueInv'
BY DueFrame DEF Noted

LEMMA HearDue ==
    ASSUME TypeOK, DueInv, NEW p \in Procs, NEW key \in Keys, Hear(p, key)
    PROVE  DueInv' /\ (~queue[p].shuttingDown => \A k \in Keys : Noted(p, k)' <=> Noted(p, k))
<1> DEFINE r == AddRateLimited(queue[p], key)
<1>1. UNCHANGED <<crd, stage, informers, hands, erred>> /\ news[p][key] = "unheard"
  BY DEF Hear, processVars
<1>2. /\ r.dirty = queue[p].dirty /\ (r.shuttingDown <=> queue[p].shuttingDown)
      /\ (~queue[p].shuttingDown => r.waiting = queue[p].waiting \cup {key})
  BY AddRateLimitedQueue DEF TypeOK
<1>3. queue' = [queue EXCEPT ![p] = r] /\ news' = [news EXCEPT ![p][key] = "heard"]
  BY DEF Hear
<1> HIDE DEF r
<1>4. /\ queue'[p] = r /\ \A q \in Procs \ {p} : queue'[q] = queue[q]
      /\ \A k \in Keys \ {key} : news'[p][k] = news[p][k]
      /\ \A q \in Procs \ {p} : news'[q] = news[q]
  BY <1>3 DEF TypeOK
<1>5. ~queue[p].shuttingDown => \A k \in Keys : Noted(p, k)' <=> Noted(p, k)
  BY <1>1, <1>2, <1>4 DEF Noted
<1>6. \A q \in Procs \ {p}, k \in Keys : Noted(q, k) => Noted(q, k)'
  BY <1>4 DEF Noted
<1>7. stage[p] \notin WithWorkers => ~queue[p].shuttingDown
  BY DEF DueInv, QueueOpen, WithWorkers
<1>8. Covered'
  BY <1>1, <1>5, <1>6, <1>7 DEF DueInv, Covered
<1>9. QueueOpen'
  BY <1>1, <1>2, <1>4 DEF DueInv, QueueOpen
<1>10. ErredBusy' /\ CRDListed'
  BY <1>1 DEF DueInv, ErredBusy, CRDListed
<1> QED
  BY <1>5, <1>8, <1>9, <1>10 DEF DueInv

LEMMA BackOffOverDue ==
    ASSUME TypeOK, DueInv, NEW p \in Procs, NEW key \in Keys, BackOffOver(p, key)
    PROVE  DueInv' /\ (~queue[p].shuttingDown => \A k \in Keys : Noted(p, k)' <=> Noted(p, k))
<1> DEFINE r == Ready(queue[p], key)
<1>1. UNCHANGED <<crd, stage, informers, news, hands, erred>> /\ key \in queue[p].waiting
  BY DEF BackOffOver, processVars
<1>2. /\ r.waiting = queue[p].waiting \ {key} /\ (r.shuttingDown <=> queue[p].shuttingDown)
      /\ (~queue[p].shuttingDown => r.dirty = queue[p].dirty \cup {key})
  BY ReadyQueue DEF TypeOK
<1>3. queue' = [queue EXCEPT ![p] = r]
  BY DEF BackOffOver
<1> HIDE DEF r
<1>4. queue'[p] = r /\ \A q \in Procs \ {p} : queue'[q] = queue[q]
  BY <1>3 DEF TypeOK
<1>5. ~queue[p].shuttingDown => \A k \in Keys : Noted(p, k)' <=> Noted(p, k)
  BY <1>1, <1>2, <1>4 DEF Noted
<1>6. \A q \in Procs \ {p}, k \in Keys : Noted(q, k) => Noted(q, k)'
  BY <1>1, <1>4 DEF Noted
<1>7. stage[p] \notin WithWorkers => ~queue[p].shuttingDown
  BY DEF DueInv, QueueOpen, WithWorkers
<1>8. Covered'
  BY <1>1, <1>5, <1>6, <1>7 DEF DueInv, Covered
<1>9. QueueOpen'
  BY <1>1, <1>2, <1>4 DEF DueInv, QueueOpen
<1>10. ErredBusy' /\ CRDListed'
  BY <1>1 DEF DueInv, ErredBusy, CRDListed
<1> QED
  BY <1>5, <1>8, <1>9, <1>10 DEF DueInv

LEMMA BeginDue ==
    ASSUME TypeOK, DueInv, NEW p \in Procs, NEW w \in Workers, Begin(p, w)
    PROVE  /\ DueInv'
           /\ LET key == Head(queue[p].queue) IN
              /\ key \in Keys /\ key \in queue[p].dirty \ queue[p].processing
              /\ hands' = [hands EXCEPT ![p][w] = key]
              /\ \A k \in Keys \ {key} : Noted(p, k)' <=> Noted(p, k)
<1> DEFINE key == Head(queue[p].queue)
           r == Get(queue[p])
<1>1. /\ UNCHANGED <<crd, stage, informers, news, erred>>
      /\ hands[p][w] = Nothing /\ stage[p] \in WithWorkers
  BY DEF Begin, processVars, WithWorkers
<1>2. /\ key \in Keys /\ key \in queue[p].dirty \ queue[p].processing
      /\ r.dirty = queue[p].dirty \ {key} /\ r.waiting = queue[p].waiting
      /\ (r.shuttingDown <=> queue[p].shuttingDown)
  <2>1. queue[p] \in QueueType(Keys) /\ canGet(queue[p])
    BY DEF TypeOK, Begin
  <2> QED
    BY <2>1, GetQueue
<1>3. hands' = [hands EXCEPT ![p][w] = key] /\ queue' = [queue EXCEPT ![p] = r]
  BY DEF Begin
<1> HIDE DEF key, r
<1>4. /\ queue'[p] = r /\ \A q \in Procs \ {p} : queue'[q] = queue[q]
      /\ hands'[p][w] = key
      /\ \A q \in Procs, v \in Workers : q # p \/ v # w => hands'[q][v] = hands[q][v]
  BY <1>3 DEF TypeOK
<1>5. \A k \in Keys \ {key} : Noted(p, k)' <=> Noted(p, k)
  BY <1>1, <1>2, <1>4 DEF Noted
<1>6. ErredBusy'
  <2>1. key # Nothing /\ \A q \in Procs : erred[q] \in SUBSET Workers
    BY <1>2, ConstantsAssumption DEF TypeOK
  <2> QED
    BY <1>1, <1>4, <2>1 DEF DueInv, ErredBusy
<1>7. QueueOpen' /\ CRDListed'
  BY <1>1, <1>2, <1>4 DEF DueInv, QueueOpen, CRDListed
<1>8. Covered'
  BY <1>1, <1>4 DEF DueInv, Covered, Noted
<1> QED
  BY <1>2, <1>3, <1>5, <1>6, <1>7, <1>8 DEF DueInv, key

LEMMA EndDue ==
    ASSUME TypeOK, HandsInv, DueInv, NEW p \in Procs, NEW w \in Workers, End(p, w),
           NEW key \in Keys, key = hands[p][w]
    PROVE  /\ DueInv'
           /\ \A k \in Keys \ {key} : Noted(p, k)' <=> Noted(p, k)
           /\ w \in erred[p] /\ ~queue[p].shuttingDown => Noted(p, key)'
           /\ w \notin erred[p] => (Noted(p, key)' <=> Noted(p, key))
<1>1. /\ UNCHANGED <<crd, stage, informers, news>> /\ stage[p] \in WithWorkers
      /\ hands' = [hands EXCEPT ![p][w] = Nothing]
      /\ erred' = [erred EXCEPT ![p] = erred[p] \ {w}]
  BY DEF End, processVars, HandsInv, HandsLead, WithWorkers
<1>2. /\ queue'[p].dirty = queue[p].dirty
      /\ \A q \in Procs \ {p} : queue'[q] = queue[q]
      /\ (queue'[p].shuttingDown <=> queue[p].shuttingDown)
      /\ w \in erred[p] /\ ~queue[p].shuttingDown =>
             queue'[p].waiting = queue[p].waiting \cup {key}
      /\ w \in erred[p] /\ queue[p].shuttingDown => queue'[p].waiting = queue[p].waiting
      /\ w \notin erred[p] => queue'[p].waiting = queue[p].waiting
  BY EndQueue DEF HandsInv
<1>3. /\ \A k \in Keys \ {key} : Noted(p, k)' <=> Noted(p, k)
      /\ w \in erred[p] /\ ~queue[p].shuttingDown => Noted(p, key)'
      /\ w \notin erred[p] => (Noted(p, key)' <=> Noted(p, key))
  BY <1>1, <1>2 DEF Noted
<1>4. ErredBusy'
  BY <1>1 DEF TypeOK, DueInv, ErredBusy
<1>5. QueueOpen' /\ CRDListed'
  BY <1>1, <1>2 DEF DueInv, QueueOpen, CRDListed
<1>6. Covered'
  BY <1>1, <1>2 DEF DueInv, Covered, Noted
<1> QED
  BY <1>3, <1>4, <1>5, <1>6 DEF DueInv

LEMMA SyncFailsDue ==
    ASSUME TypeOK, DueInv, NEW p \in Procs, NEW w \in Workers, SyncFails(p, w)
    PROVE  DueInv'
<1>1. UNCHANGED <<crd, stage, informers, news, queue, hands>>
      /\ hands[p][w] # Nothing /\ erred' = [erred EXCEPT ![p] = erred[p] \cup {w}]
  BY DEF SyncFails, processVars
<1>2. ErredBusy'
  BY <1>1 DEF TypeOK, DueInv, ErredBusy
<1>3. QueueOpen' /\ CRDListed' /\ Covered'
  BY <1>1 DEF DueInv, QueueOpen, CRDListed, Covered, Noted
<1> QED
  BY <1>2, <1>3 DEF DueInv

\* A change is noted by every process that has workers, and forgotten by none.
LEMMA ChangeDue ==
    ASSUME TypeOK, DueInv, NEW key \in Keys, Change(key)
    PROVE  /\ DueInv'
           /\ \A p \in Procs : /\ Noted(p, key)'
                               /\ \A k \in Keys \ {key} : Noted(p, k)' <=> Noted(p, k)
<1>1. UNCHANGED <<crd, stage, informers, queue, hands, erred>>
  BY DEF Change, processVars
<1>2. \A p \in Procs : /\ news'[p][key] # "heard"
                       /\ \A k \in Keys \ {key} : news'[p][k] = news[p][k]
  BY DEF TypeOK, Change
<1>3. \A q \in Procs, k \in Keys : news'[q][k] = "heard" => news[q][k] = "heard"
  BY <1>2
<1> QED
  BY <1>1, <1>2, <1>3, NewsDue DEF Noted

LEMMA SeeDue ==
    ASSUME TypeOK, DueInv, NEW p \in Procs, NEW key \in Keys, See(p, key)
    PROVE  DueInv' /\ \A q \in Procs, k \in Keys : Noted(q, k)' <=> Noted(q, k)
<1>1. UNCHANGED <<crd, stage, informers, queue, hands, erred>>
  BY DEF See, processVars
<1>2. \A q \in Procs, k \in Keys : news'[q][k] = "heard" <=> news[q][k] = "heard"
  <2>1. news[p][key] = "unseen" /\ news' = [news EXCEPT ![p][key] = "unheard"]
    BY DEF See
  <2> QED
    BY <2>1 DEF TypeOK
<1> QED
  BY <1>1, <1>2, NewsDue DEF Noted

LEMMA InitDue == Init => DueInv
<1> SUFFICES ASSUME Init
             PROVE  DueInv
  OBVIOUS
<1>1. \A p \in Procs : /\ erred[p] = {} /\ ~queue[p].shuttingDown
                       /\ informers[p][JobInformer] = "requested"
                       /\ \A key \in Keys : news[p][key] = "unlisted"
  BY ConstantsAssumption DEF Init, NoController, Empty, InformerFor
<1> QED
  BY <1>1 DEF DueInv, ErredBusy, QueueOpen, CRDListed, Covered, Noted

LEMMA NextDue == ASSUME TypeOK, HandsInv, DueInv, [Next]_vars PROVE DueInv'
<1>1. CASE UNCHANGED vars
  BY <1>1, DueFrame DEF vars, processVars, controllerVars, Noted
<1>2. CASE Tick \/ InstallCRD
  BY <1>2, DueFrame DEF Tick, InstallCRD, controllerVars, Noted
<1>3. CASE \E key \in Keys : Change(key)
  BY <1>3, ChangeDue
<1>4. ASSUME NEW p \in Procs, Process(p)
      PROVE  DueInv'
  <2>1. CASE Crash(p) \/ Stopped(p) \/ LoseLease(p) \/ \E i \in Informers : WatchRefused(p, i)
    BY <2>1, GoneDue DEF Crash, Stopped, LoseLease, WatchRefused
  <2>2. CASE Start(p) \/ Acquire(p) \/ StartWorkers(p)
    BY <2>2, StageStepDue
  <2>3. CASE StopController(p)
    BY <2>3, StopControllerDue
  <2>4. CASE Signal(p) \/ Observe(p) \/ Renew(p)
    BY <2>4, DueFrame DEF Signal, Observe, Renew, controllerVars, Noted
  <2>5. CASE \E i \in Informers : StartInformer(p, i) \/ SyncInformer(p, i)
    BY <2>5, InformerStepDue
  <2>6. CASE \E key \in Keys : See(p, key) \/ Hear(p, key) \/ BackOffOver(p, key)
    BY <2>6, SeeDue, HearDue, BackOffOverDue
  <2>7. CASE \E w \in Workers : Begin(p, w) \/ SyncFails(p, w) \/ End(p, w)
    BY <2>7, BeginDue, SyncFailsDue, EndDue, EndQueue DEF HandsInv
  <2> QED
    BY <1>4, <2>1, <2>2, <2>3, <2>4, <2>5, <2>6, <2>7 DEF Process
<1> QED
  BY <1>1, <1>2, <1>3, <1>4 DEF Next

-----------------------------------------------------------------------------
(* What due, busy and failing are, where anything leads and where nothing  *)
(* does.                                                                   *)

DueShape ==
    /\ ~crd => Due = {}
    /\ crd /\ Working = {} => Due = Keys
    /\ \A p \in Working : Working = {p} /\ crd /\ Due = {key \in Keys : Noted(p, key)}

BusyShape ==
    /\ Busy \subseteq Keys /\ Failing \subseteq Busy
    /\ \A p \in Procs : Leading(p) =>
          Busy = Held(p) /\ Failing = {hands[p][w] : w \in erred[p]}

MapInv == OperatorInv /\ DueInv /\ DueShape /\ BusyShape

LEMMA LeadsAlone ==
    ASSUME OperatorInv, NEW p \in Procs, Leading(p), NEW q \in Procs, Leading(q)
    PROVE  p = q
BY DEF OperatorInv, ElectionInv, LeaderHolds

LEMMA Shapes == OperatorInv /\ DueInv => DueShape /\ BusyShape
<1> SUFFICES ASSUME OperatorInv, DueInv
             PROVE  DueShape /\ BusyShape
  OBVIOUS
<1>1. DueShape
  <2>1. ASSUME NEW p \in Working
        PROVE  Working = {p} /\ crd
    <3>1. p \in Procs /\ Leading(p) /\ stage[p] = "working"
      BY DEF Working, Leading
    <3>2. \A q \in Working : q = p
      BY <3>1, LeadsAlone DEF Working, Leading
    <3>3. crd
      BY <3>1, ConstantsAssumption DEF OperatorInv, WorkersWait, DueInv, CRDListed
    <3> QED
      BY <3>2, <3>3
  <2>2. ASSUME NEW p \in Working
        PROVE  Due = {key \in Keys : Noted(p, key)}
    BY <2>1 DEF Due, Noted
  <2> QED
    BY <2>1, <2>2 DEF DueShape, Due
<1>2. BusyShape
  <2>1. Busy \subseteq Keys /\ Failing \subseteq Busy
    BY DEF OperatorInv, TypeOK, Busy, Failing
  <2>2. ASSUME NEW p \in Procs, Leading(p)
        PROVE  Busy = Held(p) /\ Failing = {hands[p][w] : w \in erred[p]}
    <3>1. \A q \in Procs, w \in Workers : hands[q][w] # Nothing => q = p
      BY <2>2, LeadsAlone DEF OperatorInv, HandsInv, HandsLead, Leading
    <3>2. \A q \in Procs, w \in Workers : hands[q][w] \in Keys \cup {Nothing}
      BY DEF OperatorInv, TypeOK
    <3>3. \A q \in Procs : erred[q] \subseteq Workers /\ \A w \in erred[q] : hands[q][w] # Nothing
      BY DEF OperatorInv, TypeOK, DueInv, ErredBusy
    <3>4. Busy = Held(p)
      BY <3>1, <3>2, ConstantsAssumption DEF Busy, Held
    <3>5. Failing = {hands[p][w] : w \in erred[p]}
      BY <3>1, <3>2, <3>3, ConstantsAssumption DEF Failing
    <3> QED
      BY <3>4, <3>5
  <2> QED
    BY <2>1, <2>2 DEF BusyShape
<1> QED
  BY <1>1, <1>2

LEMMA MapInvariant == Safety => []MapInv
<1>1. OperatorInv /\ DueInv /\ [Next]_vars => DueInv'
  BY NextDue DEF OperatorInv
<1>2. Safety => [](OperatorInv /\ DueInv)
  BY <1>1, InitDue, InitOperator, NextOperator, PTL DEF Safety
<1>3. OperatorInv /\ DueInv => MapInv
  BY Shapes DEF MapInv
<1> QED
  BY <1>2, <1>3, PTL

\* Due looks at the CRD, at who works and at what is noted there; busy and
\* failing at the workers.
LEMMA DueSame ==
    ASSUME DueShape, DueShape', UNCHANGED <<crd, Working>>,
           \A p \in Working, key \in Keys : Noted(p, key)' <=> Noted(p, key)
    PROVE  Due' = Due
BY DEF DueShape

LEMMA BusySame ==
    ASSUME UNCHANGED <<hands, erred>>
    PROVE  UNCHANGED <<Busy, Failing>>
BY DEF Busy, Failing

LEMMA Stutters ==
    ASSUME MapInv, MapInv', UNCHANGED <<crd, Working, hands, erred>>,
           \A p \in Working, key \in Keys : Noted(p, key)' <=> Noted(p, key)
    PROVE  UNCHANGED KQ!vars
BY DueSame, BusySame DEF MapInv, KQ!vars

\* While the CRD is there and nobody works, every key is due.
LEMMA RestartStep ==
    ASSUME MapInv, MapInv', crd', Working' = {},
           \/ UNCHANGED <<hands, erred>>
           \/ Busy' = {}
    PROVE  KQ!Restart
<1>1. Due' = Keys
  BY DEF MapInv, DueShape
<1>2. CASE UNCHANGED <<hands, erred>>
  <2>1. Busy' = Busy \ {} /\ Failing' = Failing \ {}
    BY <1>2, BusySame
  <2> QED
    BY <1>1, <2>1 DEF KQ!Restart
<1>3. CASE Busy' = {}
  <2>1. Busy' = Busy \ Busy /\ Failing' = Failing \ Busy
    BY <1>3 DEF MapInv, BusyShape
  <2> QED
    BY <1>1, <2>1 DEF KQ!Restart
<1> QED
  BY <1>2, <1>3

-----------------------------------------------------------------------------
(* Each step of the operator is a step of KeyQueue or a stutter.           *)

\* A process that ends takes with it what it was working on.
LEMMA GoneMaps ==
    ASSUME MapInv, MapInv', NEW p \in Procs, Gone(p)
    PROVE  KQ!Restart \/ UNCHANGED KQ!vars
<1>1. /\ UNCHANGED crd /\ stage'[p] = "down" /\ erred'[p] = {}
      /\ \A w \in Workers : hands'[p][w] = Nothing
      /\ \A q \in Procs \ {p} :
            /\ stage'[q] = stage[q] /\ signalled'[q] = signalled[q] /\ news'[q] = news[q]
            /\ queue'[q] = queue[q] /\ hands'[q] = hands[q] /\ erred'[q] = erred[q]
  BY DEF MapInv, OperatorInv, TypeOK, Gone, NoController
<1>2. CASE p \notin Working /\ \A w \in Workers : hands[p][w] = Nothing
  <2>1. UNCHANGED Working
    BY <1>1, <1>2 DEF Working
  <2>2. UNCHANGED <<hands, erred>>
    <3>1. hands' = [hands EXCEPT ![p] = [w \in Workers |-> Nothing]]
          /\ erred' = [erred EXCEPT ![p] = {}]
      BY DEF Gone, NoController
    <3>2. hands \in [Procs -> [Workers -> Keys \cup {Nothing}]] /\ erred \in [Procs -> SUBSET Workers]
      BY DEF MapInv, OperatorInv, TypeOK
    <3>3. hands[p] = [w \in Workers |-> Nothing]
      BY <1>2, <3>2
    <3>4. erred[p] = {}
      BY <1>2, <3>2 DEF MapInv, DueInv, ErredBusy
    <3> QED
      BY <3>1, <3>2, <3>3, <3>4
  <2>3. \A q \in Working, key \in Keys : Noted(q, key)' <=> Noted(q, key)
    BY <1>1, <1>2 DEF Noted, Working
  <2> QED
    BY <1>1, <2>1, <2>2, <2>3, Stutters
<1>3. CASE p \in Working \/ \E w \in Workers : hands[p][w] # Nothing
  <2>1. stage[p] \in WithWorkers /\ Leading(p)
    BY <1>3 DEF MapInv, OperatorInv, HandsInv, HandsLead, Working, WithWorkers, Leading
  <2>2. crd'
    BY <1>1, <2>1, ConstantsAssumption
       DEF MapInv, OperatorInv, WorkersWait, DueInv, CRDListed, WithWorkers
  <2>3. \A q \in Procs \ {p} : ~Leading(q)
    BY <2>1, LeadsAlone DEF MapInv
  <2>4. Working' = {}
    BY <1>1, <2>3 DEF Working, Leading
  <2>5. \A q \in Procs, w \in Workers : hands'[q][w] = Nothing
    BY <1>1, <2>3 DEF MapInv, OperatorInv, HandsInv, HandsLead, Leading
  <2>6. Busy' = {}
    BY <2>5, ConstantsAssumption DEF Busy
  <2> QED
    BY <2>2, <2>4, <2>6, RestartStep
<1> QED
  BY <1>2, <1>3

\* The lease and the life of a process that has no workers, or stops them on a
\* signal, are not seen.
LEMMA QuietSteps ==
    ASSUME MapInv, MapInv',
           \/ Tick
           \/ \E p \in Procs :
                Start(p) \/ Acquire(p) \/ Observe(p) \/ Renew(p) \/ StopController(p)
    PROVE  UNCHANGED KQ!vars
<1>1. UNCHANGED <<crd, informers, news, hands, erred>>
  BY DEF Tick, Start, Acquire, Observe, Renew, StopController, controllerVars
<1>2. /\ UNCHANGED Working
      /\ \A q \in Working : queue'[q] = queue[q]
  BY DEF MapInv, OperatorInv, TypeOK, Tick, Start, Acquire, Observe, Renew, StopController,
         controllerVars, Working
<1>3. \A q \in Working, key \in Keys : Noted(q, key)' <=> Noted(q, key)
  BY <1>1, <1>2 DEF Noted
<1> QED
  BY <1>1, <1>2, <1>3, Stutters

LEMMA SignalMaps ==
    ASSUME MapInv, MapInv', NEW p \in Procs, Signal(p)
    PROVE  KQ!Restart \/ UNCHANGED KQ!vars
<1>1. UNCHANGED <<crd, stage, news, queue, hands, erred>>
      /\ signalled'[p] /\ \A q \in Procs \ {p} : signalled'[q] = signalled[q]
  BY DEF MapInv, OperatorInv, TypeOK, Signal, controllerVars
<1>2. CASE p \in Working
  <2>1. crd' /\ Working' = {}
    BY <1>1, <1>2 DEF MapInv, DueShape, Working
  <2> QED
    BY <1>1, <2>1, RestartStep
<1>3. CASE p \notin Working
  <2>1. UNCHANGED Working /\ \A q \in Working, key \in Keys : Noted(q, key)' <=> Noted(q, key)
    BY <1>1, <1>3 DEF Noted, Working
  <2> QED
    BY <1>1, <2>1, Stutters
<1> QED
  BY <1>2, <1>3

\* The first workers of a new leader find every key due.
LEMMA StartWorkersMaps ==
    ASSUME MapInv, MapInv', NEW p \in Procs, StartWorkers(p)
    PROVE  UNCHANGED KQ!vars
<1>1. /\ UNCHANGED <<crd, signalled, informers, news, queue, hands, erred>>
      /\ stage[p] = "syncing" /\ stage'[p] = "working" /\ ~signalled[p] /\ allSynced(p)
  BY DEF MapInv, OperatorInv, TypeOK, StartWorkers, controllerVars, leaseVars
<1>2. p \in Working' /\ Working = {}
  <2>1. \A q \in Procs : Leading(q) => q = p
    BY <1>1, LeadsAlone DEF MapInv, Leading
  <2> QED
    BY <1>1, <2>1 DEF Working, Leading
<1>3. crd
  BY <1>1, ConstantsAssumption DEF MapInv, DueInv, CRDListed, allSynced
<1>4. Due = Keys
  BY <1>2, <1>3 DEF MapInv, DueShape
<1>5. Due' = Keys
  <2>1. \A key \in Keys : Noted(p, key)
    BY <1>1 DEF MapInv, DueInv, Covered, WithWorkers
  <2>2. \A key \in Keys : Noted(p, key)'
    BY <1>1, <2>1 DEF Noted
  <2>3. Due' = {key \in Keys : Noted(p, key)'}
    BY <1>2 DEF MapInv, DueShape
  <2> QED
    BY <2>2, <2>3
<1> QED
  BY <1>1, <1>4, <1>5, BusySame DEF KQ!vars

LEMMA InformerStepMaps ==
    ASSUME MapInv, MapInv', NEW p \in Procs, NEW i \in Informers,
           StartInformer(p, i) \/ SyncInformer(p, i)
    PROVE  UNCHANGED KQ!vars
<1>1. UNCHANGED <<crd, stage, signalled, queue, hands, erred>> /\ informers[p][i] # "synced"
  BY DEF StartInformer, SyncInformer, processVars
<1>2. p \notin Working
  BY <1>1 DEF MapInv, OperatorInv, WorkersWait, Working
<1>3. \A q \in Procs \ {p} : news'[q] = news[q]
  BY DEF MapInv, OperatorInv, TypeOK, StartInformer, SyncInformer
<1>4. UNCHANGED Working /\ \A q \in Working, key \in Keys : Noted(q, key)' <=> Noted(q, key)
  BY <1>1, <1>2, <1>3 DEF Noted, Working
<1> QED
  BY <1>1, <1>4, Stutters

LEMMA NewsStepMaps ==
    ASSUME MapInv, MapInv', NEW p \in Procs, NEW key \in Keys,
           See(p, key) \/ Hear(p, key) \/ BackOffOver(p, key)
    PROVE  UNCHANGED KQ!vars
<1>1. UNCHANGED <<crd, stage, signalled, hands, erred>>
  BY DEF See, Hear, BackOffOver, processVars
<1>2. UNCHANGED Working
  BY <1>1 DEF Working
<1>3. \A q \in Procs \ {p} : news'[q] = news[q] /\ queue'[q] = queue[q]
  BY DEF MapInv, OperatorInv, TypeOK, See, Hear, BackOffOver
<1>4. ~queue[p].shuttingDown => \A k \in Keys : Noted(p, k)' <=> Noted(p, k)
  BY SeeDue, HearDue, BackOffOverDue DEF MapInv, OperatorInv
<1>5. \A q \in Working : q \in Procs /\ ~queue[q].shuttingDown
  BY DEF MapInv, DueInv, QueueOpen, Working
<1>6. \A q \in Working, k \in Keys : Noted(q, k)' <=> Noted(q, k)
  BY <1>3, <1>4, <1>5 DEF Noted
<1> QED
  BY <1>1, <1>2, <1>6, Stutters

LEMMA ChangeMaps ==
    ASSUME MapInv, MapInv', NEW key \in Keys, Change(key)
    PROVE  KQ!Request(key)
<1>1. crd /\ UNCHANGED <<crd, stage, signalled, hands, erred>>
  BY DEF Change, processVars
<1>2. UNCHANGED Working
  BY <1>1 DEF Working
<1>3. \A p \in Procs : Noted(p, key)' /\ \A k \in Keys \ {key} : Noted(p, k)' <=> Noted(p, k)
  BY ChangeDue DEF MapInv, OperatorInv
<1>4. Due' = Due \cup {key}
  <2>1. CASE Working = {}
    BY <1>1, <1>2, <2>1 DEF MapInv, DueShape
  <2>2. ASSUME NEW p \in Working
        PROVE  Due' = Due \cup {key}
    <3>1. Due = {k \in Keys : Noted(p, k)} /\ Due' = {k \in Keys : Noted(p, k)'}
      BY <1>2, <2>2 DEF MapInv, DueShape
    <3>2. p \in Procs
      BY DEF Working
    <3> QED
      BY <1>3, <3>1, <3>2
  <2> QED
    BY <2>1, <2>2
<1> QED
  BY <1>1, <1>4, BusySame DEF KQ!Request

\* A worker has a key only in a process that leads, with the CRD installed.
LEMMA WorkerLeads ==
    ASSUME MapInv, NEW p \in Procs, stage[p] \in WithWorkers
    PROVE  /\ crd /\ Leading(p) /\ Busy = Held(p) /\ Failing = {hands[p][w] : w \in erred[p]}
           /\ p \notin Working => Working = {} /\ Due = Keys
<1>1. Leading(p)
  BY DEF Leading, WithWorkers
<1>2. crd
  BY ConstantsAssumption DEF MapInv, OperatorInv, WorkersWait, DueInv, CRDListed, WithWorkers
<1>3. p \notin Working => Working = {}
  BY <1>1, LeadsAlone DEF MapInv, Working, Leading
<1> QED
  BY <1>1, <1>2, <1>3 DEF MapInv, DueShape, BusyShape

LEMMA BeginMaps ==
    ASSUME MapInv, MapInv', NEW p \in Procs, NEW w \in Workers, Begin(p, w)
    PROVE  \E key \in Keys : KQ!Begin(key)
<1>1. /\ UNCHANGED <<crd, stage, signalled, informers, erred>>
      /\ hands[p][w] = Nothing /\ stage[p] \in WithWorkers /\ stage'[p] \in WithWorkers
  BY DEF Begin, processVars, WithWorkers
<1>2. PICK key \in Keys :
          /\ key \in queue[p].dirty \ queue[p].processing
          /\ hands' = [hands EXCEPT ![p][w] = key]
          /\ \A k \in Keys \ {key} : Noted(p, k)' <=> Noted(p, k)
  BY BeginDue DEF MapInv, OperatorInv
<1>3. hands'[p][w] = key /\ \A v \in Workers \ {w} : hands'[p][v] = hands[p][v]
  BY <1>2 DEF MapInv, OperatorInv, TypeOK
<1>4. /\ Busy = Held(p) /\ Failing = {hands[p][v] : v \in erred[p]}
      /\ Busy' = Held(p)' /\ Failing' = {hands'[p][v] : v \in erred'[p]}
  BY <1>1, WorkerLeads DEF MapInv, BusyShape, Leading, WithWorkers
<1>5. key # Nothing
  BY ConstantsAssumption
<1>6. Busy' = Busy \cup {key}
  BY <1>1, <1>3, <1>4, <1>5 DEF Held
<1>7. Failing' = Failing
  <2>1. w \notin erred[p] /\ erred[p] \subseteq Workers
    BY <1>1 DEF MapInv, OperatorInv, TypeOK, DueInv, ErredBusy
  <2> QED
    BY <1>1, <1>3, <1>4, <2>1
<1>8. key \notin Busy
  BY <1>2, <1>4 DEF MapInv, OperatorInv, HandsInv, HandsKnown
<1>9. UNCHANGED Working
  BY <1>1 DEF Working
<1>10. key \in Due /\ Due' \in {Due, Due \ {key}}
  <2>1. CASE p \notin Working
    <3>1. Due = Keys /\ Due' = Keys
      BY <1>1, <1>9, <2>1, WorkerLeads DEF MapInv, DueShape
    <3> QED
      BY <3>1
  <2>2. CASE p \in Working
    <3>1. Due = {k \in Keys : Noted(p, k)} /\ Due' = {k \in Keys : Noted(p, k)'}
      BY <1>9, <2>2 DEF MapInv, DueShape
    <3>2. Noted(p, key)
      BY <1>2 DEF Noted
    <3> QED
      BY <1>2, <3>1, <3>2
  <2> QED
    BY <2>1, <2>2
<1> QED
  BY <1>6, <1>7, <1>8, <1>10 DEF KQ!Begin

LEMMA SyncFailsMaps ==
    ASSUME MapInv, MapInv', NEW p \in Procs, NEW w \in Workers, SyncFails(p, w)
    PROVE  \E key \in Keys : KQ!Fail(key)
<1> DEFINE key == hands[p][w]
<1>1. /\ UNCHANGED <<crd, stage, signalled, news, queue, hands>>
      /\ key # Nothing /\ w \notin erred[p] /\ erred' = [erred EXCEPT ![p] = erred[p] \cup {w}]
  BY DEF SyncFails, processVars
<1>2. key \in Keys /\ stage[p] \in WithWorkers /\ stage'[p] \in WithWorkers
  BY <1>1 DEF MapInv, OperatorInv, TypeOK, HandsInv, HandsLead, WithWorkers
<1>3. /\ Busy = Held(p) /\ Failing = {hands[p][v] : v \in erred[p]}
      /\ Busy' = Held(p)' /\ Failing' = {hands'[p][v] : v \in erred'[p]}
  BY <1>2, WorkerLeads DEF MapInv, BusyShape, Leading, WithWorkers
<1>4. Busy' = Busy /\ key \in Busy
  BY <1>1, <1>2, <1>3 DEF Held
<1>5. Failing' = Failing \cup {key}
  <2>1. erred'[p] = erred[p] \cup {w}
    BY <1>1 DEF MapInv, OperatorInv, TypeOK
  <2> QED
    BY <1>1, <1>3, <2>1
<1>6. key \notin Failing
  <2>1. \A v \in erred[p] : v \in Workers /\ v # w
    BY <1>1 DEF MapInv, OperatorInv, TypeOK
  <2> QED
    BY <1>1, <1>3, <2>1 DEF MapInv, OperatorInv, HandsInv, HandsApart
<1>7. Due' = Due
  BY <1>1, DueSame DEF MapInv, Working, Noted
<1> QED
  BY <1>2, <1>4, <1>5, <1>6, <1>7 DEF KQ!Fail

\* A sync that has failed leaves its key due, one that succeeded as it was.
LEMMA EndMaps ==
    ASSUME MapInv, MapInv', NEW p \in Procs, NEW w \in Workers, End(p, w)
    PROVE  \E key \in Keys : KQ!End(key)
<1>1. PICK key \in Keys : key = hands[p][w]
  BY EndQueue DEF MapInv, OperatorInv, HandsInv
<1>2. /\ UNCHANGED <<crd, stage, signalled, informers, news>> /\ key # Nothing
      /\ hands' = [hands EXCEPT ![p][w] = Nothing]
      /\ erred' = [erred EXCEPT ![p] = erred[p] \ {w}]
  BY <1>1 DEF End, processVars
<1>3. stage[p] \in WithWorkers /\ stage'[p] \in WithWorkers
  BY <1>1, <1>2 DEF MapInv, OperatorInv, HandsInv, HandsLead, WithWorkers
<1>4. /\ Busy = Held(p) /\ Failing = {hands[p][v] : v \in erred[p]}
      /\ Busy' = Held(p)' /\ Failing' = {hands'[p][v] : v \in erred'[p]}
  BY <1>3, WorkerLeads DEF MapInv, BusyShape, Leading, WithWorkers
<1>5. /\ hands'[p][w] = Nothing /\ erred'[p] = erred[p] \ {w} /\ erred[p] \subseteq Workers
      /\ \A v \in Workers \ {w} : hands'[p][v] = hands[p][v] /\ hands[p][v] # key
  BY <1>1, <1>2 DEF MapInv, OperatorInv, TypeOK, HandsInv, HandsApart
<1>6. key \in Busy /\ Busy' = Busy \ {key}
  BY <1>1, <1>2, <1>4, <1>5 DEF Held
<1>7. /\ Failing' = Failing \ {key}
      /\ key \in Failing <=> w \in erred[p]
  BY <1>1, <1>4, <1>5
<1>8. UNCHANGED Working
  BY <1>2 DEF Working
<1>9. /\ key \in Failing => Due' = Due \cup {key}
      /\ key \notin Failing => Due' = Due
  <2>1. CASE p \notin Working
    <3>1. Due = Keys /\ Due' = Keys
      BY <1>2, <1>3, <1>8, <2>1, WorkerLeads DEF MapInv, DueShape
    <3> QED
      BY <3>1
  <2>2. CASE p \in Working
    <3>1. Due = {k \in Keys : Noted(p, k)} /\ Due' = {k \in Keys : Noted(p, k)'}
      BY <1>8, <2>2 DEF MapInv, DueShape
    <3>2. ~queue[p].shuttingDown
      BY <2>2 DEF MapInv, DueInv, QueueOpen, Working
    <3>3. /\ \A k \in Keys \ {key} : Noted(p, k)' <=> Noted(p, k)
          /\ w \in erred[p] => Noted(p, key)'
          /\ w \notin erred[p] => (Noted(p, key)' <=> Noted(p, key))
      BY <1>1, <3>2, EndDue DEF MapInv, OperatorInv
    <3> QED
      BY <1>7, <3>1, <3>3
  <2> QED
    BY <2>1, <2>2
<1> QED
  BY <1>6, <1>7, <1>9 DEF KQ!End

LEMMA StepMaps == MapInv /\ MapInv' /\ [Next]_vars => [KQ!Next]_KQ!vars
<1> SUFFICES ASSUME MapInv, MapInv', [Next]_vars
             PROVE  KQ!Next \/ UNCHANGED KQ!vars
  OBVIOUS
<1>1. CASE UNCHANGED vars
  BY <1>1, Stutters DEF vars, processVars, controllerVars, Working, Noted
<1>2. CASE Tick
  BY <1>2, QuietSteps
<1>3. CASE InstallCRD
  <2>1. crd' /\ Working' = {} /\ UNCHANGED <<hands, erred>>
    BY <1>3 DEF MapInv, DueShape, InstallCRD, controllerVars, Working
  <2> QED
    BY <2>1, RestartStep DEF KQ!Next
<1>4. CASE \E key \in Keys : Change(key)
  BY <1>4, ChangeMaps DEF KQ!Next
<1>5. ASSUME NEW p \in Procs, Process(p)
      PROVE  KQ!Next \/ UNCHANGED KQ!vars
  <2>1. CASE Crash(p) \/ Stopped(p) \/ LoseLease(p) \/ \E i \in Informers : WatchRefused(p, i)
    BY <2>1, GoneMaps DEF Crash, Stopped, LoseLease, WatchRefused, KQ!Next
  <2>2. CASE Start(p) \/ Acquire(p) \/ Observe(p) \/ Renew(p) \/ StopController(p)
    BY <2>2, QuietSteps
  <2>3. CASE StartWorkers(p)
    BY <2>3, StartWorkersMaps
  <2>4. CASE Signal(p)
    BY <2>4, SignalMaps DEF KQ!Next
  <2>5. CASE \E i \in Informers : StartInformer(p, i) \/ SyncInformer(p, i)
    BY <2>5, InformerStepMaps
  <2>6. CASE \E key \in Keys : See(p, key) \/ Hear(p, key) \/ BackOffOver(p, key)
    BY <2>6, NewsStepMaps
  <2>7. CASE \E w \in Workers : Begin(p, w) \/ SyncFails(p, w) \/ End(p, w)
    BY <2>7, BeginMaps, SyncFailsMaps, EndMaps DEF KQ!Next
  <2> QED
    BY <1>5, <2>1, <2>2, <2>3, <2>4, <2>5, <2>6, <2>7 DEF Process
<1> QED
  BY <1>1, <1>2, <1>3, <1>4, <1>5 DEF Next

LEMMA InitMaps == Init => KQ!Init
<1> SUFFICES ASSUME Init
             PROVE  KQ!Init
  OBVIOUS
<1>1. \A p \in Procs : erred[p] = {} /\ \A w \in Workers : hands[p][w] = Nothing
  BY DEF Init, NoController
<1>2. Busy = {} /\ Failing = {}
  BY <1>1, ConstantsAssumption DEF Busy, Failing
<1>3. Due \in SUBSET Keys
  BY DEF Due
<1> QED
  BY <1>2, <1>3 DEF KQ!Init

\* Whatever the processes, their elections, restarts, informers and queues do,
\* the reconciliation of a job sees what KeyQueue promises: KeepsKeyQueue
\* without its fairness.
THEOREM ImplementsKeyQueue == Safety => KQ!Safety
<1>1. Safety => KQ!Init /\ [][Next]_vars
  BY InitMaps, PTL DEF Safety
<1>2. [][Next]_vars /\ []MapInv => [][KQ!Next]_KQ!vars
  BY StepMaps, PTL
<1> QED
  BY <1>1, <1>2, MapInvariant, PTL DEF KQ!Safety, Safety
=============================================================================
