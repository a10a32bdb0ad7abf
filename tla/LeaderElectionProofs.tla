-------------------------- MODULE LeaderElectionProofs --------------------------
(***************************************************************************)
(* One leader at a time, for every number of processes and all durations   *)
(* that satisfy DurationsAssumption.                                       *)
(*                                                                         *)
(* That the leader is the holder of the lease (LeaderHolds) is not         *)
(* inductive: a candidate takes the lease when it has not seen it change   *)
(* for LeaseDuration.  LeaseYoung bounds what a candidate can have seen by *)
(* what the leader's own timer says, phase by phase of its renew loop, and *)
(* TimerBounded bounds that timer.  A lease last written at the very start *)
(* of a renewal, whose reply took RenewDeadline, is RenewDeadline +        *)
(* RetryPeriod + RenewDeadline old when the next renewal is given up.      *)
(***************************************************************************)
EXTENDS Operator, TLAPS

LeaderHolds == \A p \in Procs : Leading(p) => holder = p

Limit(p) == IF renewal[p] = "resting" THEN RetryPeriod ELSE RenewDeadline

TimerBounded == \A p \in Procs : Leading(p) => timer[p] <= Limit(p)

\* The age that the lease can have when the leader's timer is at zero.
AgeBefore(p) ==
    IF renewal[p] = "renewed" THEN 0
    ELSE IF renewal[p] = "resting" THEN RenewDeadline
    ELSE RenewDeadline + RetryPeriod

LeaseYoung ==
    \A p, q \in Procs : Leading(p) => seen[q] <= AgeBefore(p) + timer[p]

ElectionType ==
    /\ stage \in [Procs -> Stages]
    /\ renewal \in [Procs -> Renewals]
    /\ timer \in [Procs -> Nat]
    /\ seen \in [Procs -> Int]

ElectionInv == ElectionType /\ LeaderHolds /\ TimerBounded /\ LeaseYoung

\* The invariant only looks at the lease and at who leads.
LEMMA OthersKeepElection ==
    ASSUME ElectionInv, UNCHANGED <<leaseVars, stage>>
    PROVE  ElectionInv'
BY DEF ElectionInv, ElectionType, LeaderHolds, TimerBounded, LeaseYoung, Leading, Limit,
       AgeBefore, leaseVars

\* A process that is gone led alone, if it led, and leaves the lease to nobody.
LEMMA GoneKeepsElection ==
    ASSUME ElectionInv, NEW p \in Procs, Gone(p)
    PROVE  ElectionInv'
<1> USE DurationsAssumption
<1>1. ElectionType'
  BY DEF ElectionInv, ElectionType, Gone, Stages, Renewals, Unseen
<1>2. \A q \in Procs : Leading(q)' =>
          /\ q # p /\ Leading(q) /\ holder = q
          /\ renewal'[q] = renewal[q] /\ timer'[q] = timer[q]
  BY DEF ElectionInv, ElectionType, LeaderHolds, Gone, Leading
<1>3. LeaderHolds'
  BY <1>2 DEF LeaderHolds, Gone
<1>4. TimerBounded'
  BY <1>2 DEF ElectionInv, TimerBounded, Limit
<1>5. LeaseYoung'
  <2> SUFFICES ASSUME NEW r \in Procs, NEW q \in Procs, Leading(r)'
               PROVE  seen'[q] <= AgeBefore(r)' + timer'[r]
    BY DEF LeaseYoung
  <2>1. AgeBefore(r)' = AgeBefore(r) /\ AgeBefore(r) \in Nat /\ timer[r] \in Nat
    BY <1>2 DEF ElectionInv, ElectionType, AgeBefore, Renewals
  <2>2. seen'[q] = seen[q] \/ seen'[q] = -1
    BY DEF ElectionInv, ElectionType, Gone, Unseen
  <2>3. seen[q] <= AgeBefore(r) + timer[r] /\ seen[q] \in Int
    BY <1>2 DEF ElectionInv, ElectionType, LeaseYoung
  <2> QED
    BY <1>2, <2>1, <2>2, <2>3
<1> QED
  BY <1>1, <1>3, <1>4, <1>5 DEF ElectionInv

\* No candidate has waited long enough while somebody leads.
LEMMA LeaderIsSafe ==
    ASSUME ElectionInv, NEW p \in Procs, mayAcquire(p)
    PROVE  \A q \in Procs : ~Leading(q)
<1> SUFFICES ASSUME NEW q \in Procs, Leading(q)
             PROVE  FALSE
  OBVIOUS
<1> USE DurationsAssumption, ConstantsAssumption
<1>1. holder = q
  BY DEF ElectionInv, LeaderHolds
<1>2. seen[p] >= LeaseDuration
  BY <1>1 DEF mayAcquire
<1>3. seen[p] <= AgeBefore(q) + timer[q] /\ seen[p] \in Int /\ timer[q] \in Nat
  BY DEF ElectionInv, ElectionType, LeaseYoung
<1>4. timer[q] <= Limit(q)
  BY DEF ElectionInv, TimerBounded
<1>5. renewal[q] \in Renewals
  BY DEF ElectionInv, ElectionType
<1>6. CASE renewal[q] = "resting"
  BY <1>2, <1>3, <1>4, <1>6 DEF AgeBefore, Limit
<1>7. CASE renewal[q] = "trying"
  BY <1>2, <1>3, <1>4, <1>7 DEF AgeBefore, Limit
<1>8. CASE renewal[q] = "renewed"
  BY <1>2, <1>3, <1>4, <1>8 DEF AgeBefore, Limit
<1> QED
  BY <1>5, <1>6, <1>7, <1>8 DEF Renewals

LEMMA AcquireKeepsElection ==
    ASSUME ElectionInv, NEW p \in Procs, Acquire(p)
    PROVE  ElectionInv'
<1> USE DurationsAssumption
<1>1. \A q \in Procs : ~Leading(q)
  BY LeaderIsSafe DEF Acquire
<1>2. ElectionType'
  BY DEF ElectionInv, ElectionType, Acquire, LeaseWrittenBy, Stages, Renewals, Unseen
<1>3. \A q \in Procs : Leading(q)' => q = p
  BY <1>1 DEF ElectionInv, ElectionType, Acquire, Leading
<1>4. holder' = p /\ timer'[p] = 0 /\ renewal'[p] = "trying" /\ \A q \in Procs : seen'[q] = -1
  BY DEF ElectionInv, ElectionType, Acquire, LeaseWrittenBy, Unseen
<1>5. LeaderHolds' /\ TimerBounded' /\ LeaseYoung'
  BY <1>3, <1>4 DEF LeaderHolds, TimerBounded, LeaseYoung, Limit, AgeBefore
<1> QED
  BY <1>2, <1>5 DEF ElectionInv

\* A candidate that reads the lease starts to count at zero.
LEMMA ObserveKeepsElection ==
    ASSUME ElectionInv, NEW p \in Procs, Observe(p)
    PROVE  ElectionInv'
<1> USE DurationsAssumption
<1>1. ElectionType' /\ LeaderHolds' /\ TimerBounded'
  BY DEF ElectionInv, ElectionType, LeaderHolds, TimerBounded, Limit, Leading, Observe
<1>2. LeaseYoung'
  <2> SUFFICES ASSUME NEW r \in Procs, NEW q \in Procs, Leading(r)
               PROVE  seen'[q] <= AgeBefore(r) + timer[r]
    BY DEF LeaseYoung, Leading, AgeBefore, Observe
  <2>1. AgeBefore(r) \in Nat /\ timer[r] \in Nat
    BY DEF ElectionInv, ElectionType, AgeBefore, Renewals
  <2>2. seen'[q] = seen[q] \/ seen'[q] = 0
    BY DEF ElectionInv, ElectionType, Observe
  <2> QED
    BY <2>1, <2>2 DEF ElectionInv, LeaseYoung
<1> QED
  BY <1>1, <1>2 DEF ElectionInv

LEMMA RenewKeepsElection ==
    ASSUME ElectionInv, NEW p \in Procs, Renew(p)
    PROVE  ElectionInv'
<1> USE DurationsAssumption
<1>1. ElectionType'
  BY DEF ElectionInv, ElectionType, Renew, LeaseWrittenBy, Renewals, Unseen
<1>2. \A q \in Procs : Leading(q)' => q = p
  BY ConstantsAssumption DEF ElectionInv, LeaderHolds, Renew, Leading
<1>3. LeaderHolds'
  BY <1>2 DEF LeaderHolds, Renew, LeaseWrittenBy
<1>4. timer[p] \in Nat /\ \A q \in Procs : seen[q] \in Int
  BY DEF ElectionInv, ElectionType
<1>5. timer[p] <= Limit(p) /\ \A q \in Procs : seen[q] <= AgeBefore(p) + timer[p]
  BY DEF ElectionInv, TimerBounded, LeaseYoung, Renew
<1>6. /\ timer'[p] <= Limit(p)'
      /\ \A q \in Procs : seen'[q] <= AgeBefore(p)' + timer'[p]
  <2>1. CASE /\ renewal[p] = "resting" /\ timer[p] = RetryPeriod /\ UNCHANGED seen
             /\ renewal'[p] = "trying" /\ timer'[p] = 0
    BY <1>4, <1>5, <2>1 DEF Limit, AgeBefore
  <2>2. CASE /\ renewal[p] = "trying" /\ renewal'[p] = "renewed" /\ UNCHANGED timer
             /\ \A q \in Procs : seen'[q] = -1
    BY <1>4, <1>5, <2>2 DEF Limit, AgeBefore
  <2>3. CASE /\ renewal[p] = "renewed" /\ renewal'[p] = "resting" /\ UNCHANGED seen
             /\ timer'[p] = 0
    BY <1>4, <1>5, <2>3 DEF Limit, AgeBefore
  <2> QED
    BY <2>1, <2>2, <2>3 DEF ElectionInv, ElectionType, Renew, LeaseWrittenBy, Unseen
<1>7. TimerBounded' /\ LeaseYoung'
  BY <1>2, <1>6 DEF TimerBounded, LeaseYoung
<1> QED
  BY <1>1, <1>3, <1>7 DEF ElectionInv

\* The leader's timer advances with what the candidates have seen.
LEMMA TickKeepsElection ==
    ASSUME ElectionInv, Tick
    PROVE  ElectionInv'
<1> USE DurationsAssumption
<1>1. ElectionType'
  BY DEF ElectionInv, ElectionType, Tick
<1>2. LeaderHolds'
  BY DEF ElectionInv, LeaderHolds, Leading, Tick
<1>3. \A p \in Procs : Leading(p)' =>
          Leading(p) /\ timer[p] < Limit(p) /\ timer'[p] = timer[p] + 1 /\ timer[p] \in Nat
  BY DEF ElectionInv, ElectionType, Leading, Limit, Tick
<1>5. TimerBounded'
  BY <1>3 DEF TimerBounded, Limit, Tick
<1>6. LeaseYoung'
  <2> SUFFICES ASSUME NEW p \in Procs, NEW q \in Procs, Leading(p)'
               PROVE  seen'[q] <= AgeBefore(p)' + timer'[p]
    BY DEF LeaseYoung
  <2>1. AgeBefore(p)' = AgeBefore(p) /\ AgeBefore(p) \in Nat
    BY DEF ElectionInv, ElectionType, AgeBefore, Renewals, Tick
  <2>2. seen'[q] <= seen[q] + 1 /\ seen[q] \in Int /\ seen'[q] \in Int
    BY <1>1 DEF ElectionInv, ElectionType, Tick
  <2>3. seen[q] <= AgeBefore(p) + timer[p]
    BY <1>3 DEF ElectionInv, LeaseYoung
  <2> QED
    BY <1>3, <2>1, <2>2, <2>3
<1> QED
  BY <1>1, <1>2, <1>5, <1>6 DEF ElectionInv

THEOREM InitElection == Init => ElectionInv
BY DurationsAssumption
   DEF Init, ElectionInv, ElectionType, LeaderHolds, TimerBounded, LeaseYoung, Leading,
       Stages, Renewals, Unseen

THEOREM NextElection == ElectionInv /\ [Next]_vars => ElectionInv'
<1> SUFFICES ASSUME ElectionInv, [Next]_vars
             PROVE  ElectionInv'
  OBVIOUS
<1>1. CASE UNCHANGED vars
  BY <1>1, OthersKeepElection DEF vars, processVars
<1>2. CASE Tick
  BY <1>2, TickKeepsElection
<1>3. CASE InstallCRD \/ \E key \in Keys : Change(key)
  BY <1>3, OthersKeepElection DEF InstallCRD, Change, processVars
<1>4. ASSUME NEW p \in Procs, Process(p)
      PROVE  ElectionInv'
  <2>1. CASE Crash(p) \/ Stopped(p) \/ LoseLease(p) \/ \E i \in Informers : WatchRefused(p, i)
    BY <2>1, GoneKeepsElection DEF Crash, Stopped, LoseLease, WatchRefused
  <2>2. CASE Observe(p)
    BY <2>2, ObserveKeepsElection
  <2>3. CASE Acquire(p)
    BY <2>3, AcquireKeepsElection
  <2>4. CASE Renew(p)
    BY <2>4, RenewKeepsElection
  <2>5. CASE Start(p) \/ StopController(p) \/ StartWorkers(p)
    <3>1. UNCHANGED leaseVars /\ stage' \in [Procs -> Stages]
      BY <2>5 DEF ElectionInv, ElectionType, Start, StopController, StartWorkers, Stages, processVars
    <3>2. \A q \in Procs : Leading(q)' => Leading(q)
      BY <2>5 DEF ElectionInv, ElectionType, Start, StopController, StartWorkers, Leading
    <3> QED
      BY <3>1, <3>2 DEF ElectionInv, ElectionType, LeaderHolds, TimerBounded, LeaseYoung,
                        Limit, AgeBefore, leaseVars
  <2>6. CASE Signal(p)
    BY <2>6, OthersKeepElection DEF Signal
  <2>7. CASE \E i \in Informers : StartInformer(p, i) \/ SyncInformer(p, i)
    BY <2>7, OthersKeepElection DEF StartInformer, SyncInformer, processVars
  <2>8. CASE \E key \in Keys : See(p, key) \/ Hear(p, key) \/ BackOffOver(p, key)
    BY <2>8, OthersKeepElection DEF See, Hear, BackOffOver, processVars
  <2>9. CASE \E w \in Workers : Begin(p, w) \/ SyncFails(p, w) \/ End(p, w)
    BY <2>9, OthersKeepElection DEF Begin, SyncFails, End, processVars
  <2> QED
    BY <1>4, <2>1, <2>2, <2>3, <2>4, <2>5, <2>6, <2>7, <2>8, <2>9 DEF Process
<1> QED
  BY <1>1, <1>2, <1>3, <1>4 DEF Next

\* One leader at a time: what the three durations of server.go are for.
THEOREM OneLeader == Safety => []AtMostOneLeader
<1>1. ElectionInv => AtMostOneLeader
  BY DEF ElectionInv, LeaderHolds, AtMostOneLeader
<1> QED
  BY <1>1, InitElection, NextElection, PTL DEF Safety
=============================================================================
