---------------------------- MODULE WorkQueueProofs ----------------------------
(***************************************************************************)
(* What the operations of the work queue return, for every set of keys:    *)
(* the lemmas behind the theorems on Operator.  The key of a queued entry  *)
(* is dirty and nobody's (QueueType), which is why no two workers get one  *)
(* key, and every operation keeps that.                                    *)
(***************************************************************************)
EXTENDS WorkQueue, SequenceTheorems, TLAPS

Elements(s) == {s[n] : n \in DOMAIN s}

NoRepeats(s) == \A m, n \in DOMAIN s : s[m] = s[n] => m = n

QueueRecord(K) ==
    [queue : Seq(K), dirty : SUBSET K, processing : SUBSET K, waiting : SUBSET K,
     shuttingDown : BOOLEAN]

LEMMA QueueTypeDef ==
    ASSUME NEW K, NEW q
    PROVE  q \in QueueType(K) <=>
             /\ q \in QueueRecord(K)
             /\ Elements(q.queue) = q.dirty \ q.processing
             /\ NoRepeats(q.queue)
BY DEF QueueType, QueueRecord, Elements, NoRepeats

\* A key that was not in the sequence is appended.
LEMMA AppendElements ==
    ASSUME NEW K, NEW s \in Seq(K), NEW key \in K
    PROVE  /\ Append(s, key) \in Seq(K)
           /\ Elements(Append(s, key)) = Elements(s) \cup {key}
           /\ NoRepeats(s) /\ key \notin Elements(s) => NoRepeats(Append(s, key))
<1> DEFINE t == Append(s, key)
<1>1. /\ t \in Seq(K) /\ Len(t) = Len(s) + 1
      /\ \A n \in 1 .. Len(s) : t[n] = s[n]
      /\ t[Len(s) + 1] = key
  BY AppendProperties
<1>2. Len(s) \in Nat /\ DOMAIN s = 1 .. Len(s) /\ DOMAIN t = 1 .. Len(s) + 1
  BY <1>1, LenProperties
<1> HIDE DEF t
<1>3. Elements(t) = Elements(s) \cup {key}
  <2>1. \A n \in DOMAIN t : t[n] \in Elements(s) \cup {key}
    BY <1>1, <1>2 DEF Elements
  <2>2. \A n \in DOMAIN s : n \in DOMAIN t /\ t[n] = s[n]
    BY <1>1, <1>2
  <2>3. Len(s) + 1 \in DOMAIN t
    BY <1>2
  <2> QED
    BY <1>1, <2>1, <2>2, <2>3 DEF Elements
<1>4. ASSUME NoRepeats(s), key \notin Elements(s)
      PROVE  NoRepeats(t)
  <2> SUFFICES ASSUME NEW m \in DOMAIN t, NEW n \in DOMAIN t, t[m] = t[n]
               PROVE  m = n
    BY DEF NoRepeats
  <2>1. \A l \in DOMAIN s : t[l] = s[l] /\ t[l] # key
    BY <1>1, <1>2, <1>4 DEF Elements
  <2>2. \A l \in DOMAIN t : l \in DOMAIN s \/ l = Len(s) + 1
    BY <1>2
  <2> QED
    BY <1>1, <1>4, <2>1, <2>2 DEF NoRepeats
<1> QED
  BY <1>1, <1>3, <1>4 DEF t

\* The head leaves a sequence without repetitions.
LEMMA TailElements ==
    ASSUME NEW K, NEW s \in Seq(K), s # <<>>, NoRepeats(s)
    PROVE  /\ Head(s) \in K /\ Head(s) \in Elements(s)
           /\ Tail(s) \in Seq(K)
           /\ Elements(Tail(s)) = Elements(s) \ {Head(s)}
           /\ NoRepeats(Tail(s))
<1> DEFINE t == Tail(s)
<1>1. /\ Head(s) \in K /\ t \in Seq(K) /\ Len(t) = Len(s) - 1
      /\ \A n \in 1 .. Len(t) : t[n] = s[n + 1]
  BY HeadTailProperties
<1>2. Head(s) = s[1]
  BY DEF Head
<1>3. Len(s) \in Nat /\ Len(s) > 0 /\ DOMAIN s = 1 .. Len(s) /\ DOMAIN t = 1 .. Len(s) - 1
  BY <1>1, LenProperties, EmptySeq
<1> HIDE DEF t
<1>4. Elements(t) = Elements(s) \ {s[1]}
  <2>1. \A n \in DOMAIN t : n + 1 \in DOMAIN s /\ t[n] = s[n + 1] /\ s[n + 1] # s[1]
    BY <1>1, <1>3 DEF NoRepeats
  <2>2. \A n \in DOMAIN s : n # 1 => n - 1 \in DOMAIN t /\ t[n - 1] = s[n]
    BY <1>1, <1>3
  <2> QED
    BY <2>1, <2>2 DEF Elements
<1>5. NoRepeats(t)
  BY <1>1, <1>3 DEF NoRepeats
<1>6. s[1] \in Elements(s)
  BY <1>3 DEF Elements
<1> QED
  BY <1>1, <1>2, <1>4, <1>5, <1>6 DEF t

-----------------------------------------------------------------------------

LEMMA EmptyQueue == ASSUME NEW K PROVE Empty \in QueueType(K)
<1>1. Empty \in QueueRecord(K)
  BY EmptySeq DEF Empty, QueueRecord
<1>2. Elements(Empty.queue) = Empty.dirty \ Empty.processing /\ NoRepeats(Empty.queue)
  BY DEF Empty, Elements, NoRepeats
<1> QED
  BY <1>1, <1>2, QueueTypeDef

\* A key that is added is dirty, and held by those who held it.
LEMMA AddQueue ==
    ASSUME NEW K, NEW q \in QueueType(K), NEW key \in K
    PROVE  /\ Add(q, key) \in QueueType(K)
           /\ Add(q, key).processing = q.processing
           /\ Add(q, key).waiting = q.waiting
           /\ (Add(q, key).shuttingDown <=> q.shuttingDown)
           /\ q.shuttingDown => Add(q, key).dirty = q.dirty
           /\ ~q.shuttingDown => Add(q, key).dirty = q.dirty \cup {key}
<1>1. /\ q \in QueueRecord(K)
      /\ Elements(q.queue) = q.dirty \ q.processing /\ NoRepeats(q.queue)
  BY QueueTypeDef
<1>2. CASE q.shuttingDown \/ key \in q.dirty
  BY <1>1, <1>2 DEF Add
<1>3. CASE ~(q.shuttingDown \/ key \in q.dirty)
  <2> DEFINE s == IF key \in q.processing THEN q.queue ELSE Append(q.queue, key)
             r == [q EXCEPT !.dirty = q.dirty \cup {key}, !.queue = s]
  <2>1. Add(q, key) = r
    BY <1>3 DEF Add
  <2>2. q.queue \in Seq(K) /\ key \notin Elements(q.queue)
    BY <1>1, <1>3 DEF QueueRecord
  <2>3. s \in Seq(K) /\ NoRepeats(s)
        /\ Elements(s) = (q.dirty \cup {key}) \ q.processing
    BY <1>1, <1>3, <2>2, AppendElements
  <2> HIDE DEF s
  <2>4. r \in QueueRecord(K) /\ r.queue = s /\ r.dirty = q.dirty \cup {key}
        /\ r.processing = q.processing /\ r.waiting = q.waiting
        /\ (r.shuttingDown <=> q.shuttingDown)
    BY <1>1, <2>3 DEF QueueRecord
  <2> QED
    BY <1>3, <2>1, <2>3, <2>4, QueueTypeDef
<1> QED
  BY <1>2, <1>3

LEMMA AddRateLimitedQueue ==
    ASSUME NEW K, NEW q \in QueueType(K), NEW key \in K
    PROVE  /\ AddRateLimited(q, key) \in QueueType(K)
           /\ AddRateLimited(q, key).dirty = q.dirty
           /\ AddRateLimited(q, key).processing = q.processing
           /\ (AddRateLimited(q, key).shuttingDown <=> q.shuttingDown)
           /\ q.shuttingDown => AddRateLimited(q, key).waiting = q.waiting
           /\ ~q.shuttingDown => AddRateLimited(q, key).waiting = q.waiting \cup {key}
<1> DEFINE r == [q EXCEPT !.waiting = q.waiting \cup {key}]
<1>1. /\ q \in QueueRecord(K)
      /\ Elements(q.queue) = q.dirty \ q.processing /\ NoRepeats(q.queue)
  BY QueueTypeDef
<1>2. /\ r \in QueueRecord(K)
      /\ r.queue = q.queue /\ r.dirty = q.dirty /\ r.processing = q.processing
      /\ (r.shuttingDown <=> q.shuttingDown) /\ r.waiting = q.waiting \cup {key}
  BY <1>1 DEF QueueRecord
<1>3. r \in QueueType(K)
  BY <1>1, <1>2, QueueTypeDef
<1> QED
  BY <1>2, <1>3 DEF AddRateLimited

\* A key whose back-off is over is dirty instead of waiting.
LEMMA ReadyQueue ==
    ASSUME NEW K, NEW q \in QueueType(K), NEW key \in K
    PROVE  /\ Ready(q, key) \in QueueType(K)
           /\ Ready(q, key).processing = q.processing
           /\ (Ready(q, key).shuttingDown <=> q.shuttingDown)
           /\ Ready(q, key).waiting = q.waiting \ {key}
           /\ q.shuttingDown => Ready(q, key).dirty = q.dirty
           /\ ~q.shuttingDown => Ready(q, key).dirty = q.dirty \cup {key}
<1> DEFINE r == [q EXCEPT !.waiting = q.waiting \ {key}]
<1>1. /\ q \in QueueRecord(K)
      /\ Elements(q.queue) = q.dirty \ q.processing /\ NoRepeats(q.queue)
  BY QueueTypeDef
<1>2. /\ r \in QueueRecord(K)
      /\ r.queue = q.queue /\ r.dirty = q.dirty /\ r.processing = q.processing
      /\ (r.shuttingDown <=> q.shuttingDown) /\ r.waiting = q.waiting \ {key}
  BY <1>1 DEF QueueRecord
<1>3. r \in QueueType(K)
  BY <1>1, <1>2, QueueTypeDef
<1>4. Ready(q, key) = Add(r, key)
  BY DEF Ready
<1> HIDE DEF r
<1> QED
  BY <1>2, <1>3, <1>4, AddQueue

\* The key that Get returns was dirty and held by nobody.
LEMMA GetQueue ==
    ASSUME NEW K, NEW q \in QueueType(K), canGet(q)
    PROVE  LET key == Head(q.queue) IN
           /\ Get(q) \in QueueType(K)
           /\ key \in K /\ key \in q.dirty /\ key \notin q.processing
           /\ Get(q).dirty = q.dirty \ {key}
           /\ Get(q).processing = q.processing \cup {key}
           /\ Get(q).waiting = q.waiting /\ (Get(q).shuttingDown <=> q.shuttingDown)
<1> DEFINE key == Head(q.queue)
           r == [q EXCEPT !.queue = Tail(q.queue), !.dirty = q.dirty \ {key},
                          !.processing = q.processing \cup {key}]
<1>1. /\ q \in QueueRecord(K)
      /\ Elements(q.queue) = q.dirty \ q.processing /\ NoRepeats(q.queue)
  BY QueueTypeDef
<1>2. q.queue \in Seq(K) /\ q.queue # <<>>
  BY <1>1 DEF QueueRecord, canGet
<1>3. /\ key \in K /\ key \in Elements(q.queue)
      /\ Tail(q.queue) \in Seq(K)
      /\ Elements(Tail(q.queue)) = Elements(q.queue) \ {key}
      /\ NoRepeats(Tail(q.queue))
  BY <1>1, <1>2, TailElements
<1>4. Get(q) = r
  BY DEF Get
<1> HIDE DEF key
<1>5. /\ r \in QueueRecord(K) /\ r.queue = Tail(q.queue) /\ r.dirty = q.dirty \ {key}
      /\ r.processing = q.processing \cup {key}
      /\ r.waiting = q.waiting /\ (r.shuttingDown <=> q.shuttingDown)
  BY <1>1, <1>3 DEF QueueRecord
<1>6. Elements(r.queue) = r.dirty \ r.processing
  BY <1>1, <1>3, <1>5
<1>7. r \in QueueType(K)
  BY <1>3, <1>5, <1>6, QueueTypeDef
<1> HIDE DEF r
<1> QED
  BY <1>1, <1>3, <1>4, <1>5, <1>7 DEF key

\* Done gives a key back; nothing that was dirty is forgotten.
LEMMA DoneQueue ==
    ASSUME NEW K, NEW q \in QueueType(K), NEW key \in q.processing
    PROVE  /\ QueueDone(q, key) \in QueueType(K)
           /\ QueueDone(q, key).processing = q.processing \ {key}
           /\ QueueDone(q, key).dirty = q.dirty /\ QueueDone(q, key).waiting = q.waiting
           /\ (QueueDone(q, key).shuttingDown <=> q.shuttingDown)
<1> DEFINE s == IF key \in q.dirty THEN Append(q.queue, key) ELSE q.queue
           r == [q EXCEPT !.processing = q.processing \ {key}, !.queue = s]
<1>1. /\ q \in QueueRecord(K)
      /\ Elements(q.queue) = q.dirty \ q.processing /\ NoRepeats(q.queue)
  BY QueueTypeDef
<1>2. q.queue \in Seq(K) /\ key \in K /\ key \notin Elements(q.queue)
  BY <1>1 DEF QueueRecord
<1>3. /\ s \in Seq(K) /\ NoRepeats(s)
      /\ Elements(s) = q.dirty \ (q.processing \ {key})
  BY <1>1, <1>2, AppendElements
<1>4. QueueDone(q, key) = r
  BY DEF QueueDone
<1> HIDE DEF s
<1>5. /\ r \in QueueRecord(K) /\ r.queue = s /\ r.dirty = q.dirty
      /\ r.processing = q.processing \ {key} /\ r.waiting = q.waiting
      /\ (r.shuttingDown <=> q.shuttingDown)
  BY <1>1, <1>3 DEF QueueRecord
<1> QED
  BY <1>3, <1>4, <1>5, QueueTypeDef

LEMMA ShutDownQueue ==
    ASSUME NEW K, NEW q \in QueueType(K)
    PROVE  ShutDown(q) \in QueueType(K) /\ ShutDown(q).processing = q.processing
<1> DEFINE r == [q EXCEPT !.shuttingDown = TRUE, !.waiting = {}]
<1>1. /\ q \in QueueRecord(K)
      /\ Elements(q.queue) = q.dirty \ q.processing /\ NoRepeats(q.queue)
  BY QueueTypeDef
<1>2. /\ r \in QueueRecord(K) /\ r.queue = q.queue /\ r.dirty = q.dirty
      /\ r.processing = q.processing
  BY <1>1 DEF QueueRecord
<1> QED
  BY <1>1, <1>2, QueueTypeDef DEF ShutDown
=============================================================================
