------------------------------- MODULE WorkQueue -------------------------------
(***************************************************************************)
(* The rate-limiting work queue that the workers of                        *)
(* pkg/controller/mpi_job_controller.go share, as the code relies on it.   *)
(* The queue itself is client-go's (external): what is modelled is what    *)
(* NewGroupJobControllerWithClock, enqueueGroupJob, processNextWorkItem    *)
(* and Run ask of it.                                                      *)
(*                                                                         *)
(* A key that is added while it is being processed is put into the queue   *)
(* only when its worker calls Done: two workers never hold one key.  A key *)
(* added with AddRateLimited first waits out its back-off.                 *)
(***************************************************************************)
EXTENDS Naturals, Sequences

\* queue: keys ready to be taken, in order.  dirty: keys that need processing.
\* processing: keys that were taken and not yet Done.  waiting: keys whose
\* back-off has not expired.
Empty == [queue |-> <<>>, dirty |-> {}, processing |-> {}, waiting |-> {},
          shuttingDown |-> FALSE]

\* A key is queued once, when it is dirty and no worker holds it.
QueueType(Keys) ==
    {q \in [queue : Seq(Keys), dirty : SUBSET Keys,
            processing : SUBSET Keys, waiting : SUBSET Keys, shuttingDown : BOOLEAN] :
        /\ {q.queue[n] : n \in DOMAIN q.queue} = q.dirty \ q.processing
        /\ \A m, n \in DOMAIN q.queue : q.queue[m] = q.queue[n] => m = n}

\* Mutant of Add: the key is queued although a worker holds it.
MutAdd(q, key) ==
    IF q.shuttingDown \/ key \in q.dirty THEN q
    ELSE [q EXCEPT !.dirty = @ \cup {key}, !.queue = Append(@, key)]

Add(q, key) ==
    IF q.shuttingDown \/ key \in q.dirty THEN q
    ELSE [q EXCEPT !.dirty = @ \cup {key},
                   !.queue = IF key \in q.processing THEN @ ELSE Append(@, key)]

\* AddRateLimited computes a delay and leaves the key with the waiting ones,
\* where it is held once however often it is added.
AddRateLimited(q, key) ==
    IF q.shuttingDown THEN q ELSE [q EXCEPT !.waiting = @ \cup {key}]

\* The back-off of a waiting key is over.
Ready(q, key) == Add([q EXCEPT !.waiting = @ \ {key}], key)

\* Get blocks on an empty queue.
canGet(q) == q.queue # <<>>

Get(q) ==
    LET key == Head(q.queue) IN
    [q EXCEPT !.queue = Tail(@), !.dirty = @ \ {key}, !.processing = @ \cup {key}]

\* Mutant of QueueDone: every key goes back to the queue.
MutQueueDone(q, key) == [q EXCEPT !.processing = @ \ {key}, !.queue = Append(@, key)]

\* Done: a key that was added while it was being processed is queued now.
QueueDone(q, key) ==
    [q EXCEPT !.processing = @ \ {key},
              !.queue = IF key \in q.dirty THEN Append(@, key) ELSE @]

\* Keys are accepted no longer; those in the queue may still be taken.
ShutDown(q) == [q EXCEPT !.shuttingDown = TRUE, !.waiting = {}]
=============================================================================
