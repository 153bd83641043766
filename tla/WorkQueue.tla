------------------------------ MODULE WorkQueue ------------------------------
(***************************************************************************)
(* client-go's rate-limited work queue as the two controllers use it       *)
(* through controller-runtime (not part of this repository).  A request is *)
(* in the queue at most once; one that arrives while it is processed is    *)
(* marked dirty and queued again when the worker is done with it.          *)
(***************************************************************************)
EXTENDS Sequences

EmptyQueue ==
    [order |-> <<>>, dirty |-> {}, processing |-> {}, waiting |-> {}]

Queues(names) ==
    [order : Seq(names), dirty : SUBSET names, processing : SUBSET names,
     waiting : SUBSET names]

\* Add
Enqueue(q, x) ==
    IF x \in q.dirty THEN q
    ELSE [q EXCEPT !.dirty = @ \cup {x},
                   !.order = IF x \in q.processing THEN @ ELSE Append(@, x)]

\* Get
Dequeue(q) ==
    LET x == Head(q.order)
    IN  [q EXCEPT !.order = Tail(@),
                  !.dirty = @ \ {x},
                  !.processing = @ \cup {x}]

\* Forget and Done after a reconcile that returned no error.
Finish(q, x) ==
    [q EXCEPT !.processing = @ \ {x},
              !.order = IF x \in q.dirty THEN Append(@, x) ELSE @]

\* AddRateLimited and Done after a reconcile that returned an error.
FinishWithError(q, x) ==
    [Finish(q, x) EXCEPT !.waiting = @ \cup {x}]

\* The back-off delay of x has passed.
BackoffExpired(q, x) ==
    Enqueue([q EXCEPT !.waiting = @ \ {x}], x)

\* The queue after a start: one request for each name in s.
QueueOf(s) ==
    [EmptyQueue EXCEPT !.order = s, !.dirty = {s[i] : i \in DOMAIN s}]
=============================================================================
