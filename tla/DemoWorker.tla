------------------------------ MODULE DemoWorker ------------------------------
(***************************************************************************)
(* demo.py DemoWorker: one thread, the only one that takes requests from   *)
(* the queue.  run has no try statement: an exception ends the thread for  *)
(* good, while the gateway goes on accepting.                              *)
(*                                                                         *)
(* Program counter of the worker:                                          *)
(*   idle        in get_batch                                              *)
(*   batching    between two batches of _process_batch                     *)
(*   deferring   the GPU scheduler said no: FAILED for every candidate     *)
(*   refusing    the breaker said no: FAILED for every candidate           *)
(*   marking     PROCESSING for every candidate, then infer_batch          *)
(*   outputs     one output of the adapter after the other                 *)
(*   auditing    the result is put, its audit event is recorded next       *)
(*   dead        an exception ended the thread                             *)
(*                                                                         *)
(* What it takes is any set of waiting requests up to the batch size (the  *)
(* order is PriorityQueue's subject), batches are any partition of them    *)
(* (Batching's), and the verdict on a batch is a choice (GpuScheduler's,   *)
(* CircuitBreaker's) within what the demo's profiles allow: the GPU always *)
(* has room, so only a batch longer than demo-large takes is deferred, and *)
(* nothing is refused before a failure.  The slot is the module Tenant's.  *)
(***************************************************************************)
EXTENDS DemoState

WorkerRest == <<call, scheduler, loop, announced>>

\* A mutant: what is taken stays in the queue.
PeekBatch ==
    /\ worker.pc = "idle"
    /\ \E S \in SUBSET queue :
          /\ Cardinality(S) \in 1..BatchSize
          /\ worker' = [IdleWorker EXCEPT !.pc = "batching", !.todo = S]
    /\ UNCHANGED <<db, queue, trail, counters, batchSizes, outcome, WorkerRest>>

\* get_batch: some of the waiting requests, as many as a batch takes at most.
TakeBatch ==
    /\ worker.pc = "idle"
    /\ \E S \in SUBSET queue :
          /\ Cardinality(S) \in 1..BatchSize
          /\ queue' = queue \ S
          /\ worker' = [IdleWorker EXCEPT !.pc = "batching", !.todo = S]
    /\ UNCHANGED <<db, trail, counters, batchSizes, outcome, WorkerRest>>

\* After a candidate: the rest of the batch, or the rest of the batches.
Without(me, r) ==
    CASE me.batch # {r} -> [me EXCEPT !.batch = @ \ {r}]
      [] me.batch = {r} /\ me.todo # {} -> [IdleWorker EXCEPT !.pc = "batching", !.todo = me.todo]
      [] OTHER -> IdleWorker

\* The next batch is recorded, placed or deferred, and let through or refused.
PlaceBatch ==
    /\ worker.pc = "batching"
    /\ \E B \in (SUBSET worker.todo) \ {{}}, next \in {"deferring", "refusing", "marking"} :
          /\ next = "deferring" => Cardinality(B) > LargeBatch
          /\ next = "refusing" => \E r \in Requests : outcome[r] = "failed"
          /\ worker' = [worker EXCEPT !.pc = next, !.todo = @ \ B, !.batch = B]
          /\ batchSizes' = Observed(batchSizes, Cardinality(B))
          /\ counters' = Emitted(counters, IF next = "deferring" THEN "deferred" ELSE "placed")
    /\ UNCHANGED <<db, queue, trail, outcome, WorkerRest>>

\* A candidate of a deferred batch: FAILED, without metric and without audit.
DeferOne ==
    /\ worker.pc = "deferring"
    /\ \E r \in worker.batch :
          /\ Put(r, "failed")
          /\ Becomes(r, "deferred")
          /\ worker' = Without(worker, r)
    /\ UNCHANGED <<queue, trail, counters, batchSizes, WorkerRest>>

\* A candidate of a refused batch: FAILED and its metric, without audit.
RefuseOne ==
    /\ worker.pc = "refusing"
    /\ \E r \in worker.batch :
          /\ Put(r, "failed")
          /\ Becomes(r, "refused")
          /\ counters' = Emitted(counters, "inference_failed")
          /\ worker' = Without(worker, r)
    /\ UNCHANGED <<queue, trail, batchSizes, WorkerRest>>

\* PROCESSING for one candidate; after the last one infer_batch runs.
MarkOne ==
    /\ worker.pc = "marking"
    /\ \E r \in worker.batch :
          /\ Put(r, "processing")
          /\ Becomes(r, "started")
          /\ counters' = Emitted(counters, "inference_started")
          /\ worker' = IF worker.batch = {r}
                       THEN [worker EXCEPT !.pc = "outputs", !.batch = worker.rest \cup {r},
                                           !.rest = {}]
                       ELSE [worker EXCEPT !.batch = @ \ {r}, !.rest = @ \cup {r}]
    /\ UNCHANGED <<queue, trail, batchSizes, WorkerRest>>

\* A mutant: the audit event comes first, the result after it.
OutputAudited ==
    /\ worker.pc = "outputs"
    /\ \E r \in worker.batch :
          /\ counters' = Emitted(counters, "inference_completed")
          /\ Audit(r, "completed")
          /\ worker' = [worker EXCEPT !.pc = "auditing", !.current = {r}]
    /\ UNCHANGED <<db, queue, outcome, batchSizes, WorkerRest>>

\* An output with a text: the metrics, then COMPLETED.
OutputCompleted ==
    /\ worker.pc = "outputs"
    /\ \E r \in worker.batch :
          /\ counters' = Emitted(counters, "inference_completed")
          /\ Put(r, "completed")
          /\ Becomes(r, "completed")
          /\ worker' = [worker EXCEPT !.pc = "auditing", !.current = {r}]
    /\ UNCHANGED <<queue, trail, batchSizes, WorkerRest>>

\* An output with an error: the metric, then FAILED.
OutputFailed ==
    /\ AdapterMayFail
    /\ worker.pc = "outputs"
    /\ \E r \in worker.batch :
          /\ counters' = Emitted(counters, "inference_failed")
          /\ Put(r, "failed")
          /\ Becomes(r, "failed")
          /\ worker' = [worker EXCEPT !.pc = "auditing", !.current = {r}]
    /\ UNCHANGED <<queue, trail, batchSizes, WorkerRest>>

\* The audit event of the output.
AuditOutput ==
    /\ worker.pc = "auditing"
    /\ \E r \in worker.current :
          /\ Audit(r, outcome[r])
          /\ worker' = Without([worker EXCEPT !.pc = "outputs", !.current = {}], r)
    /\ UNCHANGED <<db, queue, counters, batchSizes, outcome, WorkerRest>>

\* A metric raises before anything was written for a batch or an output: one of
\* its own or the breaker's.  The metrics before it are counted.
MetricRaises ==
    /\ MetricsMayFail
    /\ \/ /\ worker.pc = "batching"
          /\ \/ UNCHANGED <<batchSizes, counters>>
             \/ \E B \in (SUBSET worker.todo) \ {{}} :
                   /\ batchSizes' = Observed(batchSizes, Cardinality(B))
                   /\ counters' \in {counters, Emitted(counters, "placed")}
       \/ /\ worker.pc = "outputs"
          /\ counters' \in {counters, Emitted(counters, "inference_completed")}
          /\ UNCHANGED batchSizes
    /\ worker' = [IdleWorker EXCEPT !.pc = "dead"]
    /\ UNCHANGED <<db, queue, trail, outcome, WorkerRest>>

\* The metric after a record raises: the record is there, the metric is not.
MetricAfterPutRaises ==
    /\ MetricsMayFail
    /\ worker.pc \in {"refusing", "marking"}
    /\ \E r \in worker.batch :
          IF worker.pc = "refusing"
          THEN Put(r, "failed") /\ Becomes(r, "refused")
          ELSE Put(r, "processing") /\ Becomes(r, "started")
    /\ worker' = [IdleWorker EXCEPT !.pc = "dead"]
    /\ UNCHANGED <<queue, trail, counters, batchSizes, WorkerRest>>

WorkerGoesOn ==
    \/ TakeBatch \/ PlaceBatch \/ DeferOne \/ RefuseOne \/ MarkOne
    \/ OutputCompleted \/ OutputFailed \/ AuditOutput

WorkerStep == WorkerGoesOn \/ MetricRaises \/ MetricAfterPutRaises
=============================================================================
