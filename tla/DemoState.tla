------------------------------ MODULE DemoState ------------------------------
(***************************************************************************)
(* What the threads of the demo process share (demo.py main): the gateway's*)
(* pool, the worker thread and the reconciliation loop, over one           *)
(* in-memory result store, one work queue, one metrics collector and one   *)
(* audit log.                                                              *)
(***************************************************************************)
EXTENDS ResultStore, Metrics, FiniteSets

CONSTANTS
    Threads,           \* threads of the gateway's pool running submit_inference
    Requests,          \* request ids (uuid4), bounded
    Loops,             \* reconciliation threads that are ever started, bounded
    MaxPending,        \* AdmissionPolicy.max_pending_requests
    MaxProcessing,     \* AdmissionPolicy.max_processing_requests
    BatchSize,         \* BatchingPolicy.max_batch_size
    LargeBatch,        \* ModelResourceProfile.max_batch_size of demo-large
    Buckets,           \* boundaries of the batch size histogram
    AdapterMayFail,    \* failure_rate > 0 of the MockVllmAdapter
    MetricsMayFail     \* may an append to metrics.jsonl raise

ASSUME DemoAssumption ==
    /\ IsFiniteSet(Threads) /\ Threads # {}
    /\ IsFiniteSet(Requests) /\ "none" \notin Requests
    /\ IsFiniteSet(Loops) /\ Loops # {}
    /\ {MaxPending, MaxProcessing} \subseteq Nat
    /\ {BatchSize, LargeBatch} \subseteq Nat \ {0}
    /\ IsFiniteSet(Buckets) /\ Buckets \subseteq Nat
    /\ {AdapterMayFail, MetricsMayFail} \subseteq BOOLEAN

VARIABLES
    db,         \* the InMemoryResultStore
    queue,      \* requests in the priority queue
    call,       \* the submit_inference call each thread is in
    worker,     \* where the DemoWorker thread is
    trail,      \* the audit events of every request, in the order recorded
    counters,   \* the Prometheus counters
    batchSizes, \* the Prometheus histogram ai_inference_batch_size
    scheduler,  \* the ReconciliationScheduler object: stop event and _thread
    loop,       \* where each reconciliation thread is
    outcome,    \* history: what became of every request
    announced   \* history: requests whose PENDING record was put

-----------------------------------------------------------------------------
NoCall == [pc |-> "idle", scan |-> [size |-> 0, visited |-> 0, found |-> 0],
           pending |-> 0, request |-> "none"]

IdleWorker == [pc |-> "idle", todo |-> {}, batch |-> {}, rest |-> {}, current |-> {}]

Unborn == [pc |-> "unborn", size |-> 0]

\* A request id that nobody has; ids are interchangeable, so which makes no difference.
Fresh(r) == outcome[r] = "none" /\ \A t \in Threads : call[t].request # r

Put(r, s) == db' = Stored(db, r, s)

\* InMemoryAuditLog.record, as get_trail(r) shows it.
Audit(r, event) == trail' = [trail EXCEPT ![r] = Append(@, event)]

Becomes(r, what) == outcome' = [outcome EXCEPT ![r] = what]

Settled == {r \in Requests : outcome[r] \in {"completed", "failed", "refused", "deferred"}}
=============================================================================
