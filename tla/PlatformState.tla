---------------------------- MODULE PlatformState ----------------------------
(***************************************************************************)
(* What the gateway, the queue, the workers and the reconciliation engine  *)
(* share: the result store and the messages of the queue, with the         *)
(* parameters of all of them.                                              *)
(*                                                                         *)
(* Time is the age of a request, counted in units in which the timeouts    *)
(* compared with it are small numbers.  Every record and message of a      *)
(* request carries the same accepted_at, so one age per request is enough. *)
(***************************************************************************)
EXTENDS CircuitBreaker, FiniteSets

CONSTANTS
    Threads,             \* threads of the gateway's pool running submit_inference
    Requests,            \* request ids (uuid4), bounded
    Workers,             \* RAGWorker processes
    AdmissionEnabled,    \* AdmissionPolicy.enabled
    MaxQueueDepth,       \* AdmissionPolicy.max_queue_depth
    MaxPending,          \* AdmissionPolicy.max_pending_requests
    MaxProcessing,       \* AdmissionPolicy.max_processing_requests
    BatchSize,           \* BatchingPolicy.max_batch_size
    GpuScheduling,       \* config.gpu_scheduling_enabled
    TtlAge,              \* request_ttl_seconds, as an age
    PendingStaleAge,     \* stale_pending_timeout_seconds, as an age
    ProcessingStaleAge,  \* stale_processing_timeout_seconds, as an age
    MaxAge,              \* bound: ages are not told apart beyond this one
    MaxReceives,         \* the queue's maxReceiveCount before the dead-letter queue
    HealEnabled,         \* heal_enabled and not dry_run_enabled
    HasPublisher,        \* was the reconciliation engine given a queue_publisher
    MaxResubmits,        \* bound on the copies the engine puts in the queue
    MayFail              \* may the calls to AWS raise and the workers crash

ASSUME PlatformAssumption ==
    /\ IsFiniteSet(Threads) /\ Threads # {}
    /\ IsFiniteSet(Requests)
    /\ {MaxQueueDepth, MaxPending, MaxProcessing} \subseteq Nat
    /\ {TtlAge, PendingStaleAge, ProcessingStaleAge, MaxAge} \subseteq Nat
    /\ {BatchSize, MaxReceives} \subseteq Nat \ {0}
    /\ MaxResubmits \in Nat
    /\ {AdmissionEnabled, GpuScheduling, HealEnabled, HasPublisher, MayFail} \subseteq BOOLEAN

VARIABLES
    store,       \* the ResultStore: the status of every request, "absent" without a record
    messages,    \* the queue: where each copy of each request's message is
    age,         \* now - accepted_at of every request
    accepted,    \* requests the gateway answered with 202
    gateway,     \* the submit_inference call each thread is in
    worker,      \* the process_messages call each worker is in
    breaker,     \* the circuit breaker of each worker
    reconciler,  \* the run_once pass of the reconciliation engine
    history      \* what happened to each request, for the properties only

-----------------------------------------------------------------------------
Status == {"pending", "processing", "completed", "failed"}

\* history[r] collects:
\*   "settled"   a COMPLETED or FAILED result of r was stored, by anyone
\*   "answered"  the model answered r
\*   "expired"   a worker found r past its TTL
\*   "given_up"  the reconciliation engine marked r failed
\*   "dropped"   a fault interrupted a worker that had a message of r in hand
\*   "doubled"   a worker received r while another one had it in hand
\*   "copied"    the reconciliation engine put another message of r in the queue
Event == {"settled", "answered", "expired", "given_up", "dropped", "doubled", "copied"}

\* Copy 0 is the gateway's message, copy k the engine's k-th resubmission.
Message == Requests \X (0..MaxResubmits)
RequestOf(m) == m[1]

Place == {"none", "visible", "inflight", "deleted", "dead"}

With(status) == {r \in Requests : store[r] = status}

\* Nobody has seen a request id that is in no thread, message or record.
Fresh(r) ==
    /\ store[r] = "absent"
    /\ \A k \in 0..MaxResubmits : messages[<<r, k>>].place = "none"
    /\ \A t \in Threads : gateway[t].request # r

\* A worker outside process_messages: no message to batch, none in the
\* current batch, none found alive, none about to be deleted, no receipt.
Idle == [pc |-> "idle", todo |-> {}, batch |-> {}, live |-> {},
         current |-> {}, receipts |-> {}]

NoPass == [pc |-> "idle", stale |-> {}]

NoCall == [pc |-> "idle", pending |-> 0, request |-> "none"]

Record(r, events) == history' = [history EXCEPT ![r] = @ \cup events]

\* put is an unconditional overwrite in both stores (result_store.py:48, 70).
Put(r, status) == store' = [store EXCEPT ![r] = status]

\* The queue takes a message that nobody has published before.
Publish(m) == messages' = [messages EXCEPT ![m].place = "visible"]
=============================================================================
