--------------------------------- MODULE Demo ---------------------------------
(***************************************************************************)
(* The demo process (demo.py main): the gateway's threads, the worker      *)
(* thread and the reconciliation thread over shared in-memory state.       *)
(* Nothing survives the process, so there is no crash to recover from; a   *)
(* thread may end with an exception and the others go on.                  *)
(***************************************************************************)
EXTENDS DemoGateway, DemoWorker, DemoReconciler, Functions

vars == <<db, queue, call, worker, trail, counters, batchSizes, scheduler, loop,
          outcome, announced>>

\* main starts the worker and the scheduler, then the gateway.
Init ==
    /\ db = EmptyStore(Requests)
    /\ queue = {}
    /\ call = [t \in Threads |-> NoCall]
    /\ worker = IdleWorker
    /\ trail = [r \in Requests |-> <<>>]
    /\ counters = NoCounts
    /\ batchSizes = NewHistogram(Buckets)
    /\ scheduler = [stop |-> FALSE, thread |-> CHOOSE l \in Loops : TRUE]
    /\ loop = [l \in Loops |-> IF l = scheduler.thread THEN [Unborn EXCEPT !.pc = "ready"]
                                                       ELSE Unborn]
    /\ outcome = [r \in Requests |-> "none"]
    /\ announced = {}

Next ==
    \/ \E t \in Threads : CallStep(t)
    \/ WorkerStep
    \/ SchedulerStep

Spec == Init /\ [][Next]_vars

\* The operating system runs every thread.  Nobody has to submit a request, to
\* start or to stop the scheduler, and no metric has to fail.
Fairness ==
    /\ \A t \in Threads : WF_vars(CallGoesOn(t))
    /\ WF_vars(WorkerStep)
    /\ \A l \in Loops : WF_vars(LoopStep(l))

FairSpec == Spec /\ Fairness

-----------------------------------------------------------------------------
Statuses == {"absent", "pending", "processing", "completed", "failed"}
Outcomes == {"none", "queued", "started", "completed", "failed", "refused", "deferred"}
Scans == [size : 0..Cardinality(Requests), visited : 0..Cardinality(Requests),
          found : 0..Cardinality(Requests)]

\* Every variable has its type; the dict holds each request once, in the
\* order of the insertions (result_store.py:42).
TypeOK ==
    /\ Range(db.keys) = {r \in Requests : db.status[r] # "absent"}
    /\ Len(db.keys) = Cardinality(Range(db.keys))
    /\ db.status \in [Requests -> Statuses]
    /\ queue \subseteq Requests
    /\ \A t \in Threads :
          /\ call[t].pc \in {"idle", "pending", "scanned", "processing", "admitted",
                             "published", "stored"}
          /\ call[t].scan \in Scans
          /\ call[t].pending \in 0..Cardinality(Requests)
          /\ call[t].request \in Requests <=> call[t].pc \in {"admitted", "published", "stored"}
    /\ worker.pc \in {"idle", "batching", "deferring", "refusing", "marking", "outputs",
                      "auditing", "dead"}
    /\ {worker.todo, worker.batch, worker.rest, worker.current} \subseteq SUBSET Requests
    /\ worker.pc \in {"deferring", "refusing", "marking", "outputs", "auditing"}
          => worker.batch # {} /\ worker.batch \cap (worker.todo \cup worker.rest) = {}
    /\ trail \in [Requests -> Seq({"accepted", "completed", "failed"})]
    /\ counters \in [Series -> Nat]
    /\ scheduler \in [stop : BOOLEAN, thread : Loops]
    /\ \A l \in Loops : loop[l].pc \in {"unborn", "ready", "pending", "between", "processing",
                                        "ended"}
    /\ outcome \in [Requests -> Outcomes]
    /\ announced \subseteq Requests

-----------------------------------------------------------------------------
(* The deployment implements what Lifecycle promises.                      *)

Phase(r) ==
    CASE outcome[r] = "none" -> "new"
      [] outcome[r] = "queued" -> "waiting"
      [] outcome[r] = "started" -> "running"
      [] OTHER -> "settled"

Promise == INSTANCE Lifecycle
    WITH phase     <- [r \in Requests |-> Phase(r)],
         status    <- db.status,
         serving   <- worker.pc # "dead"

\* The threads together implement the abstract life of a request: whatever the
\* threads, the batches, the verdicts and the metrics do, a request is taken up
\* and settled once, and is settled and announced unless the worker died
\* (demo.py:114, api.py:360).
KeepsPromise == Promise!Spec

-----------------------------------------------------------------------------
(* Properties.                                                             *)

\* The positions of r's terminal events in its trail.
Terminal(r) == {i \in DOMAIN trail[r] : trail[r][i] # "accepted"}

With(outcomes) == {r \in Requests : outcome[r] \in outcomes}

\* The terminal event that goes with an outcome.
Named(what) ==
    CASE what = "completed" -> "completed"
      [] what \in {"failed", "refused", "deferred"} -> "failed"
      [] OTHER -> "none"

\* What the audit trail says of an outcome is so (audit.py:67, demo.py:215): there
\* is one terminal event at most and it names what became of the request, and
\* whenever the worker is back at the queue every request the adapter answered
\* has its event, however its acceptance was answered.  That a deferred or a
\* refused request has one as well is not claimed: audit.py:4 has every lifecycle
\* transition recorded (docs/security.md:14: lifecycle events), and demo.py:153
\* and 167 record none.
TrailTellsTheTruth ==
    /\ \A r \in Requests :
          \A i \in Terminal(r) : trail[r][i] = Named(outcome[r]) /\ Terminal(r) = {i}
    /\ worker.pc = "idle" => \A r \in With({"completed", "failed"}) : Terminal(r) # {}

\* What /metrics shows agrees with what happened (metrics.py:133 and 190) as long
\* as the worker lives, and by one event when it died of a metric: outcomes,
\* verdicts, and the histogram of batch sizes, whose buckets are cumulative and
\* whose last one holds every batch.
CountersBalance ==
    /\ worker.pc = "idle" =>
          /\ counters["completed"] = Cardinality(With({"completed"}))
          /\ counters["failed"] = Cardinality(With({"failed", "refused"}))
          /\ counters["scheduled"] + counters["deferred"] = batchSizes.count
          /\ batchSizes.total = Cardinality(Settled)
    /\ counters["completed"] - Cardinality(With({"completed"})) \in {0, 1}
    /\ Cardinality(With({"failed", "refused"})) - counters["failed"] \in {0, 1}
    /\ \A a, b \in Buckets : a <= b => batchSizes.counts[a] <= batchSizes.counts[b]
    /\ \A b \in Buckets : b >= BatchSize => batchSizes.counts[b] = batchSizes.count

\* Scans that are no snapshots still bound the overshoot of the admission check
\* (api.py:299): an inserted record raises out of the loop, and one that changes
\* under it belongs to a call that was in flight.
DemoOvershootIsBounded ==
    Cardinality({r \in Requests : db.status[r] = "pending"})
        <= MaxPending + Cardinality(Threads) - 1

\* The reconciliation thread obeys start and stop (reconciliation_scheduler.py
\* 51 to 89): there is never more than one, a stop ends it, and without a stop
\* passes go on for ever, whatever a pass raises.
SchedulerObeys ==
    /\ [](Cardinality(Alive) <= 1)
    /\ scheduler.stop ~> Alive = {}
    /\ <>[]~scheduler.stop => []<>(loop[scheduler.thread].pc = "pending")
=============================================================================
