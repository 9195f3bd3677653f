------------------------------- MODULE Platform -------------------------------
(***************************************************************************)
(* The deployed platform: the gateway's threads, the SQS queue, the        *)
(* workers and the reconciliation engine over one result store.            *)
(***************************************************************************)
EXTENDS Gateway, Worker, Reconciler

vars == <<store, messages, age, accepted, gateway, worker, breaker, reconciler, history>>

Init ==
    /\ store = [r \in Requests |-> "absent"]
    /\ messages = [m \in Message |-> [place |-> "none", receives |-> 0]]
    /\ age = [r \in Requests |-> 0]
    /\ accepted = {}
    /\ gateway = [t \in Threads |-> NoCall]
    /\ worker = [w \in Workers |-> Idle]
    /\ breaker = [w \in Workers |-> NewBreaker]
    /\ reconciler = NoPass
    /\ history = [r \in Requests |-> {}]

\* The visibility timeout of a message in flight runs out: it is back in the
\* queue, or in the dead-letter queue after maxReceiveCount deliveries
\* (ai_inference_stack.py:107-112).
Reappear(m) ==
    /\ messages[m].place = "inflight"
    /\ messages' = [messages EXCEPT ![m].place =
                       IF messages[m].receives < MaxReceives THEN "visible" ELSE "dead"]
    /\ UNCHANGED <<store, age, accepted, gateway, worker, breaker, reconciler, history>>

\* A request gets older.
GrowOld(r) ==
    /\ ~Fresh(r)
    /\ age[r] < MaxAge
    /\ age' = [age EXCEPT ![r] = @ + 1]
    /\ UNCHANGED <<store, messages, accepted, gateway, worker, breaker, reconciler, history>>

\* The clock the breakers read.
TimePasses ==
    /\ breaker' = [w \in Workers |-> Elapse(breaker[w])]
    /\ UNCHANGED <<store, messages, age, accepted, gateway, worker, reconciler, history>>

Next ==
    \/ \E t \in Threads : GatewayStep(t)
    \/ \E w \in Workers : WorkerStep(w) \/ WorkerFault(w)
    \/ ReconcilerStep
    \/ \E m \in Message : Reappear(m)
    \/ \E r \in Requests : GrowOld(r)
    \/ TimePasses

Spec == Init /\ [][Next]_vars

\* Workers keep polling and never stop in the middle of a receive, messages in
\* flight reappear, a call of the gateway comes to its end, and time passes.  The
\* engine goes on with its passes, and what it tries again and again succeeds.
Fairness ==
    /\ \A w \in Workers : WF_vars(WorkerStep(w))
    /\ \A m \in Message : WF_vars(Reappear(m))
    /\ \A t \in Threads : WF_vars(PublishRequest(t) \/ PutPending(t))
    /\ \A r \in Requests : WF_vars(GrowOld(r))
    /\ WF_vars(ReconcilerStep)
    /\ SF_vars(ScanStaleProcessing) /\ SF_vars(Resubmit) /\ SF_vars(MarkFailed)

FairSpec == Spec /\ Fairness

-----------------------------------------------------------------------------
CallPc == {"idle", "scanned", "admitted", "published"}
WorkerPc == {"idle", "batching", "refused", "ttl", "expired", "mark", "outputs", "done"}

\* Every part of the state has its type.
TypeOK ==
    /\ store \in [Requests -> Status \cup {"absent"}]
    /\ messages \in [Message -> [place : Place, receives : Nat]]
    /\ age \in [Requests -> 0..MaxAge]
    /\ accepted \subseteq Requests
    /\ gateway \in [Threads -> [pc : CallPc, pending : Nat,
                                request : Requests \cup {"none"}]]
    /\ worker \in [Workers -> [pc : WorkerPc, todo : SUBSET Message,
                               batch : SUBSET Message, live : SUBSET Message,
                               current : SUBSET Message,
                               receipts : SUBSET [message : Message, nth : Nat]]]
    /\ breaker \in [Workers -> Breaker]
    /\ reconciler \in [pc : {"idle", "scanning", "healing"},
                       stale : SUBSET (Requests \X Status)]
    /\ history \in [Requests -> SUBSET Event]

\* The gateway checks the PENDING count and adds to it much later, on several
\* threads at once: the limit can be overshot, but by less than the number of
\* threads, however the calls, the workers and the engine interleave
\* (api.py:299-374, admission.py:97).
PendingOvershootIsBounded ==
    AdmissionEnabled =>
        Cardinality(With("pending")) <= MaxPending + Cardinality(Threads) - 1

\* A message leaves the queue for good only when its request was answered by
\* the model or found past its TTL: a failed output, a refusal by the breaker,
\* a deferral, an exception or a crash leaves it to be delivered again
\* (worker.py:508-645).
DeletionIsJustified ==
    \A m \in Message :
        messages[m].place = "deleted" =>
            history[RequestOf(m)] \cap {"answered", "expired"} # {}

\* A worker may die at any point of a request shown as PROCESSING, so its message
\* is acknowledged only with the result: a message of it is visible, in flight, or
\* in the dead-letter queue after MaxReceives deliveries, where nothing takes it but
\* an alarm is raised (ai_inference_stack.py:107, 194).  The exception is a request
\* that two workers had at once: one of them can finish and delete the message
\* before the other one's put of PROCESSING (worker.py:590-623).
ProcessingKeepsItsMessage ==
    \A r \in Requests :
        store[r] = "processing" /\ "doubled" \notin history[r] =>
            \E k \in 0..MaxResubmits :
                messages[<<r, k>>].place \in {"visible", "inflight", "dead"}

\* The engine resubmits a request only past the pending timeout, and gives a
\* request up only past the processing timeout, or past the pending one when
\* it has no queue to resubmit to (reconciliation.py:194-255).
RecoveryWaitsForTimeout ==
    [][\A r \in Requests :
          /\ (\E k \in 1..MaxResubmits : messages[<<r, k>>].place = "none"
                                         /\ messages'[<<r, k>>].place # "none")
                 => age[r] > PendingStaleAge
          /\ "given_up" \in history'[r] \ history[r]
                 => \/ age[r] > ProcessingStaleAge
                    \/ ~HasPublisher /\ age[r] > PendingStaleAge]_vars

\* Whatever the workers and the engine do, the COMPLETED result of a request that
\* was answered with 202 is overwritten by nothing but the engine's MARK_FAILED of
\* a record it scanned before, although messages reappear while they are being
\* processed; unless a fault interrupted a worker that had it in hand, two workers
\* had it at once, or the engine copied its message (worker.py:601-623,
\* reconciliation.py:219-255).
AcceptedCompletionIsFinal ==
    [][\A r \in accepted :
          store[r] = "completed" /\ history[r] \cap {"dropped", "doubled", "copied"} = {}
              => store'[r] = "completed" \/ MarkFailed]_vars


-----------------------------------------------------------------------------
(* What the documentation says of the platform and the code does not keep.  *)

\* api.py:418 "Poll an accepted request until it reaches a completed or failed
\* terminal state": polling a request that is not terminal is not in vain, its
\* message is still to be processed.
UnfinishedHasMessage ==
    \A r \in accepted :
        store[r] \in {"pending", "processing"} =>
            \E m \in Message : /\ RequestOf(m) = r
                              /\ messages[m].place \in {"visible", "inflight"}
=============================================================================
