----------------------------- MODULE DemoGateway -----------------------------
(***************************************************************************)
(* gateway/api.py submit_inference as the demo wires it: no authentication,*)
(* the in-memory store, the in-process publisher, metrics and audit.       *)
(*                                                                         *)
(* Program counter of a call:                                              *)
(*   idle        no call                                                   *)
(*   pending     in the scan for PENDING records                           *)
(*   scanned     between the two scans                                     *)
(*   processing  in the scan for PROCESSING records                        *)
(*   admitted    both checks passed, the id is drawn                       *)
(*   published   the message is in the work queue                          *)
(*   stored      the PENDING record is put                                 *)
(*                                                                         *)
(* A call that is rejected (429), or whose scan or metric raises (500),    *)
(* only leaves behind what it did before.                                  *)
(***************************************************************************)
EXTENDS DemoState

\* What a call leaves alone until it is admitted, and afterwards.
CallRest == <<worker, batchSizes, scheduler, loop>>

\* A call arrives; the scan for PENDING records begins.
BeginSubmit(t) ==
    /\ call[t].pc = "idle"
    /\ call' = [call EXCEPT ![t] = [NoCall EXCEPT !.pc = "pending", !.scan = BeginScan(db)]]
    /\ UNCHANGED <<db, queue, trail, counters, outcome, announced, CallRest>>

\* The loop over the dict visits one more key.
VisitRecord(t) ==
    /\ call[t].pc \in {"pending", "processing"}
    /\ ~Raises(call[t].scan, db) /\ ~Ends(call[t].scan)
    /\ call' = [call EXCEPT ![t].scan = Visited(@, db, call[t].pc)]
    /\ UNCHANGED <<db, queue, trail, counters, outcome, announced, CallRest>>

\* Somebody inserted a record meanwhile: RuntimeError, the caller gets a 500.
ScanRaises(t) ==
    /\ call[t].pc \in {"pending", "processing"}
    /\ Raises(call[t].scan, db)
    /\ call' = [call EXCEPT ![t] = NoCall]
    /\ UNCHANGED <<db, queue, trail, counters, outcome, announced, CallRest>>

\* The first scan is over.
CountPending(t) ==
    /\ call[t].pc = "pending"
    /\ ~Raises(call[t].scan, db) /\ Ends(call[t].scan)
    /\ call' = [call EXCEPT ![t] = [NoCall EXCEPT !.pc = "scanned",
                                                  !.pending = call[t].scan.found]]
    /\ UNCHANGED <<db, queue, trail, counters, outcome, announced, CallRest>>

\* The scan for PROCESSING records begins.
BeginSecondScan(t) ==
    /\ call[t].pc = "scanned"
    /\ call' = [call EXCEPT ![t].pc = "processing", ![t].scan = BeginScan(db)]
    /\ UNCHANGED <<db, queue, trail, counters, outcome, announced, CallRest>>

\* A mutant: the comparison lets one request more through.
DemoAdmitsUpToLimit(pending, processing) ==
    pending <= MaxPending /\ processing < MaxProcessing

\* AdmissionController.check with the default policy, which is enabled; the
\* handler leaves queue_depth at 0.
DemoAdmits(pending, processing) ==
    pending < MaxPending /\ processing < MaxProcessing

\* The second scan is over: 429 of admission or of the tenant's policy ...
RejectCall(t) ==
    /\ call[t].pc = "processing"
    /\ ~Raises(call[t].scan, db) /\ Ends(call[t].scan)
    /\ call' = [call EXCEPT ![t] = NoCall]
    /\ UNCHANGED <<db, queue, trail, counters, outcome, announced, CallRest>>

\* ... or both checks pass and the request gets its id.
AdmitCall(t) ==
    /\ call[t].pc = "processing"
    /\ ~Raises(call[t].scan, db) /\ Ends(call[t].scan)
    /\ DemoAdmits(call[t].pending, call[t].scan.found)
    /\ \E r \in Requests : Fresh(r)
    /\ call' = [call EXCEPT ![t] = [NoCall EXCEPT !.pc = "admitted",
                                                  !.request = CHOOSE r \in Requests : Fresh(r)]]
    /\ UNCHANGED <<db, queue, trail, counters, outcome, announced, CallRest>>

\* InProcessPublisher.publish: from now on the worker may take the request.
PublishCall(t) ==
    /\ call[t].pc = "admitted"
    /\ queue' = queue \cup {call[t].request}
    /\ Becomes(call[t].request, "queued")
    /\ call' = [call EXCEPT ![t].pc = "published"]
    /\ UNCHANGED <<db, trail, counters, announced, CallRest>>

\* The PENDING record is put, whatever the worker has put meanwhile.
PutPendingRecord(t) ==
    /\ call[t].pc = "published"
    /\ Put(call[t].request, "pending")
    /\ announced' = announced \cup {call[t].request}
    /\ call' = [call EXCEPT ![t].pc = "stored"]
    /\ UNCHANGED <<queue, trail, counters, outcome, CallRest>>

\* The metric, the audit event, the 202.
AnswerAccepted(t) ==
    /\ call[t].pc = "stored"
    /\ counters' = Emitted(counters, "request_accepted")
    /\ Audit(call[t].request, "accepted")
    /\ call' = [call EXCEPT ![t] = NoCall]
    /\ UNCHANGED <<db, queue, outcome, announced, CallRest>>

\* The metric raises: a 500 for a request that will be worked all the same.
AnswerFails(t) ==
    /\ MetricsMayFail
    /\ call[t].pc = "stored"
    /\ call' = [call EXCEPT ![t] = NoCall]
    /\ UNCHANGED <<db, queue, trail, counters, outcome, announced, CallRest>>

CallGoesOn(t) ==
    \/ PublishCall(t) \/ PutPendingRecord(t) \/ AnswerAccepted(t) \/ AnswerFails(t)

CallStep(t) ==
    \/ BeginSubmit(t) \/ VisitRecord(t) \/ ScanRaises(t) \/ CountPending(t)
    \/ BeginSecondScan(t) \/ RejectCall(t) \/ AdmitCall(t) \/ CallGoesOn(t)
=============================================================================
