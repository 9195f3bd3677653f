------------------------------ MODULE Reconciler ------------------------------
(***************************************************************************)
(* core/reconciliation.py run_once: two scans whose results are kept in a  *)
(* list, then one recovery per stale record of the list, whatever has      *)
(* become of the request meanwhile.  One pass runs at a time (the          *)
(* scheduler's thread); with heal off or dry_run on a pass only logs.      *)
(***************************************************************************)
EXTENDS PlatformState

\* A mutant: the two timeouts are mixed up.
StaleSwapped(r, status) ==
    \/ status = "pending" /\ age[r] > ProcessingStaleAge
    \/ status = "processing" /\ age[r] > PendingStaleAge


\* _is_stale; accepted_at always parses.
Stale(r, status) ==
    \/ status = "pending" /\ age[r] > PendingStaleAge
    \/ status = "processing" /\ age[r] > ProcessingStaleAge

\* A mutant: the ids alone, without the status they were found in.
StaleIds(status) == {q \in With(status) : Stale(q, status)}

\* One scan, as the decisions taken on it later see it.
StaleRecords(status) == {<<r, status>> : r \in {q \in With(status) : Stale(q, status)}}

\* First scan of a pass.
ScanStalePending ==
    /\ HealEnabled
    /\ reconciler.pc = "idle"
    /\ reconciler' = [pc |-> "scanning", stale |-> StaleRecords("pending")]
    /\ UNCHANGED <<store, messages, age, accepted, gateway, worker, breaker, history>>

\* Second scan; a pass that found nothing is over.
ScanStaleProcessing ==
    /\ reconciler.pc = "scanning"
    /\ LET all == reconciler.stale \cup StaleRecords("processing")
       IN  reconciler' = IF all = {} THEN NoPass ELSE [pc |-> "healing", stale |-> all]
    /\ UNCHANGED <<store, messages, age, accepted, gateway, worker, breaker, history>>

\* The record is dealt with; after the last one the pass is over.
Dealt(x) ==
    reconciler' = IF reconciler.stale = {x} THEN NoPass
                  ELSE [reconciler EXCEPT !.stale = @ \ {x}]

\* RESUBMIT: a message with a placeholder prompt under the same id; the
\* record stays as it is, so the next pass finds it again.
Resubmit ==
    /\ reconciler.pc = "healing"
    /\ HasPublisher
    /\ \E x \in reconciler.stale, k \in 1..MaxResubmits :
          /\ x[2] = "pending"
          /\ messages[<<x[1], k>>].place = "none"
          /\ \A j \in 1..(k - 1) : messages[<<x[1], j>>].place # "none"
          /\ Publish(<<x[1], k>>)
          /\ Record(x[1], {"copied"})
          /\ Dealt(x)
    /\ UNCHANGED <<store, age, accepted, gateway, worker, breaker>>

\* MARK_FAILED, or RESUBMIT without a publisher: FAILED over whatever is there.
MarkFailed ==
    /\ reconciler.pc = "healing"
    /\ \E x \in reconciler.stale :
          /\ x[2] = "processing" \/ ~HasPublisher
          /\ Put(x[1], "failed")
          /\ Record(x[1], {"settled", "given_up"})
          /\ Dealt(x)
    /\ UNCHANGED <<messages, age, accepted, gateway, worker, breaker>>

\* publish or put raises out of run_once; the scheduler logs it and goes on.
PassFails ==
    /\ MayFail
    /\ reconciler.pc # "idle"
    /\ reconciler' = NoPass
    /\ UNCHANGED <<store, messages, age, accepted, gateway, worker, breaker, history>>

\* The bound on resubmissions: a pass over a record with no copy left ends.
ResubmitBound ==
    /\ reconciler.pc = "healing"
    /\ HasPublisher
    /\ \E x \in reconciler.stale :
          /\ x[2] = "pending"
          /\ \A k \in 1..MaxResubmits : messages[<<x[1], k>>].place # "none"
          /\ Dealt(x)
    /\ UNCHANGED <<store, messages, age, accepted, gateway, worker, breaker, history>>

ReconcilerStep ==
    \/ ScanStalePending \/ ScanStaleProcessing \/ Resubmit \/ MarkFailed
    \/ PassFails \/ ResubmitBound
=============================================================================
