------------------------------- MODULE Gateway -------------------------------
(***************************************************************************)
(* gateway/api.py submit_inference and gateway/admission.py.  FastAPI runs *)
(* the handler in a pool of threads and nothing locks it, so the scans,    *)
(* the publish and the put of one call interleave with everything else.    *)
(* Authentication, tenant policy and routing only decide whether the call  *)
(* goes on; the module Tenant models the tenant's counters.                *)
(***************************************************************************)
EXTENDS PlatformState

\* AdmissionController.check decides ADMIT or DISABLED.
Admits(load) ==
    \/ ~AdmissionEnabled
    \/ /\ load.queue_depth < MaxQueueDepth
       /\ load.pending < MaxPending
       /\ load.processing < MaxProcessing

\* The scan for PENDING records, first argument of SystemLoad.
ScanPending(t) ==
    /\ gateway[t].pc = "idle"
    /\ gateway' = [gateway EXCEPT ![t] =
                      [NoCall EXCEPT !.pc = "scanned",
                                     !.pending = Cardinality(With("pending"))]]
    /\ UNCHANGED <<store, messages, age, accepted, worker, breaker, reconciler, history>>

\* The load the handler builds: nobody fills in queue_depth.
LoadSeen(t) == [queue_depth |-> 0,
                pending     |-> gateway[t].pending,
                processing  |-> Cardinality(With("processing"))]

\* The scan for PROCESSING records, then a 429 of admission or of the tenant.
Reject(t) ==
    /\ gateway[t].pc = "scanned"
    /\ gateway' = [gateway EXCEPT ![t] = NoCall]
    /\ UNCHANGED <<store, messages, age, accepted, worker, breaker, reconciler, history>>

\* The same scan, both checks passed: the request gets its id and accepted_at.
Admit(t) ==
    /\ gateway[t].pc = "scanned"
    /\ Admits(LoadSeen(t))
    /\ \E r \in Requests :
          /\ Fresh(r)
          /\ gateway' = [gateway EXCEPT ![t] =
                            [NoCall EXCEPT !.pc = "admitted", !.request = r]]
          /\ age' = [age EXCEPT ![r] = 0]
    /\ UNCHANGED <<store, messages, accepted, worker, breaker, reconciler, history>>

\* publisher.publish succeeds: from now on a worker may receive the message.
PublishRequest(t) ==
    /\ gateway[t].pc = "admitted"
    /\ Publish(<<gateway[t].request, 0>>)
    /\ gateway' = [gateway EXCEPT ![t].pc = "published"]
    /\ UNCHANGED <<store, age, accepted, worker, breaker, reconciler, history>>

\* publisher.publish raises (503), or the put after it does (500).
SubmitFails(t) ==
    /\ MayFail
    /\ gateway[t].pc \in {"admitted", "published"}
    /\ gateway' = [gateway EXCEPT ![t] = NoCall]
    /\ UNCHANGED <<store, messages, age, accepted, worker, breaker, reconciler, history>>

\* The PENDING record is put, unconditionally, and the caller gets its 202.
PutPending(t) ==
    /\ gateway[t].pc = "published"
    /\ Put(gateway[t].request, "pending")
    /\ accepted' = accepted \cup {gateway[t].request}
    /\ gateway' = [gateway EXCEPT ![t] = NoCall]
    /\ UNCHANGED <<messages, age, worker, breaker, reconciler, history>>

GatewayStep(t) ==
    \/ ScanPending(t) \/ Reject(t) \/ Admit(t)
    \/ PublishRequest(t) \/ SubmitFails(t) \/ PutPending(t)
=============================================================================
