---------------------------- MODULE PlatformProofs ----------------------------
(***************************************************************************)
(* The platform for any numbers of threads, requests and workers and any   *)
(* policy, with crashes and failing calls: type correctness, the bound on  *)
(* the overshoot of the admission limit, the justification of every        *)
(* deleted message and the timeouts of the reconciliation engine.  And     *)
(* what holds as long as one worker consumes the queue: a request in       *)
(* PROCESSING can be recovered, and, unless the engine publishes copies,   *)
(* an accepted completion is final.                                        *)
(***************************************************************************)
EXTENDS Platform, CircuitBreakerLemmas, FiniteSetTheorems

-----------------------------------------------------------------------------
(* Type correctness.                                                        *)

\* The records of a call, a worker's receive and a pass of the engine.
Call == [pc : CallPc, pending : Nat, request : Requests \cup {"none"}]

Receiving == [pc : WorkerPc, todo : SUBSET Message, batch : SUBSET Message,
              live : SUBSET Message, current : SUBSET Message,
              receipts : SUBSET [message : Message, nth : Nat]]

\* The functions that compute a worker's next step stay within its type.
LEMMA WorkerStepsTyped ==
    ASSUME NEW me \in Receiving
    PROVE  /\ Idle \in Receiving
           /\ NextBatch(me) \in Receiving
           /\ AfterTtl(me) \in Receiving
           /\ \A m \in Message : AfterMark(me, m) \in Receiving
           /\ AfterOutput(me) \in Receiving
<1>1. Idle \in Receiving
  BY DEF Idle, Receiving, WorkerPc
<1>2. NextBatch(me) \in Receiving
  BY <1>1 DEF NextBatch, Receiving, WorkerPc
<1>3. AfterTtl(me) \in Receiving
  BY <1>2 DEF AfterTtl, Receiving, WorkerPc
<1>4. \A m \in Message : AfterMark(me, m) \in Receiving
  BY DEF AfterMark, Receiving, WorkerPc
<1>5. AfterOutput(me) \in Receiving
  BY <1>2 DEF AfterOutput, Receiving, WorkerPc
<1> QED
  BY <1>1, <1>2, <1>3, <1>4, <1>5

\* The messages of a request are its copies.
LEMMA MessagesOfRequests ==
    /\ \A m \in Message : RequestOf(m) \in Requests
    /\ \A r \in Requests : <<r, 0>> \in Message
    /\ \A r \in Requests, k \in 1..MaxResubmits : <<r, k>> \in Message
  BY PlatformAssumption DEF Message, RequestOf

\* A call that got past admission has its request id.
CallsHaveRequests ==
    \A t \in Threads : gateway[t].pc \in {"admitted", "published"}
                           => gateway[t].request \in Requests

TypeInv == TypeOK /\ CallsHaveRequests

\* The scans of the store count finitely many records.
LEMMA ScansAreFinite ==
    \A s : IsFiniteSet(With(s)) /\ Cardinality(With(s)) \in Nat
<1> TAKE s
<1>1. With(s) \in SUBSET Requests /\ IsFiniteSet(Requests)
  BY PlatformAssumption DEF With
<1> QED
  BY <1>1, FS_Subset, FS_CardinalityType

\* Sending a message keeps the messages typed.
LEMMA PublishTyped ==
    ASSUME messages \in [Message -> [place : Place, receives : Nat]],
           NEW m, Publish(m)
    PROVE  messages' \in [Message -> [place : Place, receives : Nat]]
BY DEF Publish, Place

LEMMA TypeInit == Init => TypeInv
<1> SUFFICES ASSUME Init PROVE TypeInv
  OBVIOUS
<1>1. NoCall \in Call /\ NoPass \in [pc : {"idle", "scanning", "healing"},
                                      stale : SUBSET (Requests \X Status)]
  BY DEF NoCall, Call, CallPc, NoPass
<1>2. Idle \in Receiving
  BY DEF Idle, Receiving, WorkerPc
<1>3. NewBreaker \in Breaker
  BY PolicyAssumption DEF NewBreaker, Breaker, CircuitState
<1>4. 0 \in 0..MaxAge
  BY PlatformAssumption
<1> QED
  BY <1>1, <1>2, <1>3, <1>4
     DEF Init, TypeInv, TypeOK, CallsHaveRequests, Call, Receiving, Place, NoCall

LEMMA TypeGateway ==
    ASSUME TypeInv, NEW t \in Threads, GatewayStep(t)
    PROVE  TypeInv'
<1> USE DEF TypeInv, TypeOK
<1>1. NoCall \in Call
  BY DEF NoCall, Call, CallPc
<1>2. ASSUME NEW call \in Call, gateway' = [gateway EXCEPT ![t] = call],
             call.pc \in {"admitted", "published"} => call.request \in Requests
      PROVE  gateway' \in [Threads -> Call] /\ CallsHaveRequests'
  BY <1>2 DEF Call, CallsHaveRequests
<1>3. CASE ScanPending(t)
  <2> DEFINE call == [NoCall EXCEPT !.pc = "scanned",
                                    !.pending = Cardinality(With("pending"))]
  <2>1. call \in Call /\ call.pc = "scanned"
    BY <1>1, ScansAreFinite DEF NoCall, Call, CallPc
  <2>2. gateway' = [gateway EXCEPT ![t] = call]
    BY <1>3 DEF ScanPending
  <2> HIDE DEF call
  <2> QED
    BY <1>2, <1>3, <2>1, <2>2 DEF ScanPending, Call
<1>4. NoCall.pc = "idle"
  BY DEF NoCall
<1>5. CASE Reject(t)
  BY <1>1, <1>2, <1>4, <1>5 DEF Reject, Call
<1>6. CASE Admit(t)
  <2>1. PICK r \in Requests :
            /\ gateway' = [gateway EXCEPT ![t] =
                              [NoCall EXCEPT !.pc = "admitted", !.request = r]]
            /\ age' = [age EXCEPT ![r] = 0]
    BY <1>6 DEF Admit
  <2> DEFINE call == [NoCall EXCEPT !.pc = "admitted", !.request = r]
  <2>2. call \in Call /\ call.request \in Requests
    BY DEF NoCall, Call, CallPc
  <2>3. gateway' \in [Threads -> Call] /\ CallsHaveRequests'
    <3> HIDE DEF call
    <3> QED
      BY <1>2, <2>1, <2>2 DEF call
  <2>4. age' \in [Requests -> 0..MaxAge]
    BY <2>1, PlatformAssumption
  <2> QED
    BY <1>6, <2>3, <2>4 DEF Admit, Call
<1>7. CASE SubmitFails(t)
  BY <1>1, <1>2, <1>4, <1>7 DEF SubmitFails, Call
<1>8. CASE PublishRequest(t)
  <2>1. gateway' \in [Threads -> Call] /\ CallsHaveRequests'
    BY <1>8 DEF PublishRequest, Call, CallPc, CallsHaveRequests
  <2>2. messages' \in [Message -> [place : Place, receives : Nat]]
    <3>1. Publish(<<gateway[t].request, 0>>)
      BY <1>8 DEF PublishRequest
    <3> QED
      BY <3>1, PublishTyped
  <2> QED
    BY <1>8, <2>1, <2>2 DEF PublishRequest, Call
<1>9. CASE PutPending(t)
  <2>1. gateway[t].request \in Requests
    BY <1>9 DEF PutPending, CallsHaveRequests
  <2>2. store' \in [Requests -> Status \cup {"absent"}]
    BY <1>9 DEF PutPending, Put, Status
  <2>3. gateway' \in [Threads -> Call] /\ CallsHaveRequests'
    BY <1>1, <1>2, <1>4, <1>9 DEF PutPending
  <2> QED
    BY <1>9, <2>1, <2>2, <2>3 DEF PutPending, Call
<1> QED
  BY <1>3, <1>5, <1>6, <1>7, <1>8, <1>9 DEF GatewayStep

\* A worker writes statuses, history, messages and its own record only.
LEMMA TypeStore ==
    ASSUME TypeInv, NEW r \in Requests, NEW s \in Status, Put(r, s)
    PROVE  store' \in [Requests -> Status \cup {"absent"}]
  BY DEF TypeInv, TypeOK, Put

LEMMA TypeHistory ==
    ASSUME TypeInv, NEW r \in Requests, NEW events \in SUBSET Event,
           Record(r, events)
    PROVE  history' \in [Requests -> SUBSET Event]
  BY DEF TypeInv, TypeOK, Record

LEMMA TypeDelete ==
    ASSUME TypeInv, NEW w \in Workers, NEW r, DeleteByReceipt(w, r)
    PROVE  messages' \in [Message -> [place : Place, receives : Nat]]
  BY DEF TypeInv, TypeOK, DeleteByReceipt, Place

LEMMA TypeReceive ==
    ASSUME TypeInv, NEW w \in Workers, Receive(w)
    PROVE  TypeInv'
<1> USE DEF TypeInv, TypeOK
<1>1. PICK S \in SUBSET Visible :
         /\ messages' = [m \in Message |->
                IF m \in S
                THEN [place |-> "inflight", receives |-> messages[m].receives + 1]
                ELSE messages[m]]
         /\ \E R \in Receipts(S) :
                worker' = [worker EXCEPT ![w] = [Idle EXCEPT !.pc = "batching",
                                                             !.todo = S,
                                                             !.receipts = R]]
  BY DEF Receive
<1>2. S \in SUBSET Message
  BY DEF Visible
<1>3. PICK R \in Receipts(S) :
         worker' = [worker EXCEPT ![w] = [Idle EXCEPT !.pc = "batching",
                                                      !.todo = S,
                                                      !.receipts = R]]
  BY <1>1
<1>4. R \in SUBSET [message : Message, nth : Nat]
  <2>1. R \subseteq {[message |-> m, nth |-> messages[m].receives + 1] : m \in S}
    BY DEF Receipts
  <2>2. \A m \in S : [message |-> m, nth |-> messages[m].receives + 1]
                         \in [message : Message, nth : Nat]
    BY <1>2
  <2> QED
    BY <2>1, <2>2
<1>5. [Idle EXCEPT !.pc = "batching", !.todo = S, !.receipts = R] \in Receiving
  BY <1>2, <1>4 DEF Idle, Receiving, WorkerPc
<1>6. worker' \in [Workers -> Receiving]
  BY <1>3, <1>5 DEF Receiving
<1>7. messages' \in [Message -> [place : Place, receives : Nat]]
  BY <1>1 DEF Place
<1>8. history' \in [Requests -> SUBSET Event]
  BY DEF Receive, Event
<1> QED
  BY <1>6, <1>7, <1>8 DEF Receive, Receiving, CallsHaveRequests

LEMMA TypeWorker ==
    ASSUME TypeInv, NEW w \in Workers, WorkerStep(w)
    PROVE  TypeInv'
<1> USE DEF TypeInv, TypeOK
<1>1. worker[w] \in Receiving /\ breaker[w] \in Breaker
  BY DEF Receiving
<1>2. ASSUME NEW me \in Receiving, worker' = [worker EXCEPT ![w] = me]
      PROVE  worker' \in [Workers -> Receiving]
  BY <1>2 DEF Receiving
<1>3. ASSUME NEW b \in Breaker, breaker' = [breaker EXCEPT ![w] = b]
      PROVE  breaker' \in [Workers -> Breaker]
  BY <1>3
<1>4. UNCHANGED <<gateway>> => CallsHaveRequests'
  BY DEF CallsHaveRequests
<1>5. {"failed", "processing", "completed"} \subseteq Status
  BY DEF Status
<1>6. \A me \in Receiving : NextBatch(me) \in Receiving
  BY WorkerStepsTyped
<1>7. CASE Receive(w)
  BY <1>7, TypeReceive
<1>8. CASE DeferBatch(w)
  <2>1. PICK B : worker' = [worker EXCEPT ![w] = NextBatch([worker[w] EXCEPT !.todo = @ \ B])]
    BY <1>8 DEF DeferBatch
  <2> DEFINE me == [worker[w] EXCEPT !.todo = @ \ B]
  <2>2. me \in Receiving
    BY <1>1 DEF Receiving
  <2>3. worker' \in [Workers -> Receiving]
    <3>1. worker' = [worker EXCEPT ![w] = NextBatch(me)]
      BY <2>1
    <3>2. NextBatch(me) \in Receiving
      BY <1>6, <2>2
    <3> HIDE DEF me
    <3> QED
      BY <1>2, <3>1, <3>2
  <2> QED
    BY <1>4, <1>8, <2>3 DEF DeferBatch, Receiving
<1>9. CASE GateBatch(w)
  <2>1. PICK B \in SUBSET worker[w].todo :
            worker' = [worker EXCEPT
              ![w].pc = IF Granted(breaker[w]) THEN "ttl" ELSE "refused",
              ![w].todo = @ \ B,
              ![w].batch = B]
    BY <1>9 DEF GateBatch
  <2> DEFINE me == [worker[w] EXCEPT !.pc = IF Granted(breaker[w]) THEN "ttl" ELSE "refused",
                                     !.todo = @ \ B,
                                     !.batch = B]
  <2>2. worker' \in [Workers -> Receiving]
    <3>1. me \in Receiving
      BY <1>1 DEF Receiving, WorkerPc
    <3>2. worker' = [worker EXCEPT ![w] = me]
      BY <2>1
    <3> HIDE DEF me
    <3> QED
      BY <1>2, <3>1, <3>2
  <2>3. breaker' \in [Workers -> Breaker]
    BY <1>1, <1>3, <1>9, OperationsTyped DEF GateBatch
  <2> QED
    BY <1>4, <1>9, <2>2, <2>3 DEF GateBatch, Receiving
<1>10. CASE FastFail(w)
  <2>1. PICK m \in worker[w].batch :
            /\ Put(RequestOf(m), "failed")
            /\ Record(RequestOf(m), {"settled"})
            /\ worker' = [worker EXCEPT ![w] =
                  IF @.batch = {m} THEN NextBatch(@) ELSE [worker[w] EXCEPT !.batch = @ \ {m}]]
    BY <1>10 DEF FastFail
  <2>2. RequestOf(m) \in Requests
    BY <1>1, MessagesOfRequests DEF Receiving
  <2> DEFINE less == [worker[w] EXCEPT !.batch = @ \ {m}]
             me == IF worker[w].batch = {m} THEN NextBatch(worker[w]) ELSE less
  <2>3. me \in Receiving
    <3>1. less \in Receiving
      BY <1>1 DEF Receiving
    <3> HIDE DEF less
    <3> QED
      BY <1>1, <1>6, <3>1
  <2>4. worker' \in [Workers -> Receiving]
    <3>1. worker' = [worker EXCEPT ![w] = me]
      BY <2>1
    <3> HIDE DEF me
    <3> QED
      BY <1>2, <2>3, <3>1
  <2>5. store' \in [Requests -> Status \cup {"absent"}]
    BY <1>5, <2>1, <2>2, TypeStore
  <2>6. history' \in [Requests -> SUBSET Event]
    BY <2>1, <2>2, TypeHistory DEF Event
  <2> QED
    BY <1>4, <1>10, <2>4, <2>5, <2>6 DEF FastFail, Receiving
<1>11. CASE ExpireOne(w)
  <2>1. PICK m \in worker[w].batch :
            /\ Put(RequestOf(m), "failed")
            /\ Record(RequestOf(m), {"settled", "expired"})
            /\ worker' = [worker EXCEPT ![w].pc = "expired", ![w].current = {m},
                                        ![w].batch = @ \ {m}]
    BY <1>11 DEF ExpireOne
  <2>2. m \in Message /\ RequestOf(m) \in Requests
    BY <1>1, MessagesOfRequests DEF Receiving
  <2>3. worker' \in [Workers -> Receiving]
    BY <1>1, <2>1, <2>2 DEF Receiving, WorkerPc
  <2>4. store' \in [Requests -> Status \cup {"absent"}]
    BY <1>5, <2>1, <2>2, TypeStore
  <2>5. history' \in [Requests -> SUBSET Event]
    BY <2>1, <2>2, TypeHistory DEF Event
  <2> QED
    BY <1>4, <1>11, <2>3, <2>4, <2>5 DEF ExpireOne, Receiving
<1>12. CASE KeepOne(w)
  <2>1. PICK m \in worker[w].batch :
            worker' = [worker EXCEPT ![w] =
                AfterTtl([worker[w] EXCEPT !.batch = @ \ {m}, !.live = @ \cup {m}])]
    BY <1>12 DEF KeepOne
  <2>2. m \in Message
    BY <1>1 DEF Receiving
  <2> DEFINE me == [worker[w] EXCEPT !.batch = @ \ {m}, !.live = @ \cup {m}]
  <2>3. me \in Receiving
    BY <1>1, <2>2 DEF Receiving
  <2>4. worker' \in [Workers -> Receiving]
    <3>1. worker' = [worker EXCEPT ![w] = AfterTtl(me)]
      BY <2>1
    <3>2. AfterTtl(me) \in Receiving
      BY <2>3, WorkerStepsTyped
    <3> HIDE DEF me
    <3> QED
      BY <1>2, <3>1, <3>2
  <2> QED
    BY <1>4, <1>12, <2>4 DEF KeepOne, Receiving
<1>13. CASE DeleteExpired(w)
  <2>1. PICK m \in worker[w].current : DeleteByReceipt(w, RequestOf(m))
    BY <1>13 DEF DeleteExpired
  <2>2. m \in Message
    BY <1>1 DEF Receiving
  <2>3. messages' \in [Message -> [place : Place, receives : Nat]]
    BY <2>1, TypeDelete
  <2>4. worker' \in [Workers -> Receiving]
    BY <1>1, <1>2, <1>13, <2>2, WorkerStepsTyped DEF DeleteExpired
  <2> QED
    BY <1>4, <1>13, <2>3, <2>4 DEF DeleteExpired, Receiving
<1>14. CASE MarkProcessing(w)
  <2>1. PICK m \in worker[w].batch :
            /\ Put(RequestOf(m), "processing")
            /\ worker' = [worker EXCEPT ![w] = AfterMark(@, m)]
    BY <1>14 DEF MarkProcessing
  <2>2. m \in Message /\ RequestOf(m) \in Requests
    BY <1>1, MessagesOfRequests DEF Receiving
  <2>3. store' \in [Requests -> Status \cup {"absent"}]
    BY <1>5, <2>1, <2>2, TypeStore
  <2>4. worker' \in [Workers -> Receiving]
    BY <1>1, <1>2, <2>1, <2>2, WorkerStepsTyped
  <2> QED
    BY <1>4, <1>14, <2>3, <2>4 DEF MarkProcessing, Receiving
<1>15. CASE OutputSucceeds(w)
  <2>1. PICK m \in worker[w].batch :
            /\ Put(RequestOf(m), "completed")
            /\ Record(RequestOf(m), {"settled", "answered"})
            /\ worker' = [worker EXCEPT ![w].pc = "done", ![w].current = {m},
                                        ![w].batch = @ \ {m}]
    BY <1>15 DEF OutputSucceeds
  <2>2. m \in Message /\ RequestOf(m) \in Requests
    BY <1>1, MessagesOfRequests DEF Receiving
  <2>3. worker' \in [Workers -> Receiving]
    BY <1>1, <2>1, <2>2 DEF Receiving, WorkerPc
  <2>4. store' \in [Requests -> Status \cup {"absent"}]
    BY <1>5, <2>1, <2>2, TypeStore
  <2>5. history' \in [Requests -> SUBSET Event]
    BY <2>1, <2>2, TypeHistory DEF Event
  <2>6. breaker' \in [Workers -> Breaker]
    BY <1>1, <1>3, <1>15, OperationsTyped DEF OutputSucceeds
  <2> QED
    BY <1>4, <1>15, <2>3, <2>4, <2>5, <2>6 DEF OutputSucceeds, Receiving
<1>16. CASE OutputFails(w)
  <2>1. PICK m \in worker[w].batch :
            /\ Put(RequestOf(m), "failed")
            /\ Record(RequestOf(m), {"settled"})
            /\ worker' = [worker EXCEPT ![w] = AfterOutput([worker[w] EXCEPT !.batch = @ \ {m}])]
    BY <1>16 DEF OutputFails
  <2>2. m \in Message /\ RequestOf(m) \in Requests
    BY <1>1, MessagesOfRequests DEF Receiving
  <2> DEFINE me == [worker[w] EXCEPT !.batch = @ \ {m}]
  <2>3. me \in Receiving
    BY <1>1 DEF Receiving
  <2>4. worker' \in [Workers -> Receiving]
    <3>1. worker' = [worker EXCEPT ![w] = AfterOutput(me)]
      BY <2>1
    <3>2. AfterOutput(me) \in Receiving
      BY <2>3, WorkerStepsTyped
    <3> HIDE DEF me
    <3> QED
      BY <1>2, <3>1, <3>2
  <2>5. store' \in [Requests -> Status \cup {"absent"}]
    BY <1>5, <2>1, <2>2, TypeStore
  <2>6. history' \in [Requests -> SUBSET Event]
    BY <2>1, <2>2, TypeHistory DEF Event
  <2>7. breaker' \in [Workers -> Breaker]
    BY <1>1, <1>3, <1>16, OperationsTyped DEF OutputFails
  <2> QED
    BY <1>4, <1>16, <2>4, <2>5, <2>6, <2>7 DEF OutputFails, Receiving
<1>17. CASE DeleteDone(w)
  <2>1. PICK m \in worker[w].current : DeleteByReceipt(w, RequestOf(m))
    BY <1>17 DEF DeleteDone
  <2>2. m \in Message
    BY <1>1 DEF Receiving
  <2>3. messages' \in [Message -> [place : Place, receives : Nat]]
    BY <2>1, TypeDelete
  <2>4. worker' \in [Workers -> Receiving]
    BY <1>1, <1>2, <1>17, <2>2, WorkerStepsTyped DEF DeleteDone
  <2> QED
    BY <1>4, <1>17, <2>3, <2>4 DEF DeleteDone, Receiving
<1> QED
  BY <1>7, <1>8, <1>9, <1>10, <1>11, <1>12, <1>13, <1>14, <1>15, <1>16, <1>17
     DEF WorkerStep

LEMMA TypeDropped ==
    ASSUME TypeInv, NEW w \in Workers, DropInHand(w)
    PROVE  /\ history' \in [Requests -> SUBSET Event]
           /\ \A r \in Requests : history[r] \subseteq history'[r]
  BY DEF TypeInv, TypeOK, DropInHand, Event

LEMMA TypeFault ==
    ASSUME TypeInv, NEW w \in Workers, WorkerFault(w)
    PROVE  TypeInv'
<1>1. Idle \in Receiving /\ NewBreaker \in Breaker
  BY PolicyAssumption
     DEF Idle, Receiving, WorkerPc, NewBreaker, Breaker, CircuitState
<1>2. CASE CallRaises(w)
  <2>1. \/ UNCHANGED breaker
        \/ \E counted \in {AfterSuccess(breaker[w]), AfterFailure(breaker[w])} :
              breaker' = [breaker EXCEPT ![w] = counted]
    BY <1>2 DEF CallRaises
  <2>2. {AfterSuccess(breaker[w]), AfterFailure(breaker[w])} \subseteq Breaker
    BY OperationsTyped DEF TypeInv, TypeOK
  <2>3. breaker' \in [Workers -> Breaker]
    BY <2>1, <2>2 DEF TypeInv, TypeOK
  <2>4. worker' \in [Workers -> Receiving]
    BY <1>1, <1>2 DEF CallRaises, TypeInv, TypeOK, Receiving
  <2>5. UNCHANGED <<store, messages, age, accepted, gateway, reconciler>>
    BY <1>2 DEF CallRaises
  <2>6. history' \in [Requests -> SUBSET Event]
    BY <1>2, TypeDropped DEF CallRaises
  <2> QED
    BY <2>3, <2>4, <2>5, <2>6 DEF TypeInv, TypeOK, Receiving, CallsHaveRequests
<1>3. CASE CrashAndRestart(w)
  <2>1. breaker' \in [Workers -> Breaker]
    BY <1>1, <1>3 DEF CrashAndRestart, TypeInv, TypeOK
  <2>2. history' \in [Requests -> SUBSET Event]
    BY <1>3, TypeDropped DEF CrashAndRestart
  <2> QED
    BY <1>1, <1>3, <2>1, <2>2
       DEF CrashAndRestart, TypeInv, TypeOK, Receiving, CallsHaveRequests
<1> QED
  BY <1>2, <1>3 DEF WorkerFault

LEMMA TypeReconciler ==
    ASSUME TypeInv, ReconcilerStep
    PROVE  TypeInv'
<1> USE DEF TypeInv, TypeOK
<1> DEFINE Pass == [pc : {"idle", "scanning", "healing"},
                    stale : SUBSET (Requests \X Status)]
<1>1. NoPass \in Pass
  BY DEF NoPass
<1>2. UNCHANGED gateway => CallsHaveRequests'
  BY DEF CallsHaveRequests
<1>3. \A s \in Status : StaleRecords(s) \in SUBSET (Requests \X Status)
  BY DEF StaleRecords, With
<1>4. ASSUME NEW x, Dealt(x) PROVE reconciler' \in Pass
  BY <1>1, <1>4 DEF Dealt
<1>5. CASE ScanStalePending
  BY <1>2, <1>3, <1>5 DEF ScanStalePending, Status
<1>6. CASE ScanStaleProcessing
  <2>1. reconciler.stale \cup StaleRecords("processing") \in SUBSET (Requests \X Status)
    BY <1>3 DEF Status
  <2>2. reconciler' \in Pass
    BY <1>1, <1>6, <2>1 DEF ScanStaleProcessing
  <2> QED
    BY <1>2, <1>6, <2>2 DEF ScanStaleProcessing
<1>7. CASE Resubmit
  <2>1. PICK x \in reconciler.stale, k \in 1..MaxResubmits :
            Publish(<<x[1], k>>) /\ Record(x[1], {"copied"}) /\ Dealt(x)
    BY <1>7 DEF Resubmit
  <2>2. messages' \in [Message -> [place : Place, receives : Nat]]
    BY <2>1, PublishTyped
  <2>3. x[1] \in Requests
    BY <2>1
  <2>4. history' \in [Requests -> SUBSET Event]
    BY <2>1, <2>3, TypeHistory DEF Event
  <2> QED
    BY <1>2, <1>4, <1>7, <2>1, <2>2, <2>4 DEF Resubmit
<1>8. CASE MarkFailed
  <2>1. PICK x \in reconciler.stale :
            /\ Put(x[1], "failed")
            /\ Record(x[1], {"settled", "given_up"})
            /\ Dealt(x)
    BY <1>8 DEF MarkFailed
  <2>2. x[1] \in Requests
    OBVIOUS
  <2>3. store' \in [Requests -> Status \cup {"absent"}]
    BY <2>1, <2>2, TypeStore DEF Status
  <2>4. history' \in [Requests -> SUBSET Event]
    BY <2>1, <2>2, TypeHistory DEF Event
  <2> QED
    BY <1>2, <1>4, <1>8, <2>1, <2>3, <2>4 DEF MarkFailed
<1>9. CASE PassFails
  BY <1>1, <1>2, <1>9 DEF PassFails
<1>10. CASE ResubmitBound
  BY <1>2, <1>4, <1>10 DEF ResubmitBound
<1> QED
  BY <1>5, <1>6, <1>7, <1>8, <1>9, <1>10 DEF ReconcilerStep

LEMMA TypeEnvironment ==
    ASSUME TypeInv,
           \/ \E m \in Message : Reappear(m)
           \/ \E r \in Requests : GrowOld(r)
           \/ TimePasses
           \/ UNCHANGED vars
    PROVE  TypeInv'
<1> USE DEF TypeInv, TypeOK, CallsHaveRequests
<1>1. ASSUME NEW m \in Message, Reappear(m) PROVE TypeInv'
  BY <1>1 DEF Reappear, Place
<1>2. ASSUME NEW r \in Requests, GrowOld(r) PROVE TypeInv'
  BY <1>2, PlatformAssumption DEF GrowOld
<1>3. CASE TimePasses
  <2>1. breaker' \in [Workers -> Breaker]
    BY <1>3, OperationsTyped DEF TimePasses
  <2> QED
    BY <1>3, <2>1 DEF TimePasses
<1>4. CASE UNCHANGED vars
  BY <1>4 DEF vars
<1> QED
  BY <1>1, <1>2, <1>3, <1>4

\* Every step keeps the types, and the ids of the calls in progress.
THEOREM TypeInvariant == Spec => []TypeInv
<1>1. TypeInv /\ [Next]_vars => TypeInv'
  BY TypeGateway, TypeWorker, TypeFault, TypeReconciler, TypeEnvironment DEF Next
<1> QED
  BY TypeInit, <1>1, PTL DEF Spec

\* Type correctness of the platform's state.
THEOREM TypeCorrect == Spec => []TypeOK
<1>1. TypeInv => TypeOK
  BY DEF TypeInv
<1> QED
  BY TypeInvariant, <1>1, PTL

-----------------------------------------------------------------------------
(* The overshoot of the admission limit.                                    *)

\* Calls that have seen room under the limit and may still add a record.
Underway ==
    {t \in Threads : \/ gateway[t].pc \in {"admitted", "published"}
                     \/ gateway[t].pc = "scanned" /\ gateway[t].pending < MaxPending}

\* PENDING records and calls underway share the room there is.  Stronger than
\* PendingOvershootIsBounded, which alone does not survive a put.
AdmissionInv ==
    AdmissionEnabled =>
        Cardinality(With("pending")) + Cardinality(Underway)
            <= MaxPending + Cardinality(Threads) - 1

LEMMA SetsAreFinite ==
    /\ IsFiniteSet(With("pending")) /\ Cardinality(With("pending")) \in Nat
    /\ IsFiniteSet(Underway) /\ Cardinality(Underway) \in Nat
    /\ Cardinality(Underway) <= Cardinality(Threads)
    /\ Cardinality(Threads) \in Nat /\ Cardinality(Threads) >= 1
<1>1. Underway \in SUBSET Threads /\ IsFiniteSet(Threads) /\ Threads # {}
  BY PlatformAssumption DEF Underway
<1>2. Cardinality(Threads) \in Nat /\ Cardinality(Threads) # 0
  BY <1>1, FS_CardinalityType, FS_EmptySet
<1> QED
  BY <1>1, <1>2, ScansAreFinite, FS_Subset, FS_CardinalityType

\* No new PENDING record and no new call underway: the sum can only fall.
LEMMA ShrinkingKeepsAdmission ==
    ASSUME AdmissionInv,
           With("pending")' \subseteq With("pending"),
           Underway' \subseteq Underway
    PROVE  AdmissionInv'
<1>1. /\ Cardinality(With("pending")') <= Cardinality(With("pending"))
      /\ Cardinality(With("pending")') \in Nat
  BY SetsAreFinite, FS_Subset, FS_CardinalityType
<1>2. /\ Cardinality(Underway') <= Cardinality(Underway)
      /\ Cardinality(Underway') \in Nat
  BY SetsAreFinite, FS_Subset, FS_CardinalityType
<1> QED
  BY <1>1, <1>2, SetsAreFinite, PlatformAssumption DEF AdmissionInv

\* Only the gateway makes a request PENDING.
LEMMA OthersNeverPend ==
    ASSUME TypeInv,
           \/ \E w \in Workers : WorkerStep(w) \/ WorkerFault(w)
           \/ ReconcilerStep
           \/ \E m \in Message : Reappear(m)
           \/ \E r \in Requests : GrowOld(r)
           \/ TimePasses
           \/ UNCHANGED vars
    PROVE  /\ UNCHANGED gateway
           /\ With("pending")' \subseteq With("pending")
<1>1. ASSUME NEW r, NEW s, s # "pending", Put(r, s)
      PROVE  With("pending")' \subseteq With("pending")
  BY <1>1 DEF With, Put, TypeInv, TypeOK
<1>2. UNCHANGED store => With("pending")' \subseteq With("pending")
  BY DEF With
<1>3. ASSUME NEW w \in Workers, WorkerStep(w)
      PROVE  UNCHANGED gateway /\ With("pending")' \subseteq With("pending")
  <2>1. CASE FastFail(w) \/ ExpireOne(w) \/ MarkProcessing(w)
                \/ OutputSucceeds(w) \/ OutputFails(w)
    BY <1>1, <2>1
       DEF FastFail, ExpireOne, MarkProcessing, OutputSucceeds, OutputFails
  <2>2. CASE Receive(w) \/ DeferBatch(w) \/ GateBatch(w) \/ KeepOne(w)
                \/ DeleteExpired(w) \/ DeleteDone(w)
    BY <1>2, <2>2
       DEF Receive, DeferBatch, GateBatch, KeepOne, DeleteExpired, DeleteDone
  <2> QED
    BY <1>3, <2>1, <2>2 DEF WorkerStep
<1>4. ASSUME NEW w \in Workers, WorkerFault(w)
      PROVE  UNCHANGED gateway /\ With("pending")' \subseteq With("pending")
  BY <1>2, <1>4 DEF WorkerFault, CallRaises, CrashAndRestart
<1>5. ASSUME ReconcilerStep
      PROVE  UNCHANGED gateway /\ With("pending")' \subseteq With("pending")
  <2>1. CASE MarkFailed
    BY <1>1, <2>1 DEF MarkFailed
  <2>2. CASE ScanStalePending \/ ScanStaleProcessing \/ Resubmit \/ PassFails
                \/ ResubmitBound
    BY <1>2, <2>2
       DEF ScanStalePending, ScanStaleProcessing, Resubmit, PassFails, ResubmitBound
  <2> QED
    BY <1>5, <2>1, <2>2 DEF ReconcilerStep
<1>6. CASE \/ \E m \in Message : Reappear(m)
           \/ \E r \in Requests : GrowOld(r)
           \/ TimePasses
           \/ UNCHANGED vars
  BY <1>2, <1>6 DEF Reappear, GrowOld, TimePasses, vars
<1> QED
  BY <1>3, <1>4, <1>5, <1>6

LEMMA GatewayKeepsAdmission ==
    ASSUME TypeInv, AdmissionInv, NEW t \in Threads, GatewayStep(t)
    PROVE  AdmissionInv'
<1> USE DEF TypeInv, TypeOK
<1>1. UNCHANGED store => With("pending")' \subseteq With("pending")
  BY DEF With
<1>2. CASE ScanPending(t)
  <2>1. With("pending")' = With("pending")
    BY <1>2 DEF ScanPending, With
  <2>2. CASE Cardinality(With("pending")) < MaxPending
    <3>1. Underway' \in SUBSET Threads /\ IsFiniteSet(Threads)
      BY PlatformAssumption DEF Underway
    <3>2. Cardinality(Underway') <= Cardinality(Threads) /\ Cardinality(Underway') \in Nat
      BY <3>1, FS_Subset, FS_CardinalityType
    <3> QED
      BY <2>1, <2>2, <3>2, SetsAreFinite, PlatformAssumption DEF AdmissionInv
  <2>3. CASE ~(Cardinality(With("pending")) < MaxPending)
    <3>1. Underway' \subseteq Underway
      BY <1>2, <2>3 DEF ScanPending, Underway, NoCall
    <3> QED
      BY <2>1, <3>1, ShrinkingKeepsAdmission
  <2> QED
    BY <2>2, <2>3
<1>3. CASE Admit(t)
  <2>1. CASE AdmissionEnabled
    <3>1. gateway[t].pc = "scanned" /\ gateway[t].pending < MaxPending
      BY <1>3, <2>1, PlatformAssumption DEF Admit, Admits, LoadSeen
    <3>2. Underway' \subseteq Underway
      BY <1>3, <3>1 DEF Admit, Underway, NoCall
    <3> QED
      BY <1>1, <1>3, <3>2, ShrinkingKeepsAdmission DEF Admit
  <2> QED
    BY <2>1 DEF AdmissionInv
<1>4. CASE PutPending(t)
  <2> DEFINE r == gateway[t].request
  <2>1. With("pending")' \subseteq With("pending") \cup {r}
    BY <1>4 DEF PutPending, Put, With
  <2>2. Underway' \subseteq Underway \ {t} /\ t \in Underway
    BY <1>4 DEF PutPending, Underway, NoCall
  <2>3. /\ Cardinality(With("pending")') <= Cardinality(With("pending")) + 1
        /\ Cardinality(With("pending")') \in Nat
    <3> DEFINE P == With("pending")
    <3>0. IsFiniteSet(P) /\ Cardinality(P) \in Nat
      BY SetsAreFinite
    <3>1. /\ IsFiniteSet(P \cup {r})
          /\ Cardinality(P \cup {r}) <= Cardinality(P) + 1
      <4> HIDE DEF r, P
      <4>1. IsFiniteSet(P \cup {r})
        BY <3>0, FS_AddElement
      <4>2. Cardinality(P \cup {r}) = IF r \in P THEN Cardinality(P) ELSE Cardinality(P) + 1
        BY <3>0, FS_AddElement
      <4> QED
        BY <3>0, <4>1, <4>2
    <3> HIDE DEF r
    <3> QED
      BY <2>1, <3>1, SetsAreFinite, FS_Subset, FS_CardinalityType
  <2>4. /\ Cardinality(Underway') <= Cardinality(Underway) - 1
        /\ Cardinality(Underway') \in Nat
    BY <2>2, SetsAreFinite, FS_RemoveElement, FS_Subset, FS_CardinalityType
  <2> QED
    BY <2>3, <2>4, SetsAreFinite, PlatformAssumption DEF AdmissionInv
<1>5. CASE Reject(t) \/ SubmitFails(t)
  <2>1. Underway' \subseteq Underway
    BY <1>5 DEF Reject, SubmitFails, Underway, NoCall
  <2> QED
    BY <1>1, <1>5, <2>1, ShrinkingKeepsAdmission DEF Reject, SubmitFails
<1>6. CASE PublishRequest(t)
  <2>1. Underway' \subseteq Underway
    BY <1>6 DEF PublishRequest, Underway
  <2> QED
    BY <1>1, <1>6, <2>1, ShrinkingKeepsAdmission DEF PublishRequest
<1> QED
  BY <1>2, <1>3, <1>4, <1>5, <1>6 DEF GatewayStep

\* However the threads, the workers and the engine interleave, the PENDING
\* records exceed the limit by less than the number of gateway threads
\* (api.py:299-374, admission.py:97).
THEOREM OvershootIsBounded == Spec => []PendingOvershootIsBounded
<1>1. Init => AdmissionInv
  <2> SUFFICES ASSUME Init PROVE AdmissionInv
    OBVIOUS
  <2>1. With("pending") = {} /\ Underway = {}
    BY DEF Init, With, Underway, NoCall
  <2>2. Cardinality(With("pending")) = 0 /\ Cardinality(Underway) = 0
    BY <2>1, FS_EmptySet
  <2> QED
    BY <2>2, SetsAreFinite, PlatformAssumption DEF AdmissionInv
<1>2. TypeInv /\ AdmissionInv /\ [Next]_vars => AdmissionInv'
  <2> SUFFICES ASSUME TypeInv, AdmissionInv, [Next]_vars PROVE AdmissionInv'
    OBVIOUS
  <2>1. ASSUME UNCHANGED gateway /\ With("pending")' \subseteq With("pending")
        PROVE  AdmissionInv'
    <3>1. Underway' \subseteq Underway
      BY <2>1 DEF Underway
    <3> QED
      BY <2>1, <3>1, ShrinkingKeepsAdmission
  <2>2. CASE \E t \in Threads : GatewayStep(t)
    BY <2>2, GatewayKeepsAdmission
  <2> QED
    BY <2>1, <2>2, OthersNeverPend DEF Next
<1>3. AdmissionInv => PendingOvershootIsBounded
  BY SetsAreFinite, PlatformAssumption DEF AdmissionInv, PendingOvershootIsBounded
<1> QED
  BY <1>1, <1>2, <1>3, TypeInvariant, PTL DEF Spec

-----------------------------------------------------------------------------
(* Deleted messages.                                                        *)

Justified(r) == history[r] \cap {"answered", "expired"} # {}

\* A worker about to delete the message of a request has already stored the
\* answer or the expiry of that request.
HeldIsJustified ==
    \A w \in Workers : \A m \in worker[w].current : Justified(RequestOf(m))

DeletionInv == DeletionIsJustified /\ HeldIsJustified

\* A step that deletes no message and keeps the justification of what the
\* workers hold preserves the invariant, since history only grows.
LEMMA DeletionKept ==
    ASSUME DeletionInv,
           \A r \in Requests : Justified(r) => Justified(r)',
           \A m \in Message : messages'[m].place = "deleted"
                                 => messages[m].place = "deleted",
           \A w \in Workers : \A m \in worker'[w].current :
               m \in worker[w].current \/ Justified(RequestOf(m))',
           \A w \in Workers : worker[w].current \subseteq Message
    PROVE  DeletionInv'
  BY MessagesOfRequests DEF DeletionInv, DeletionIsJustified, HeldIsJustified, Justified

LEMMA JustificationLasts ==
    ASSUME TypeInv, NEW r \in Requests, NEW events, Record(r, events)
    PROVE  /\ \A q \in Requests : Justified(q) => Justified(q)'
           /\ events \cap {"answered", "expired"} # {} => Justified(r)'
  BY DEF TypeInv, TypeOK, Record, Justified

\* What a worker holds for deletion after each of its local steps.
LEMMA CurrentAfter ==
    ASSUME NEW me \in Receiving, NEW m
    PROVE  /\ NextBatch(me).current = {}
           /\ AfterTtl(me).current = {}
           /\ AfterOutput(me).current = {}
           /\ AfterMark(me, m).current = me.current
<1>1. NextBatch(me).current = {}
  BY DEF NextBatch, Idle, Receiving
<1> QED
  BY <1>1 DEF AfterTtl, AfterOutput, AfterMark, Receiving

\* The steps of a worker, by what they do to messages and to what it holds.
LEMMA WorkerKeepsDeletion ==
    ASSUME TypeInv, DeletionInv, NEW w \in Workers, WorkerStep(w)
    PROVE  DeletionInv'
<1> USE DEF TypeInv, TypeOK
<1>1. /\ \A v \in Workers : worker[v] \in Receiving
      /\ \A v \in Workers : worker[v].current \subseteq Message
  BY DEF Receiving
<1>2. ASSUME NEW me, worker' = [worker EXCEPT ![w] = me], me.current = {}
      PROVE  \A v \in Workers : \A m \in worker'[v].current : m \in worker[v].current
  BY <1>2
<1>3. UNCHANGED history => \A r \in Requests : Justified(r) => Justified(r)'
  BY DEF Justified
<1>4. UNCHANGED messages => \A m \in Message : messages'[m].place = "deleted"
                                                => messages[m].place = "deleted"
  OBVIOUS
<1>5. ASSUME NEW m \in worker[w].batch
      PROVE  m \in Message /\ RequestOf(m) \in Requests
  BY <1>1, MessagesOfRequests DEF Receiving
<1>6. CASE Receive(w)
  <2>1. PICK S, R : worker' = [worker EXCEPT ![w] = [Idle EXCEPT !.pc = "batching",
                                                               !.todo = S,
                                                               !.receipts = R]]
    BY <1>6 DEF Receive
  <2>2. [Idle EXCEPT !.pc = "batching", !.todo = S, !.receipts = R].current = {}
    BY DEF Idle
  <2>3. \A m \in Message : messages'[m].place = "deleted"
                              => messages[m].place = "deleted"
    BY <1>6 DEF Receive
  <2>4. \A r \in Requests : Justified(r) => Justified(r)'
    BY <1>6 DEF Receive, Justified
  <2> QED
    BY <1>1, <1>2, <2>1, <2>2, <2>3, <2>4, DeletionKept
<1>7. CASE DeferBatch(w)
  <2>1. PICK B : worker' = [worker EXCEPT ![w] = NextBatch([worker[w] EXCEPT !.todo = @ \ B])]
    BY <1>7 DEF DeferBatch
  <2>2. [worker[w] EXCEPT !.todo = @ \ B] \in Receiving
    BY <1>1 DEF Receiving
  <2>3. NextBatch([worker[w] EXCEPT !.todo = @ \ B]).current = {}
    BY <2>2, CurrentAfter
  <2> QED
    BY <1>1, <1>2, <1>3, <1>4, <1>7, <2>1, <2>3, DeletionKept DEF DeferBatch
<1>8. CASE GateBatch(w)
  <2>1. \A v \in Workers : worker'[v].current = worker[v].current
    BY <1>1, <1>8 DEF GateBatch, Receiving
  <2> QED
    BY <1>1, <1>3, <1>4, <1>8, <2>1, DeletionKept DEF GateBatch
<1>9. CASE FastFail(w)
  <2>1. PICK m \in worker[w].batch :
            /\ Record(RequestOf(m), {"settled"})
            /\ worker' = [worker EXCEPT ![w] = IF @.batch = {m} THEN NextBatch(@)
                                  ELSE [worker[w] EXCEPT !.batch = @ \ {m}]]
    BY <1>9 DEF FastFail
  <2>2. \A v \in Workers : \A n \in worker'[v].current : n \in worker[v].current
    <3>1. NextBatch(worker[w]).current = {}
      BY <1>1, CurrentAfter
    <3>2. [worker[w] EXCEPT !.batch = @ \ {m}].current = worker[w].current
      BY <1>1 DEF Receiving
    <3> QED
      BY <1>1, <2>1, <3>1, <3>2
  <2>3. \A r \in Requests : Justified(r) => Justified(r)'
    BY <1>5, <2>1, JustificationLasts
  <2> QED
    BY <1>1, <1>4, <1>9, <2>2, <2>3, DeletionKept DEF FastFail
<1>10. CASE ExpireOne(w) \/ OutputSucceeds(w)
  <2>1. PICK m \in worker[w].batch, events \in SUBSET Event, label \in WorkerPc :
            /\ Record(RequestOf(m), events)
            /\ events \cap {"answered", "expired"} # {}
            /\ worker' = [worker EXCEPT ![w].pc = label, ![w].current = {m},
                                        ![w].batch = @ \ {m}]
    BY <1>10 DEF ExpireOne, OutputSucceeds, Event, WorkerPc
  <2>2. \A v \in Workers : \A n \in worker'[v].current :
            n \in worker[v].current \/ n = m
    BY <1>1, <2>1 DEF Receiving
  <2>3. /\ \A r \in Requests : Justified(r) => Justified(r)'
        /\ Justified(RequestOf(m))'
    BY <1>5, <2>1, JustificationLasts
  <2> QED
    BY <1>1, <1>4, <1>10, <2>2, <2>3, DeletionKept DEF ExpireOne, OutputSucceeds
<1>11. CASE KeepOne(w)
  <2>1. PICK m \in worker[w].batch :
            worker' = [worker EXCEPT ![w] =
                AfterTtl([worker[w] EXCEPT !.batch = @ \ {m}, !.live = @ \cup {m}])]
    BY <1>11 DEF KeepOne
  <2>2. [worker[w] EXCEPT !.batch = @ \ {m}, !.live = @ \cup {m}] \in Receiving
    BY <1>1, <1>5, ZenonT(60) DEF Receiving
  <2>3. AfterTtl([worker[w] EXCEPT !.batch = @ \ {m}, !.live = @ \cup {m}]).current = {}
    BY <2>2, CurrentAfter
  <2> QED
    BY <1>1, <1>2, <1>3, <1>4, <1>11, <2>1, <2>3, DeletionKept DEF KeepOne
<1>12. CASE MarkProcessing(w)
  <2>1. PICK m : worker' = [worker EXCEPT ![w] = AfterMark(@, m)]
    BY <1>12 DEF MarkProcessing
  <2>2. \A v \in Workers : worker'[v].current = worker[v].current
    BY <1>1, <2>1, CurrentAfter
  <2> QED
    BY <1>1, <1>3, <1>4, <1>12, <2>2, DeletionKept DEF MarkProcessing
<1>13. CASE OutputFails(w)
  <2>1. PICK m \in worker[w].batch :
            /\ Record(RequestOf(m), {"settled"})
            /\ worker' = [worker EXCEPT ![w] =
                             AfterOutput([worker[w] EXCEPT !.batch = @ \ {m}])]
    BY <1>13 DEF OutputFails
  <2>2. [worker[w] EXCEPT !.batch = @ \ {m}] \in Receiving
    BY <1>1 DEF Receiving
  <2>3. AfterOutput([worker[w] EXCEPT !.batch = @ \ {m}]).current = {}
    BY <2>2, CurrentAfter
  <2>4. \A r \in Requests : Justified(r) => Justified(r)'
    BY <1>5, <2>1, JustificationLasts
  <2> QED
    BY <1>1, <1>2, <1>4, <1>13, <2>1, <2>3, <2>4, DeletionKept DEF OutputFails
<1>14. CASE DeleteExpired(w) \/ DeleteDone(w)
  <2>1. PICK m \in worker[w].current : DeleteByReceipt(w, RequestOf(m))
    BY <1>14 DEF DeleteExpired, DeleteDone
  <2>2. m \in Message /\ RequestOf(m) \in Requests /\ Justified(RequestOf(m))
    BY <1>1, MessagesOfRequests DEF DeletionInv, HeldIsJustified
  <2>3. \A n \in Message :
            /\ messages'[n].place = "deleted"
            /\ messages[n].place # "deleted"
            => RequestOf(n) = RequestOf(m)
    BY <2>1 DEF DeleteByReceipt
  <2>4. DeletionIsJustified'
    BY <1>14, <2>2, <2>3
       DEF DeletionInv, DeletionIsJustified, Justified, DeleteExpired, DeleteDone
  <2>5. AfterTtl(worker[w]).current = {} /\ AfterOutput(worker[w]).current = {}
    BY <1>1, CurrentAfter
  <2>6. \A v \in Workers : \A n \in worker'[v].current : n \in worker[v].current
    BY <1>2, <1>14, <2>5 DEF DeleteExpired, DeleteDone
  <2>7. HeldIsJustified'
    BY <1>14, <2>6
       DEF DeletionInv, HeldIsJustified, Justified, DeleteExpired, DeleteDone
  <2> QED
    BY <2>4, <2>7 DEF DeletionInv
<1> QED
  BY <1>6, <1>7, <1>8, <1>9, <1>10, <1>11, <1>12, <1>13, <1>14 DEF WorkerStep

\* Nobody but a worker deletes, and nobody takes a message from a worker.
LEMMA OthersKeepDeletion ==
    ASSUME TypeInv, DeletionInv, UNCHANGED worker,
           \/ \E t \in Threads : GatewayStep(t)
           \/ ReconcilerStep
           \/ \E m \in Message : Reappear(m)
           \/ \E r \in Requests : GrowOld(r)
           \/ TimePasses
    PROVE  DeletionInv'
<1> USE DEF TypeInv, TypeOK
<1>1. \A w \in Workers : worker[w].current \subseteq Message
  OBVIOUS
<1>2. \A m \in Message : messages'[m].place = "deleted"
                            => messages[m].place = "deleted"
  <2>1. CASE UNCHANGED messages
    BY <2>1
  <2>2. CASE \E n \in Message : Publish(n)
    BY <2>2 DEF Publish
  <2>3. CASE \E n \in Message : Reappear(n)
    BY <2>3 DEF Reappear
  <2>4. ASSUME NEW t \in Threads, GatewayStep(t)
        PROVE  UNCHANGED messages \/ \E n \in Message : Publish(n)
    BY <2>4, MessagesOfRequests
       DEF GatewayStep, ScanPending, Reject, Admit, PublishRequest, SubmitFails,
           PutPending, CallsHaveRequests
  <2>5. CASE Resubmit
    <3>1. PICK x \in reconciler.stale, k \in 1..MaxResubmits : Publish(<<x[1], k>>)
      BY <2>5 DEF Resubmit
    <3>2. <<x[1], k>> \in Message
      BY MessagesOfRequests
    <3> QED
      BY <2>2, <3>1, <3>2
  <2>7. ReconcilerStep => Resubmit \/ UNCHANGED messages
    BY DEF ReconcilerStep, ScanStalePending, ScanStaleProcessing, MarkFailed,
           PassFails, ResubmitBound
  <2>6. CASE (\E r \in Requests : GrowOld(r)) \/ TimePasses
    BY <2>1, <2>6 DEF GrowOld, TimePasses
  <2> QED
    BY <2>1, <2>2, <2>3, <2>4, <2>5, <2>6, <2>7
<1>3. \A r \in Requests : history[r] \subseteq history'[r]
  <2>1. CASE UNCHANGED history
    BY <2>1
  <2>0. ASSUME NEW r, NEW E, Record(r, E)
        PROVE  \A q \in Requests : history[q] \subseteq history'[q]
    BY <2>0 DEF Record
  <2>2. CASE MarkFailed \/ Resubmit
    BY <2>0, <2>2 DEF MarkFailed, Resubmit
  <2>3. UNCHANGED history \/ MarkFailed \/ Resubmit
    BY DEF GatewayStep, ScanPending, Reject, Admit, PublishRequest, SubmitFails,
           PutPending, ReconcilerStep, ScanStalePending, ScanStaleProcessing,
           PassFails, ResubmitBound, Reappear, GrowOld, TimePasses
  <2> QED
    BY <2>1, <2>2, <2>3
<1>4. \A r \in Requests : Justified(r) => Justified(r)'
  BY <1>3 DEF Justified
<1> QED
  BY <1>1, <1>2, <1>4, DeletionKept

LEMMA FaultKeepsDeletion ==
    ASSUME TypeInv, DeletionInv, NEW w \in Workers, WorkerFault(w)
    PROVE  DeletionInv'
<1> USE DEF TypeInv, TypeOK
<1>1. \A v \in Workers : worker[v].current \subseteq Message
  OBVIOUS
<1>2. UNCHANGED messages /\ worker' = [worker EXCEPT ![w] = Idle] /\ DropInHand(w)
  BY DEF WorkerFault, CallRaises, CrashAndRestart
<1>3. \A v \in Workers : worker'[v].current \subseteq worker[v].current
  BY <1>2 DEF Idle
<1>4. \A r \in Requests : Justified(r) => Justified(r)'
  BY <1>2, TypeDropped DEF Justified
<1> QED
  BY <1>1, <1>2, <1>3, <1>4, DeletionKept

\* A message is gone for good only when its request was answered or expired,
\* whatever fails and whoever crashes (worker.py:508-645).
THEOREM DeletedIsJustified == Spec => []DeletionIsJustified
<1>1. Init => DeletionInv
  BY DEF Init, DeletionInv, DeletionIsJustified, HeldIsJustified, Idle
<1>2. TypeInv /\ DeletionInv /\ [Next]_vars => DeletionInv'
  <2> SUFFICES ASSUME TypeInv, DeletionInv, [Next]_vars PROVE DeletionInv'
    OBVIOUS
  <2>1. CASE \E w \in Workers : WorkerStep(w) \/ WorkerFault(w)
    BY <2>1, WorkerKeepsDeletion, FaultKeepsDeletion
  <2>2. CASE \E t \in Threads : GatewayStep(t)
    BY <2>2, OthersKeepDeletion
       DEF GatewayStep, ScanPending, Reject, Admit, PublishRequest, SubmitFails, PutPending
  <2>3. CASE ReconcilerStep
    BY <2>3, OthersKeepDeletion
       DEF ReconcilerStep, ScanStalePending, ScanStaleProcessing, Resubmit,
           MarkFailed, PassFails, ResubmitBound
  <2>4. CASE \/ \E m \in Message : Reappear(m)
             \/ \E r \in Requests : GrowOld(r)
             \/ TimePasses
    BY <2>4, OthersKeepDeletion DEF Reappear, GrowOld, TimePasses
  <2>5. CASE UNCHANGED vars
    BY <2>5 DEF vars, DeletionInv, DeletionIsJustified, HeldIsJustified, Justified
  <2> QED
    BY <2>1, <2>2, <2>3, <2>4, <2>5 DEF Next
<1>3. DeletionInv => DeletionIsJustified
  BY DEF DeletionInv
<1> QED
  BY <1>1, <1>2, <1>3, TypeInvariant, PTL DEF Spec

-----------------------------------------------------------------------------
(* The timeouts of the reconciliation engine, which acts on lists that are  *)
(* old when it gets to them.                                                *)

\* What is in a list stays past its timeout: its record exists, so no call can
\* be given its id again, and requests only get older.
StaleInv ==
    \A x \in reconciler.stale : store[x[1]] # "absent" /\ Stale(x[1], x[2])

\* The engine has not acted: nothing resubmitted, nobody given up.
NotActed ==
    /\ \A m \in Message : messages[m].place = "none" /\ m[2] # 0 => messages'[m].place = "none"
    /\ \A r \in Requests : "given_up" \in history'[r] => "given_up" \in history[r]

\* Records stay, and requests that have one only get older.
RecordsStay ==
    \A r \in Requests : store[r] # "absent" => store'[r] # "absent" /\ age'[r] >= age[r]

\* A delete takes a message that was delivered.
LEMMA DeletesTheDelivered ==
    ASSUME TypeInv, NEW w \in Workers, NEW r \in Requests, DeleteByReceipt(w, r)
    PROVE  \A m \in Message : messages[m].place = "none" => messages'[m].place = "none"
<1> USE DEF TypeInv, TypeOK
<1>1. PICK x \in worker[w].receipts :
         \/ /\ messages[x.message].place \in {"visible", "inflight"}
            /\ messages' = [messages EXCEPT ![x.message].place = "deleted"]
         \/ UNCHANGED messages
  BY DEF DeleteByReceipt
<1>2. x.message \in Message
  OBVIOUS
<1> QED
  BY <1>1, <1>2

\* A put writes one of the four states.
LEMMA PutsAreRecords ==
    ASSUME TypeInv, NEW r \in Requests, NEW s \in Status, Put(r, s)
    PROVE  \A q \in Requests : store[q] # "absent" => store'[q] # "absent"
BY DEF TypeInv, TypeOK, Put, Status

LEMMA WorkerNeverRecovers ==
    ASSUME TypeInv, NEW w \in Workers, WorkerStep(w) \/ WorkerFault(w)
    PROVE  NotActed /\ RecordsStay /\ UNCHANGED reconciler
<1> USE MessagesOfRequests DEF TypeInv, TypeOK
<1>0. \A r \in Requests : age[r] \in Nat
  BY PlatformAssumption
<1>1. CASE Receive(w)
  BY <1>0, <1>1 DEF Receive, Visible, NotActed, RecordsStay
<1>2. CASE DeferBatch(w) \/ KeepOne(w)
  <2>1. UNCHANGED <<store, messages, age, reconciler, history>>
    BY <1>2 DEF DeferBatch, KeepOne
  <2> QED
    BY <1>0, <2>1 DEF NotActed, RecordsStay
<1>3. CASE GateBatch(w)
  <2>1. UNCHANGED <<store, messages, age, reconciler, history>>
    BY <1>3 DEF GateBatch
  <2> QED
    BY <1>0, <2>1 DEF NotActed, RecordsStay
<1>4. ASSUME NEW r \in Requests, NEW s \in Status, NEW E \in SUBSET (Event \ {"given_up"}),
             Put(r, s), Record(r, E), UNCHANGED <<messages, age, reconciler>>
      PROVE  NotActed /\ RecordsStay /\ UNCHANGED reconciler
  <2>1. \A q \in Requests : "given_up" \in history'[q] => "given_up" \in history[q]
    BY <1>4 DEF Record
  <2> QED
    BY <1>0, <1>4, <2>1, PutsAreRecords DEF NotActed, RecordsStay
<1>5. CASE FastFail(w)
  <2>1. PICK m \in worker[w].batch :
           Put(RequestOf(m), "failed") /\ Record(RequestOf(m), {"settled"})
    BY <1>5 DEF FastFail
  <2>2. RequestOf(m) \in Requests /\ {"settled"} \in SUBSET (Event \ {"given_up"})
    BY DEF Event
  <2> QED
    BY <1>4, <1>5, <2>1, <2>2 DEF FastFail, Status
<1>6. CASE ExpireOne(w)
  <2>1. PICK m \in worker[w].batch :
           Put(RequestOf(m), "failed") /\ Record(RequestOf(m), {"settled", "expired"})
    BY <1>6 DEF ExpireOne
  <2>2. RequestOf(m) \in Requests /\ {"settled", "expired"} \in SUBSET (Event \ {"given_up"})
    BY DEF Event
  <2> QED
    BY <1>4, <1>6, <2>1, <2>2 DEF ExpireOne, Status
<1>7. CASE DeleteExpired(w) \/ DeleteDone(w)
  <2>1. PICK m \in worker[w].current : DeleteByReceipt(w, RequestOf(m))
    BY <1>7 DEF DeleteExpired, DeleteDone
  <2>2. RequestOf(m) \in Requests
    OBVIOUS
  <2>3. UNCHANGED <<store, age, history, reconciler>>
    BY <1>7 DEF DeleteExpired, DeleteDone
  <2> QED
    BY <1>0, <2>1, <2>2, <2>3, DeletesTheDelivered DEF NotActed, RecordsStay
<1>8. CASE MarkProcessing(w)
  <2>1. PICK m \in worker[w].batch : Put(RequestOf(m), "processing")
    BY <1>8 DEF MarkProcessing
  <2>2. RequestOf(m) \in Requests
    OBVIOUS
  <2>3. UNCHANGED <<messages, age, history, reconciler>>
    BY <1>8 DEF MarkProcessing
  <2> QED
    BY <1>0, <2>1, <2>2, <2>3, PutsAreRecords DEF NotActed, RecordsStay, Status
<1>9. CASE OutputSucceeds(w)
  <2>1. PICK m \in worker[w].batch :
           Put(RequestOf(m), "completed") /\ Record(RequestOf(m), {"settled", "answered"})
    BY <1>9 DEF OutputSucceeds
  <2>2. RequestOf(m) \in Requests /\ {"settled", "answered"} \in SUBSET (Event \ {"given_up"})
    BY DEF Event
  <2> QED
    BY <1>4, <1>9, <2>1, <2>2 DEF OutputSucceeds, Status
<1>10. CASE OutputFails(w)
  <2>1. PICK m \in worker[w].batch :
           Put(RequestOf(m), "failed") /\ Record(RequestOf(m), {"settled"})
    BY <1>10 DEF OutputFails
  <2>2. RequestOf(m) \in Requests /\ {"settled"} \in SUBSET (Event \ {"given_up"})
    BY DEF Event
  <2> QED
    BY <1>4, <1>10, <2>1, <2>2 DEF OutputFails, Status
<1>11. CASE WorkerFault(w)
  <2>1. UNCHANGED <<store, messages, age, reconciler>> /\ DropInHand(w)
    BY <1>11 DEF WorkerFault, CallRaises, CrashAndRestart
  <2>2. \A q \in Requests : "given_up" \in history'[q] => "given_up" \in history[q]
    BY <2>1 DEF DropInHand
  <2> QED
    BY <1>0, <2>1, <2>2 DEF NotActed, RecordsStay
<1> QED
  BY <1>1, <1>2, <1>3, <1>5, <1>6, <1>7, <1>8, <1>9, <1>10, <1>11 DEF WorkerStep

\* The gateway publishes under new ids only, and resets the age of those.
LEMMA GatewayNeverRecovers ==
    ASSUME TypeInv, NEW t \in Threads, GatewayStep(t)
    PROVE  NotActed /\ RecordsStay /\ UNCHANGED reconciler
<1> USE MessagesOfRequests DEF TypeInv, TypeOK, CallsHaveRequests
<1>0. \A r \in Requests : age[r] \in Nat
  BY PlatformAssumption
<1>1. CASE ScanPending(t) \/ Reject(t) \/ SubmitFails(t)
  BY <1>0, <1>1 DEF ScanPending, Reject, SubmitFails, NotActed, RecordsStay
<1>2. CASE Admit(t)
  <2>1. PICK r \in Requests : store[r] = "absent" /\ age' = [age EXCEPT ![r] = 0]
    BY <1>2 DEF Admit, Fresh
  <2>2. UNCHANGED <<store, messages, history, reconciler>>
    BY <1>2 DEF Admit
  <2> QED
    BY <1>0, <2>1, <2>2 DEF NotActed, RecordsStay
<1>3. CASE PublishRequest(t)
  <2>1. gateway[t].request \in Requests
    BY <1>3 DEF PublishRequest
  <2>2. /\ messages' = [messages EXCEPT ![<<gateway[t].request, 0>>].place = "visible"]
        /\ UNCHANGED <<store, age, history, reconciler>>
    BY <1>3 DEF PublishRequest, Publish
  <2>3. \A m \in Message : m[2] # 0 => messages'[m] = messages[m]
    BY <2>1, <2>2
  <2> QED
    BY <1>0, <2>2, <2>3 DEF NotActed, RecordsStay
<1>4. CASE PutPending(t)
  <2>1. gateway[t].request \in Requests /\ Put(gateway[t].request, "pending")
    BY <1>4 DEF PutPending
  <2>2. UNCHANGED <<messages, age, history, reconciler>>
    BY <1>4 DEF PutPending
  <2> QED
    BY <1>0, <2>1, <2>2, PutsAreRecords DEF NotActed, RecordsStay, Status
<1> QED
  BY <1>1, <1>2, <1>3, <1>4 DEF GatewayStep

LEMMA EnvironmentNeverRecovers ==
    ASSUME TypeInv,
           (\E m \in Message : Reappear(m)) \/ (\E r \in Requests : GrowOld(r))
              \/ TimePasses \/ UNCHANGED vars
    PROVE  NotActed /\ RecordsStay /\ UNCHANGED reconciler
<1> USE DEF TypeInv, TypeOK
<1>0. \A r \in Requests : age[r] \in Nat
  BY PlatformAssumption
<1>1. ASSUME NEW m \in Message, Reappear(m)
      PROVE  NotActed /\ RecordsStay /\ UNCHANGED reconciler
  BY <1>0, <1>1 DEF Reappear, NotActed, RecordsStay
<1>2. ASSUME NEW r \in Requests, GrowOld(r)
      PROVE  NotActed /\ RecordsStay /\ UNCHANGED reconciler
  BY <1>0, <1>2 DEF GrowOld, NotActed, RecordsStay
<1>3. CASE TimePasses \/ UNCHANGED vars
  BY <1>0, <1>3 DEF TimePasses, vars, NotActed, RecordsStay
<1> QED
  BY <1>1, <1>2, <1>3

\* What is in a list stays stale while nobody touches the list.
LEMMA ListsStayStale ==
    ASSUME TypeInv, TypeInv', StaleInv, RecordsStay, reconciler'.stale \subseteq reconciler.stale
    PROVE  StaleInv'
<1> SUFFICES ASSUME NEW x \in reconciler'.stale
             PROVE  store'[x[1]] # "absent" /\ Stale(x[1], x[2])'
  BY DEF StaleInv
<1>1. x[1] \in Requests /\ store[x[1]] # "absent" /\ Stale(x[1], x[2])
  BY DEF StaleInv, TypeInv, TypeOK
<1>2. store'[x[1]] # "absent" /\ age'[x[1]] >= age[x[1]]
  BY <1>1 DEF RecordsStay
<1>3. age[x[1]] \in Nat /\ age'[x[1]] \in Nat
  BY <1>1, PlatformAssumption DEF TypeInv, TypeOK
<1>4. PendingStaleAge \in Nat /\ ProcessingStaleAge \in Nat
  BY PlatformAssumption
<1> QED
  BY <1>1, <1>2, <1>3, <1>4 DEF Stale

\* The engine's own steps: a scan lists what is stale now, a healing step acts
\* on what is listed.
LEMMA EngineKeepsLists ==
    ASSUME TypeInv, TypeInv', StaleInv, ReconcilerStep
    PROVE  StaleInv'
<1> USE DEF TypeInv, TypeOK
<1>0. \A r \in Requests : age[r] \in Nat
  BY PlatformAssumption
<1>1. \A s \in Status : \A x \in StaleRecords(s) :
          x[1] \in Requests /\ store[x[1]] # "absent" /\ Stale(x[1], x[2])
  BY DEF StaleRecords, With, Status
<1>2. CASE ScanStalePending
  <2>1. reconciler'.stale = StaleRecords("pending") /\ UNCHANGED <<store, age>>
    BY <1>2 DEF ScanStalePending
  <2> SUFFICES ASSUME NEW x \in reconciler'.stale
               PROVE  store'[x[1]] # "absent" /\ Stale(x[1], x[2])'
    BY DEF StaleInv
  <2>2. store[x[1]] # "absent" /\ Stale(x[1], x[2])
    BY <1>1, <2>1 DEF Status
  <2> QED
    BY <2>1, <2>2 DEF Stale
<1>3. CASE ScanStaleProcessing
  <2>1. /\ reconciler'.stale \subseteq reconciler.stale \cup StaleRecords("processing")
        /\ UNCHANGED <<store, age>>
    BY <1>3 DEF ScanStaleProcessing, NoPass
  <2> SUFFICES ASSUME NEW x \in reconciler'.stale
               PROVE  store'[x[1]] # "absent" /\ Stale(x[1], x[2])'
    BY DEF StaleInv
  <2>2. store[x[1]] # "absent" /\ Stale(x[1], x[2])
    BY <1>1, <2>1 DEF StaleInv, Status
  <2> QED
    BY <2>1, <2>2 DEF Stale
<1>4. CASE Resubmit \/ ResubmitBound
  <2>1. PICK x \in reconciler.stale : Dealt(x)
    BY <1>4 DEF Resubmit, ResubmitBound
  <2>2. reconciler'.stale \subseteq reconciler.stale
    BY <2>1 DEF Dealt, NoPass
  <2>3. UNCHANGED <<store, age>>
    BY <1>4 DEF Resubmit, ResubmitBound
  <2>4. RecordsStay
    BY <1>0, <2>3 DEF RecordsStay
  <2> QED
    BY <2>2, <2>4, ListsStayStale
<1>5. CASE PassFails
  BY <1>5 DEF PassFails, NoPass, StaleInv
<1>6. CASE MarkFailed
  <2>1. PICK x \in reconciler.stale : Put(x[1], "failed") /\ Dealt(x) /\ UNCHANGED age
    BY <1>6 DEF MarkFailed
  <2>2. reconciler'.stale \subseteq reconciler.stale
    BY <2>1 DEF Dealt, NoPass
  <2>3. x[1] \in Requests
    OBVIOUS
  <2>4. RecordsStay
    BY <1>0, <2>1, <2>3, PutsAreRecords DEF RecordsStay, Status
  <2> QED
    BY <2>2, <2>4, ListsStayStale
<1> QED
  BY <1>2, <1>3, <1>4, <1>5, <1>6 DEF ReconcilerStep

LEMMA StaleStep == TypeInv /\ TypeInv' /\ StaleInv /\ [Next]_vars => StaleInv'
BY WorkerNeverRecovers, GatewayNeverRecovers, EnvironmentNeverRecovers, ListsStayStale,
   EngineKeepsLists DEF Next

\* One step's part of RecoveryWaitsForTimeout.
Waits ==
    \A r \in Requests :
        /\ (\E k \in 1..MaxResubmits : messages[<<r, k>>].place = "none"
                                       /\ messages'[<<r, k>>].place # "none")
               => age[r] > PendingStaleAge
        /\ "given_up" \in history'[r] \ history[r]
               => \/ age[r] > ProcessingStaleAge
                  \/ ~HasPublisher /\ age[r] > PendingStaleAge

LEMMA NotActedWaits == NotActed => Waits
<1> SUFFICES ASSUME NotActed, NEW r \in Requests
             PROVE  /\ \A k \in 1..MaxResubmits :
                           messages[<<r, k>>].place = "none" => messages'[<<r, k>>].place = "none"
                    /\ "given_up" \in history'[r] => "given_up" \in history[r]
  BY DEF Waits
<1>1. \A k \in 1..MaxResubmits : <<r, k>> \in Message /\ <<r, k>>[2] # 0
  BY MessagesOfRequests
<1> QED
  BY <1>1 DEF NotActed

\* Publishing one message places no other.
LEMMA PublishPlacesOne ==
    ASSUME TypeInv, NEW m \in Message, Publish(m)
    PROVE  \A n \in Message : n # m => messages'[n] = messages[n]
BY DEF TypeInv, TypeOK, Publish

\* The engine's own steps act on what is listed.
LEMMA EngineWaits ==
    ASSUME TypeInv, StaleInv, ReconcilerStep
    PROVE  Waits
<1> USE DEF TypeInv, TypeOK
<1>1. CASE ScanStalePending \/ ScanStaleProcessing \/ PassFails \/ ResubmitBound
  <2>1. UNCHANGED <<messages, history>>
    BY <1>1 DEF ScanStalePending, ScanStaleProcessing, PassFails, ResubmitBound
  <2> QED
    BY <2>1 DEF Waits
<1>2. CASE Resubmit
  <2>1. PICK x \in reconciler.stale, j \in 1..MaxResubmits :
           x[2] = "pending" /\ Publish(<<x[1], j>>) /\ Record(x[1], {"copied"})
    BY <1>2 DEF Resubmit
  <2>2. \A r \in Requests : "given_up" \in history'[r] => "given_up" \in history[r]
    BY <2>1 DEF Record
  <2>3. x[1] \in Requests /\ age[x[1]] > PendingStaleAge
    BY <2>1 DEF StaleInv, Stale
  <2>4. ASSUME NEW r \in Requests, NEW k \in 1..MaxResubmits, r # x[1]
        PROVE  messages'[<<r, k>>] = messages[<<r, k>>]
    <3>1. <<x[1], j>> \in Message /\ <<r, k>> \in Message /\ <<r, k>> # <<x[1], j>>
      BY <2>3, <2>4, MessagesOfRequests
    <3> QED
      BY <2>1, <3>1, PublishPlacesOne
  <2> QED
    BY <2>2, <2>3, <2>4 DEF Waits
<1>3. CASE MarkFailed
  <2>1. PICK x \in reconciler.stale :
           (x[2] = "processing" \/ ~HasPublisher) /\ Record(x[1], {"settled", "given_up"})
    BY <1>3 DEF MarkFailed
  <2>2. UNCHANGED messages
    BY <1>3 DEF MarkFailed
  <2>3. /\ x[1] \in Requests
        /\ \/ age[x[1]] > ProcessingStaleAge
           \/ ~HasPublisher /\ age[x[1]] > PendingStaleAge
    BY <2>1 DEF StaleInv, Stale
  <2>4. \A r \in Requests : r # x[1] => history'[r] = history[r]
    BY <2>1 DEF Record
  <2> QED
    BY <2>2, <2>3, <2>4 DEF Waits
<1> QED
  BY <1>1, <1>2, <1>3 DEF ReconcilerStep

LEMMA StepWaits == TypeInv /\ StaleInv /\ [Next]_vars => Waits
BY WorkerNeverRecovers, GatewayNeverRecovers, EnvironmentNeverRecovers, NotActedWaits,
   EngineWaits DEF Next

\* The engine's lists go stale only in one direction: a request it resubmits is
\* past the pending timeout and a request it gives up past the processing one
\* (or the pending one, without a publisher) when it acts, however long ago it
\* scanned (reconciliation.py:194-255).
THEOREM RecoveryWaits == Spec => RecoveryWaitsForTimeout
<1>1. Init => StaleInv
  BY DEF Init, NoPass, StaleInv
<1>2. TypeInv /\ StaleInv /\ [Next]_vars => [Waits]_vars
  BY StepWaits
<1>3. Spec => [][Waits]_vars
  BY <1>1, <1>2, StaleStep, TypeInvariant, PTL DEF Spec
<1> QED
  BY <1>3 DEF RecoveryWaitsForTimeout, Waits
-----------------------------------------------------------------------------
(* What a worker has in hand between a receive and the end of its batches.  *)

\* The messages a worker still has to deal with, and with them the one whose
\* message it is about to delete.
Ready(me) == me.todo \cup me.batch \cup me.live
Held(me) == Ready(me) \cup me.current

\* A message is in one place only.
Apart(me) ==
    /\ me.todo \cap me.batch = {} /\ me.todo \cap me.live = {}
    /\ me.batch \cap me.live = {} /\ Ready(me) \cap me.current = {}

\* messages_by_request_id has one receipt per request.
OneReceipt(me) ==
    \A x, y \in me.receipts : RequestOf(x.message) = RequestOf(y.message) => x = y

Tidy(me) ==
    /\ Apart(me)
    /\ OneReceipt(me)
    /\ \A m \in me.current : me.current = {m}
    /\ me.current # {} => me.pc \in {"expired", "done"}

HandInv == \A w \in Workers : Tidy(worker[w])

\* A step within a receive: the worker goes on with what it had, and with the
\* same receipts, or with nothing.
Follows(me, next) ==
    /\ next \in Receiving
    /\ Tidy(next)
    /\ Ready(next) \subseteq Ready(me)
    /\ next.receipts = me.receipts \/ Held(next) = {}

\* It follows when no message is added and nothing is about to be deleted.
LEMMA LessFollows ==
    ASSUME NEW me \in Receiving, OneReceipt(me), NEW next \in Receiving,
           next.current = {}, Apart(next), Ready(next) \subseteq Ready(me),
           next.receipts \subseteq me.receipts,
           next.receipts = me.receipts \/ Held(next) = {}
    PROVE  Follows(me, next)
<1>1. OneReceipt(next)
  BY DEF OneReceipt
<1> QED
  BY <1>1 DEF Follows, Tidy

\* The functions that compute a worker's next step leave nothing to delete.
LEMMA IdleFollows ==
    ASSUME NEW me \in Receiving, OneReceipt(me)
    PROVE  Follows(me, Idle) /\ Idle.current = {}
<1>1. /\ Idle.todo = {} /\ Idle.batch = {} /\ Idle.live = {}
      /\ Idle.current = {} /\ Idle.receipts = {}
  BY DEF Idle
<1>2. Idle \in Receiving
  BY WorkerStepsTyped
<1> HIDE DEF Idle
<1> QED
  BY <1>1, <1>2, LessFollows DEF Ready, Held, Apart

LEMMA NextBatchFollows ==
    ASSUME NEW me \in Receiving, OneReceipt(me)
    PROVE  Follows(me, NextBatch(me)) /\ NextBatch(me).current = {}
<1> DEFINE next == NextBatch(me)
<1>1. CASE me.todo = {}
  BY <1>1, IdleFollows DEF NextBatch
<1>2. CASE me.todo # {}
  <2>1. /\ next.todo = me.todo /\ next.batch = {} /\ next.live = {}
        /\ next.current = {} /\ next.receipts = me.receipts
    BY <1>2 DEF NextBatch, Receiving
  <2>2. next \in Receiving
    BY WorkerStepsTyped
  <2> HIDE DEF next
  <2>3. Apart(next) /\ Ready(next) \subseteq Ready(me)
    BY <2>1 DEF Apart, Ready
  <2>4. Follows(me, next)
    BY <2>1, <2>2, <2>3, LessFollows
  <2> QED
    BY <2>1, <2>4 DEF next
<1> QED
  BY <1>1, <1>2

LEMMA StepsFollow ==
    ASSUME NEW me \in Receiving, Apart(me), OneReceipt(me)
    PROVE  /\ Follows(me, AfterTtl(me)) /\ AfterTtl(me).current = {}
           /\ Follows(me, AfterOutput(me)) /\ AfterOutput(me).current = {}
           /\ \A m \in me.batch : me.current = {} =>
                 Follows(me, AfterMark(me, m)) /\ AfterMark(me, m).current = {}
<1>1. ASSUME NEW next \in Receiving, next.current = {}, next.receipts = me.receipts,
             Apart(next), Ready(next) \subseteq Ready(me)
      PROVE  Follows(me, next)
  BY <1>1, LessFollows
<1>2. Follows(me, AfterTtl(me)) /\ AfterTtl(me).current = {}
  <2> DEFINE next == AfterTtl(me)
  <2>0. next \in Receiving
    BY WorkerStepsTyped
  <2>1. CASE me.batch # {}
    <3>1. /\ next.todo = me.todo /\ next.batch = me.batch /\ next.live = me.live
          /\ next.current = {} /\ next.receipts = me.receipts
      BY <2>1 DEF AfterTtl, Receiving
    <3> HIDE DEF next
    <3>2. Apart(next) /\ Ready(next) \subseteq Ready(me)
      BY <3>1 DEF Apart, Ready
    <3>3. Follows(me, next)
      BY <1>1, <2>0, <3>1, <3>2
    <3> QED
      BY <3>1, <3>3 DEF next
  <2>2. CASE me.batch = {} /\ me.live # {}
    <3>1. /\ next.todo = me.todo /\ next.batch = me.live /\ next.live = {}
          /\ next.current = {} /\ next.receipts = me.receipts
      BY <2>2 DEF AfterTtl, Receiving
    <3> HIDE DEF next
    <3>2. Apart(next) /\ Ready(next) \subseteq Ready(me)
      BY <3>1 DEF Apart, Ready
    <3>3. Follows(me, next)
      BY <1>1, <2>0, <3>1, <3>2
    <3> QED
      BY <3>1, <3>3 DEF next
  <2>3. CASE me.batch = {} /\ me.live = {}
    BY <2>3, NextBatchFollows DEF AfterTtl
  <2> QED
    BY <2>1, <2>2, <2>3
<1>3. Follows(me, AfterOutput(me)) /\ AfterOutput(me).current = {}
  <2> DEFINE next == AfterOutput(me)
  <2>0. next \in Receiving
    BY WorkerStepsTyped
  <2>1. CASE me.batch # {}
    <3>1. /\ next.todo = me.todo /\ next.batch = me.batch /\ next.live = me.live
          /\ next.current = {} /\ next.receipts = me.receipts
      BY <2>1 DEF AfterOutput, Receiving
    <3> HIDE DEF next
    <3>2. Apart(next) /\ Ready(next) \subseteq Ready(me)
      BY <3>1 DEF Apart, Ready
    <3>3. Follows(me, next)
      BY <1>1, <2>0, <3>1, <3>2
    <3> QED
      BY <3>1, <3>3 DEF next
  <2>2. CASE me.batch = {}
    BY <2>2, NextBatchFollows DEF AfterOutput
  <2> QED
    BY <2>1, <2>2
<1>4. ASSUME NEW m \in me.batch, me.current = {}
      PROVE  Follows(me, AfterMark(me, m)) /\ AfterMark(me, m).current = {}
  <2> DEFINE next == AfterMark(me, m)
  <2>0. m \in Message
    BY DEF Receiving
  <2>1. next \in Receiving
    BY <2>0, WorkerStepsTyped
  <2>2. CASE me.batch = {m}
    <3>1. /\ next.todo = me.todo /\ next.batch = me.live \cup {m} /\ next.live = {}
          /\ next.current = {} /\ next.receipts = me.receipts
      BY <1>4, <2>2 DEF AfterMark, Receiving
    <3> HIDE DEF next
    <3>2. Apart(next) /\ Ready(next) \subseteq Ready(me)
      BY <3>1 DEF Apart, Ready
    <3>3. Follows(me, next)
      BY <1>1, <2>1, <3>1, <3>2
    <3> QED
      BY <3>1, <3>3 DEF next
  <2>3. CASE me.batch # {m}
    <3>1. /\ next.todo = me.todo /\ next.batch = me.batch \ {m}
          /\ next.live = me.live \cup {m}
          /\ next.current = {} /\ next.receipts = me.receipts
      BY <1>4, <2>3 DEF AfterMark, Receiving
    <3> HIDE DEF next
    <3>2. Apart(next) /\ Ready(next) \subseteq Ready(me)
      BY <3>1 DEF Apart, Ready
    <3>3. Follows(me, next)
      BY <1>1, <2>1, <3>1, <3>2
    <3> QED
      BY <3>1, <3>3 DEF next
  <2> QED
    BY <2>2, <2>3
<1> QED
  BY <1>2, <1>3, <1>4

\* What a step within a receive does to everything but the worker: nothing; or
\* PROCESSING for a message of the batch; or the end of one, COMPLETED or
\* FAILED, whose message is not to be dealt with again; or the delete.
Goes(w, next) ==
    /\ worker[w].current = {} /\ next.current = {}
    /\ UNCHANGED <<store, messages, history>>

Marks(w, next, m) ==
    /\ worker[w].current = {} /\ next.current = {}
    /\ Put(RequestOf(m), "processing")
    /\ UNCHANGED <<messages, history>>

\* What a worker writes down of a request it is done with.
Outcome == {"settled", "answered", "expired"}

Ends(w, next, m) ==
    /\ worker[w].current = {} /\ next.current \subseteq {m} /\ m \notin Ready(next)
    /\ \E s \in {"completed", "failed"} :
          Put(RequestOf(m), s) /\ (s = "completed" => next.current = {m})
    /\ \E E \in SUBSET Outcome : Record(RequestOf(m), E)
    /\ UNCHANGED messages

Deletes(w, next, m) ==
    /\ next.current = {}
    /\ DeleteByReceipt(w, RequestOf(m))
    /\ UNCHANGED <<store, history>>

LEMMA StepWithinReceive ==
    ASSUME TypeInv, HandInv, NEW w \in Workers, WorkerStep(w), ~Receive(w)
    PROVE  \E next :
              /\ worker' = [worker EXCEPT ![w] = next]
              /\ Follows(worker[w], next)
              /\ UNCHANGED <<accepted, gateway, reconciler>>
              /\ \/ Goes(w, next)
                 \/ \E m \in worker[w].batch : Marks(w, next, m) \/ Ends(w, next, m)
                 \/ \E m \in worker[w].current : Deletes(w, next, m)
<1> DEFINE me == worker[w]
<1>0. me \in Receiving /\ Tidy(me)
  BY DEF TypeInv, TypeOK, Receiving, HandInv
<1>1. /\ Apart(me) /\ OneReceipt(me)
      /\ me.pc \notin {"expired", "done"} => me.current = {}
  BY <1>0 DEF Tidy
<1>2. CASE DeferBatch(w)
  <2>1. PICK B : worker' = [worker EXCEPT ![w] = NextBatch([worker[w] EXCEPT !.todo = @ \ B])]
    BY <1>2 DEF DeferBatch
  <2> DEFINE less == [me EXCEPT !.todo = @ \ B]
             next == NextBatch(less)
  <2>2. /\ less \in Receiving /\ less.todo = me.todo \ B /\ less.batch = me.batch
        /\ less.live = me.live /\ less.current = me.current /\ less.receipts = me.receipts
    BY <1>0 DEF Receiving
  <2>3. worker' = [worker EXCEPT ![w] = next] /\ me.pc = "batching"
    BY <1>2, <2>1 DEF DeferBatch
  <2>4. Follows(me, next) /\ next.current = {}
    <3> HIDE DEF less, me
    <3>1. OneReceipt(less) /\ Ready(less) \subseteq Ready(me)
      BY <1>1, <2>2 DEF OneReceipt, Ready
    <3>2. Follows(less, next) /\ next.current = {}
      BY <2>2, <3>1, NextBatchFollows
    <3> QED
      BY <2>2, <3>1, <3>2 DEF Follows
  <2>5. UNCHANGED <<store, messages, history, accepted, gateway, reconciler>>
    BY <1>2 DEF DeferBatch
  <2> HIDE DEF next
  <2> QED
    BY <1>1, <2>3, <2>4, <2>5 DEF Goes
<1>3. CASE GateBatch(w)
  <2>1. PICK B \in SUBSET worker[w].todo :
            worker' = [worker EXCEPT
              ![w].pc = IF Granted(breaker[w]) THEN "ttl" ELSE "refused",
              ![w].todo = @ \ B,
              ![w].batch = B]
    BY <1>3 DEF GateBatch, TypeInv, TypeOK
  <2> DEFINE next == [me EXCEPT !.pc = IF Granted(breaker[w]) THEN "ttl" ELSE "refused",
                                !.todo = @ \ B, !.batch = B]
  <2>2. worker' = [worker EXCEPT ![w] = next] /\ me.pc = "batching"
    BY <1>3, <2>1 DEF GateBatch, TypeInv, TypeOK
  <2>3. /\ next \in Receiving /\ next.todo = me.todo \ B /\ next.batch = B
        /\ next.live = me.live /\ next.current = me.current /\ next.receipts = me.receipts
    BY <1>0, <2>1 DEF Receiving, WorkerPc
  <2>4. me.current = {}
    BY <1>1, <2>2
  <2> HIDE DEF next, me
  <2>8. B \in SUBSET me.todo
    BY DEF me
  <2>5. Apart(next) /\ Ready(next) \subseteq Ready(me)
    BY <1>1, <2>3, <2>4, <2>8 DEF Apart, Ready
  <2>6. Follows(me, next)
    BY <1>0, <1>1, <2>3, <2>4, <2>5, LessFollows
  <2>7. UNCHANGED <<store, messages, history, accepted, gateway, reconciler>>
    BY <1>3 DEF GateBatch, TypeInv, TypeOK
  <2> QED
    BY <2>2, <2>3, <2>4, <2>6, <2>7 DEF Goes, me
<1>4. CASE FastFail(w)
  <2>1. PICK m \in worker[w].batch :
            /\ Put(RequestOf(m), "failed")
            /\ Record(RequestOf(m), {"settled"})
            /\ worker' = [worker EXCEPT ![w] =
                  IF @.batch = {m} THEN NextBatch(@) ELSE [worker[w] EXCEPT !.batch = @ \ {m}]]
    BY <1>4 DEF FastFail
  <2> DEFINE less == [me EXCEPT !.batch = @ \ {m}]
             next == IF me.batch = {m} THEN NextBatch(me) ELSE less
  <2>2. worker' = [worker EXCEPT ![w] = next] /\ me.pc = "refused"
    BY <1>4, <2>1 DEF FastFail
  <2>3. /\ less \in Receiving /\ less.todo = me.todo /\ less.batch = me.batch \ {m}
        /\ less.live = me.live /\ less.current = me.current /\ less.receipts = me.receipts
    BY <1>0 DEF Receiving
  <2>4. me.current = {}
    BY <1>1, <2>2
  <2>5. Follows(me, next) /\ next.current = {} /\ m \notin Ready(next)
    <3>1. CASE me.batch = {m}
      <4>1. next = NextBatch(me)
        BY <3>1
      <4>2. Follows(me, NextBatch(me)) /\ NextBatch(me).current = {}
        BY <1>0, <1>1, NextBatchFollows
      <4>3. m \notin Ready(NextBatch(me))
        <5>1. CASE me.todo = {}
          BY <5>1 DEF NextBatch, Idle, Ready
        <5>2. CASE me.todo # {}
          BY <1>0, <1>1, <2>1, <5>2 DEF NextBatch, Receiving, Ready, Apart
        <5> QED
          BY <5>1, <5>2
      <4> QED
        BY <4>1, <4>2, <4>3
    <3>2. CASE me.batch # {m}
      <4>1. next = less
        BY <3>2
      <4> HIDE DEF next, less, me
      <4>0. m \in me.batch
        BY DEF me
      <4>2. Apart(less) /\ Ready(less) \subseteq Ready(me) /\ m \notin Ready(less)
        BY <1>1, <2>3, <2>4, <4>0 DEF Apart, Ready
      <4>3. Follows(me, less)
        BY <1>0, <1>1, <2>3, <2>4, <4>2, LessFollows
      <4> QED
        BY <2>3, <2>4, <4>1, <4>2, <4>3
    <3> QED
      BY <3>1, <3>2
  <2>6. UNCHANGED <<messages, accepted, gateway, reconciler>>
    BY <1>4 DEF FastFail
  <2>7. {"settled"} \in SUBSET Outcome
    BY DEF Outcome
  <2> HIDE DEF next, less
  <2>8. Ends(w, next, m)
    BY <2>1, <2>4, <2>5, <2>6, <2>7 DEF Ends
  <2> QED
    BY <2>1, <2>2, <2>5, <2>6, <2>8
<1>5. ASSUME NEW m \in me.batch, NEW s \in {"failed", "completed"},
             NEW E \in SUBSET Outcome, NEW pc \in {"expired", "done"},
             Put(RequestOf(m), s), Record(RequestOf(m), E),
             me.pc \in {"ttl", "outputs"},
             worker' = [worker EXCEPT ![w] =
                           [me EXCEPT !.pc = pc, !.current = {m}, !.batch = @ \ {m}]],
             UNCHANGED <<messages, accepted, gateway, reconciler>>
      PROVE  \E next :
                /\ worker' = [worker EXCEPT ![w] = next]
                /\ Follows(me, next)
                /\ UNCHANGED <<accepted, gateway, reconciler>>
                /\ Ends(w, next, m)
  <2> DEFINE next == [me EXCEPT !.pc = pc, !.current = {m}, !.batch = @ \ {m}]
  <2>1. worker' = [worker EXCEPT ![w] = next]
    BY <1>5
  <2>2. me.current = {}
    BY <1>1, <1>5
  <2>3. m \in Message
    BY <1>0, <1>5 DEF Receiving
  <2>4. /\ next \in Receiving /\ next.todo = me.todo /\ next.batch = me.batch \ {m}
        /\ next.live = me.live /\ next.current = {m} /\ next.receipts = me.receipts
        /\ next.pc \in {"expired", "done"}
    BY <1>0, <1>5, <2>3 DEF Receiving, WorkerPc
  <2> HIDE DEF next, me
  <2>5. Apart(next) /\ Ready(next) \subseteq Ready(me) /\ m \notin Ready(next)
    BY <1>1, <1>5, <2>4 DEF Apart, Ready
  <2>6. Follows(me, next)
    BY <1>1, <2>4, <2>5 DEF Follows, Tidy, OneReceipt
  <2>7. Ends(w, next, m)
    BY <1>5, <2>2, <2>4, <2>5 DEF Ends, me
  <2> QED
    BY <1>5, <2>1, <2>6, <2>7
<1>11. CASE ExpireOne(w)
  <2>1. PICK m \in worker[w].batch :
            /\ Put(RequestOf(m), "failed")
            /\ Record(RequestOf(m), {"settled", "expired"})
            /\ worker' = [worker EXCEPT ![w].pc = "expired", ![w].current = {m},
                                        ![w].batch = @ \ {m}]
    BY <1>11 DEF ExpireOne, TypeInv, TypeOK
  <2>2. worker' = [worker EXCEPT ![w] =
                      [me EXCEPT !.pc = "expired", !.current = {m}, !.batch = @ \ {m}]]
    BY <2>1 DEF TypeInv, TypeOK
  <2>3. me.pc \in {"ttl", "outputs"} /\ {"settled", "expired"} \in SUBSET Outcome
    BY <1>11 DEF ExpireOne, TypeInv, TypeOK, Outcome
  <2>4. UNCHANGED <<messages, accepted, gateway, reconciler>>
    BY <1>11 DEF ExpireOne, TypeInv, TypeOK
  <2> QED
    BY <1>5, <2>1, <2>2, <2>3, <2>4
<1>12. CASE OutputSucceeds(w)
  <2>1. PICK m \in worker[w].batch :
            /\ Put(RequestOf(m), "completed")
            /\ Record(RequestOf(m), {"settled", "answered"})
            /\ worker' = [worker EXCEPT ![w].pc = "done", ![w].current = {m},
                                        ![w].batch = @ \ {m}]
    BY <1>12 DEF OutputSucceeds, TypeInv, TypeOK
  <2>2. worker' = [worker EXCEPT ![w] =
                      [me EXCEPT !.pc = "done", !.current = {m}, !.batch = @ \ {m}]]
    BY <2>1 DEF TypeInv, TypeOK
  <2>3. me.pc \in {"ttl", "outputs"} /\ {"settled", "answered"} \in SUBSET Outcome
    BY <1>12 DEF OutputSucceeds, TypeInv, TypeOK, Outcome
  <2>4. UNCHANGED <<messages, accepted, gateway, reconciler>>
    BY <1>12 DEF OutputSucceeds, TypeInv, TypeOK
  <2> QED
    BY <1>5, <2>1, <2>2, <2>3, <2>4
<1>6. CASE KeepOne(w)
  <2>1. PICK m \in worker[w].batch :
            worker' = [worker EXCEPT ![w] =
                AfterTtl([worker[w] EXCEPT !.batch = @ \ {m}, !.live = @ \cup {m}])]
    BY <1>6 DEF KeepOne
  <2> DEFINE kept == [me EXCEPT !.batch = @ \ {m}, !.live = @ \cup {m}]
             next == AfterTtl(kept)
  <2>2. worker' = [worker EXCEPT ![w] = next] /\ me.pc = "ttl"
    BY <1>6, <2>1 DEF KeepOne
  <2>3. m \in Message
    BY <1>0 DEF Receiving
  <2>4. /\ kept \in Receiving /\ kept.todo = me.todo /\ kept.batch = me.batch \ {m}
        /\ kept.live = me.live \cup {m} /\ kept.current = me.current
        /\ kept.receipts = me.receipts
    BY <1>0, <2>3 DEF Receiving
  <2>5. me.current = {}
    BY <1>1, <2>2
  <2>6. Follows(me, next) /\ next.current = {}
    <3> HIDE DEF kept, me
    <3>1. m \in me.batch
      BY DEF me
    <3>2. OneReceipt(kept) /\ Apart(kept) /\ Ready(kept) \subseteq Ready(me)
      BY <1>1, <2>4, <2>5, <3>1 DEF OneReceipt, Ready, Apart
    <3>3. Follows(kept, next) /\ next.current = {}
      BY <2>4, <3>2, StepsFollow
    <3> QED
      BY <2>4, <3>2, <3>3 DEF Follows
  <2>7. UNCHANGED <<store, messages, history, accepted, gateway, reconciler>>
    BY <1>6 DEF KeepOne
  <2> HIDE DEF next
  <2> QED
    BY <2>2, <2>5, <2>6, <2>7 DEF Goes
<1>7. CASE DeleteExpired(w)
  <2>1. PICK m \in worker[w].current : DeleteByReceipt(w, RequestOf(m))
    BY <1>7 DEF DeleteExpired
  <2>2. worker' = [worker EXCEPT ![w] = AfterTtl(me)]
        /\ UNCHANGED <<store, history, accepted, gateway, reconciler>>
    BY <1>7 DEF DeleteExpired
  <2>3. Follows(me, AfterTtl(me)) /\ AfterTtl(me).current = {}
    BY <1>0, <1>1, StepsFollow
  <2> QED
    BY <2>1, <2>2, <2>3 DEF Deletes
<1>8. CASE DeleteDone(w)
  <2>1. PICK m \in worker[w].current : DeleteByReceipt(w, RequestOf(m))
    BY <1>8 DEF DeleteDone
  <2>2. worker' = [worker EXCEPT ![w] = AfterOutput(me)]
        /\ UNCHANGED <<store, history, accepted, gateway, reconciler>>
    BY <1>8 DEF DeleteDone
  <2>3. Follows(me, AfterOutput(me)) /\ AfterOutput(me).current = {}
    BY <1>0, <1>1, StepsFollow
  <2> QED
    BY <2>1, <2>2, <2>3 DEF Deletes
<1>9. CASE MarkProcessing(w)
  <2>1. PICK m \in worker[w].batch :
            /\ Put(RequestOf(m), "processing")
            /\ worker' = [worker EXCEPT ![w] = AfterMark(@, m)]
    BY <1>9 DEF MarkProcessing
  <2>2. worker' = [worker EXCEPT ![w] = AfterMark(me, m)] /\ me.pc = "mark"
        /\ UNCHANGED <<messages, history, accepted, gateway, reconciler>>
    BY <1>9, <2>1 DEF MarkProcessing
  <2>3. me.current = {}
    BY <1>1, <2>2
  <2>4. Follows(me, AfterMark(me, m)) /\ AfterMark(me, m).current = {}
    BY <1>0, <1>1, <2>1, <2>3, StepsFollow
  <2>5. Marks(w, AfterMark(me, m), m)
    BY <2>1, <2>2, <2>3, <2>4 DEF Marks
  <2> QED
    BY <2>1, <2>2, <2>4, <2>5
<1>10. CASE OutputFails(w)
  <2>1. PICK m \in worker[w].batch :
            /\ Put(RequestOf(m), "failed")
            /\ Record(RequestOf(m), {"settled"})
            /\ worker' = [worker EXCEPT ![w] = AfterOutput([worker[w] EXCEPT !.batch = @ \ {m}])]
    BY <1>10 DEF OutputFails
  <2> DEFINE less == [me EXCEPT !.batch = @ \ {m}]
             next == AfterOutput(less)
  <2>2. worker' = [worker EXCEPT ![w] = next] /\ me.pc = "outputs"
    BY <1>10, <2>1 DEF OutputFails
  <2>3. /\ less \in Receiving /\ less.todo = me.todo /\ less.batch = me.batch \ {m}
        /\ less.live = me.live /\ less.current = me.current /\ less.receipts = me.receipts
    BY <1>0 DEF Receiving
  <2>4. me.current = {}
    BY <1>1, <2>2
  <2>5. Follows(me, next) /\ next.current = {} /\ m \notin Ready(next)
    <3> HIDE DEF less, me
    <3>1. m \in me.batch
      BY DEF me
    <3>2. OneReceipt(less) /\ Apart(less) /\ Ready(less) \subseteq Ready(me) /\ m \notin Ready(less)
      BY <1>1, <2>3, <3>1 DEF OneReceipt, Ready, Apart
    <3>3. Follows(less, next) /\ next.current = {}
      BY <2>3, <3>2, StepsFollow
    <3> QED
      BY <2>3, <3>2, <3>3 DEF Follows
  <2>6. UNCHANGED <<messages, accepted, gateway, reconciler>>
    BY <1>10 DEF OutputFails
  <2>7. {"settled"} \in SUBSET Outcome
    BY DEF Outcome
  <2> HIDE DEF next, less
  <2>8. Ends(w, next, m)
    BY <2>1, <2>4, <2>5, <2>6, <2>7 DEF Ends
  <2> QED
    BY <2>1, <2>2, <2>5, <2>6, <2>8
<1> QED
  BY <1>2, <1>3, <1>4, <1>6, <1>7, <1>8, <1>9, <1>10, <1>11, <1>12 DEF WorkerStep

\* What a receive does: the messages S in flight from now on, with a receipt of
\* this delivery for every request of theirs.
Delivered(S) ==
    \A m \in Message :
        /\ m \in S => messages'[m] = [place |-> "inflight",
                                      receives |-> messages[m].receives + 1]
        /\ m \notin S => messages'[m] = messages[m]

OneReceiptEach(S, R) ==
    /\ \A x \in R : \E m \in S :
          x = [message |-> m, nth |-> messages[m].receives + 1]
    /\ \A r \in {RequestOf(m) : m \in S} :
          \E x : {y \in R : RequestOf(y.message) = r} = {x}

\* What another worker has of the same requests is written down.
Doubles(w, S) ==
    \A v \in Workers : \A m \in S, n \in Held(worker[v]) :
        v # w /\ RequestOf(n) = RequestOf(m) => "doubled" \in history'[RequestOf(m)]

TakesUp(w, S, R) ==
    \E next \in Receiving :
        /\ worker' = [worker EXCEPT ![w] = next]
        /\ next.todo = S /\ next.batch = {} /\ next.live = {}
        /\ next.current = {} /\ next.receipts = R

LEMMA ReceiveStep ==
    ASSUME TypeInv, NEW w \in Workers, Receive(w)
    PROVE  \E S \in SUBSET Visible, R \in SUBSET [message : Message, nth : Nat] :
              /\ Delivered(S) /\ OneReceiptEach(S, R) /\ TakesUp(w, S, R)
              /\ Doubles(w, S)
<1>1. PICK S \in SUBSET Visible :
         /\ messages' = [m \in Message |->
                IF m \in S
                THEN [place |-> "inflight", receives |-> messages[m].receives + 1]
                ELSE messages[m]]
         /\ \E R \in Receipts(S) :
                worker' = [worker EXCEPT ![w] = [Idle EXCEPT !.pc = "batching",
                                                             !.todo = S,
                                                             !.receipts = R]]
         /\ history' = [r \in Requests |->
                IF r \in {RequestOf(m) : m \in S} \cap HeldElsewhere(w)
                THEN history[r] \cup {"doubled"} ELSE history[r]]
  BY DEF Receive
<1>2. PICK R \in Receipts(S) :
         worker' = [worker EXCEPT ![w] = [Idle EXCEPT !.pc = "batching",
                                                      !.todo = S,
                                                      !.receipts = R]]
  BY <1>1
<1>3. S \in SUBSET Message
  BY DEF Visible
<1> DEFINE receipt(m) == [message |-> m, nth |-> messages[m].receives + 1]
           All == {receipt(m) : m \in S}
<1>4. R \in SUBSET All
  BY DEF Receipts
<1>5. IsFiniteSet(R)
  <2>1. IsFiniteSet(Requests \X (0..MaxResubmits))
    <3>1. IsFiniteSet(0..MaxResubmits)
      <4>1. 0 \in Int /\ MaxResubmits \in Int
        BY PlatformAssumption
      <4> QED
        BY <4>1, FS_Interval
    <3>2. IsFiniteSet(Requests)
      BY PlatformAssumption
    <3> QED
      BY <3>1, <3>2, FS_Product
  <2>2. IsFiniteSet(S)
    BY <1>3, <2>1, FS_Subset DEF Message
  <2>3. IsFiniteSet(All)
    <3> DEFINE f == [m \in S |-> receipt(m)]
    <3>1. f \in Surjection(S, All)
      BY DEF Surjection
    <3> HIDE DEF f, All
    <3> QED
      BY <2>2, <3>1, FS_Surjection
  <2> HIDE DEF All
  <2> QED
    BY <1>4, <2>3, FS_Subset
<1>6. ASSUME NEW r \in {RequestOf(m) : m \in S}
      PROVE  \E x : {y \in R : RequestOf(y.message) = r} = {x}
  <2> DEFINE T == {y \in R : RequestOf(y.message) = r}
  <2>1. Cardinality(T) = 1
    BY <1>6 DEF Receipts
  <2>2. T \in SUBSET R
    OBVIOUS
  <2> HIDE DEF T
  <2>3. IsFiniteSet(T)
    BY <1>5, <2>2, FS_Subset
  <2>4. \E x : T = {x}
    BY <2>1, <2>3, FS_Singleton
  <2> QED
    BY <2>4 DEF T
<1> DEFINE next == [Idle EXCEPT !.pc = "batching", !.todo = S, !.receipts = R]
<1>7. R \in SUBSET [message : Message, nth : Nat]
  <2>1. \A m \in S : receipt(m) \in [message : Message, nth : Nat]
    BY <1>3 DEF TypeInv, TypeOK
  <2> QED
    BY <1>4, <2>1
<1>8. /\ next \in Receiving /\ next.todo = S /\ next.batch = {} /\ next.live = {}
      /\ next.current = {} /\ next.receipts = R
  BY <1>3, <1>7 DEF Idle, Receiving, WorkerPc
<1>9. worker' = [worker EXCEPT ![w] = next]
  BY <1>2
<1>10. TakesUp(w, S, R)
  <2> HIDE DEF next
  <2> QED
    BY <1>8, <1>9 DEF TakesUp
<1>11. Delivered(S)
  BY <1>1 DEF Delivered
<1>12. \A x \in R : \E m \in S : x = [message |-> m, nth |-> messages[m].receives + 1]
  BY <1>4
<1>13. OneReceiptEach(S, R)
  BY <1>6, <1>12 DEF OneReceiptEach
<1>14. Doubles(w, S)
  <2> SUFFICES ASSUME NEW v \in Workers, NEW m \in S, NEW n \in Held(worker[v]),
                      v # w, RequestOf(n) = RequestOf(m)
               PROVE  "doubled" \in history'[RequestOf(m)]
    BY DEF Doubles
  <2>1. RequestOf(m) \in Requests
    BY <1>3, MessagesOfRequests
  <2>2. RequestOf(n) \in InHand(worker[v])
    BY DEF InHand, Held, Ready
  <2>3. RequestOf(m) \in HeldElsewhere(w)
    BY <2>2 DEF HeldElsewhere
  <2> QED
    BY <1>1, <2>1, <2>3
<1> HIDE DEF receipt, All, next
<1> QED
  BY <1>7, <1>10, <1>11, <1>13, <1>14

LEMMA HandInit == Init => HandInv
<1>1. /\ Idle.todo = {} /\ Idle.batch = {} /\ Idle.live = {}
      /\ Idle.current = {} /\ Idle.receipts = {}
  BY DEF Idle
<1> HIDE DEF Idle
<1>2. Tidy(Idle)
  BY <1>1 DEF Tidy, Apart, OneReceipt, Ready
<1> QED
  BY <1>2 DEF Init, HandInv

\* A worker that a fault interrupts has nothing in hand any more.
LEMMA FaultStep ==
    ASSUME TypeInv, NEW w \in Workers, WorkerFault(w)
    PROVE  /\ worker' = [worker EXCEPT ![w] = Idle]
           /\ DropInHand(w)
           /\ UNCHANGED <<store, messages, accepted, gateway, reconciler>>
<1>1. CASE CallRaises(w)
  BY <1>1 DEF CallRaises
<1>2. CASE CrashAndRestart(w)
  BY <1>2 DEF CrashAndRestart
<1> QED
  BY <1>1, <1>2 DEF WorkerFault

LEMMA OthersLeaveWorkers ==
    ASSUME \/ \E t \in Threads : GatewayStep(t)
           \/ ReconcilerStep
           \/ \E m \in Message : Reappear(m)
           \/ \E r \in Requests : GrowOld(r)
           \/ TimePasses
           \/ UNCHANGED vars
    PROVE  UNCHANGED worker
<1>1. ASSUME NEW t \in Threads, GatewayStep(t) PROVE UNCHANGED worker
  BY <1>1 DEF GatewayStep, ScanPending, Reject, Admit, PublishRequest, SubmitFails, PutPending
<1>2. ASSUME ReconcilerStep PROVE UNCHANGED worker
  BY <1>2 DEF ReconcilerStep, ScanStalePending, ScanStaleProcessing, Resubmit, MarkFailed,
              PassFails, ResubmitBound
<1> QED
  BY <1>1, <1>2 DEF Reappear, GrowOld, TimePasses, vars

\* A worker's step turns its own record into a tidy one.
LEMMA HandStep == TypeInv /\ HandInv /\ [Next]_vars => HandInv'
<1> SUFFICES ASSUME TypeInv, HandInv, [Next]_vars PROVE HandInv'
  OBVIOUS
<1>0. worker \in [Workers -> Receiving]
  BY DEF TypeInv, TypeOK, Receiving
<1>1. ASSUME NEW w \in Workers, NEW next, Tidy(next),
             worker' = [worker EXCEPT ![w] = next]
      PROVE  HandInv'
  <2> SUFFICES ASSUME NEW v \in Workers PROVE Tidy(worker'[v])
    BY DEF HandInv, Tidy, Apart, OneReceipt, Ready
  <2> QED
    BY <1>0, <1>1 DEF HandInv
<1>2. ASSUME NEW w \in Workers, WorkerStep(w), ~Receive(w) PROVE HandInv'
  BY <1>1, <1>2, StepWithinReceive DEF Follows
<1>3. ASSUME NEW w \in Workers, Receive(w) PROVE HandInv'
  <2>1. PICK S \in SUBSET Visible, R \in SUBSET [message : Message, nth : Nat] :
          OneReceiptEach(S, R) /\ TakesUp(w, S, R)
    BY <1>3, ReceiveStep
  <2>2. PICK next \in Receiving :
                /\ worker' = [worker EXCEPT ![w] = next]
                /\ next.todo = S /\ next.batch = {} /\ next.live = {}
                /\ next.current = {} /\ next.receipts = R
    BY <2>1 DEF TakesUp
  <2>3. ASSUME NEW x \in R, NEW y \in R, RequestOf(x.message) = RequestOf(y.message)
        PROVE  x = y
    <3>1. PICK m \in S : x = [message |-> m, nth |-> messages[m].receives + 1]
      BY <2>1 DEF OneReceiptEach
    <3>2. RequestOf(x.message) \in {RequestOf(n) : n \in S}
      BY <3>1
    <3>3. PICK z : {u \in R : RequestOf(u.message) = RequestOf(x.message)} = {z}
      BY <2>1, <3>2 DEF OneReceiptEach
    <3>4. x \in {z} /\ y \in {z}
      BY <2>3, <3>3
    <3> QED
      BY <3>4
  <2>4. Tidy(next)
    BY <2>2, <2>3 DEF Tidy, Apart, OneReceipt, Ready
  <2> QED
    BY <1>1, <2>2, <2>4
<1>4. ASSUME NEW w \in Workers, WorkerFault(w) PROVE HandInv'
  <2>1. worker' = [worker EXCEPT ![w] = Idle]
    BY <1>4, FaultStep
  <2>2. OneReceipt(worker[w]) /\ worker[w] \in Receiving
    BY <1>0 DEF HandInv, Tidy
  <2>3. Tidy(Idle)
    BY <2>2, IdleFollows DEF Follows
  <2> QED
    BY <1>1, <2>1, <2>3
<1>5. UNCHANGED worker => HandInv'
  BY DEF HandInv, Tidy, Apart, OneReceipt, Ready
<1> QED
  BY <1>2, <1>3, <1>4, <1>5, OthersLeaveWorkers DEF Next

\* Between a receive and the end of its batches a message is in one place, and
\* a request has one receipt, whatever the number of workers.
LEMMA HandInvariant == Spec => []HandInv
BY HandInit, HandStep, TypeInvariant, PTL DEF Spec

-----------------------------------------------------------------------------
(* Two workers with messages of one request.                                *)

LEMMA HeldAreMessages ==
    ASSUME TypeInv, NEW w \in Workers
    PROVE  Held(worker[w]) \subseteq Message
BY DEF TypeInv, TypeOK, Held, Ready

\* What is written down of a request is never taken back.
HistoryGrows == \A r \in Requests : history[r] \subseteq history'[r]

LEMMA HistoryOnlyGrows == TypeInv /\ [Next]_vars => HistoryGrows
<1> SUFFICES ASSUME TypeInv, [Next]_vars PROVE HistoryGrows
  OBVIOUS
<1> USE DEF TypeInv, TypeOK, HistoryGrows
<1>1. \A r, E : Record(r, E) => HistoryGrows
  BY DEF Record
<1>2. UNCHANGED history => HistoryGrows
  OBVIOUS
<1>3. ASSUME NEW t \in Threads, GatewayStep(t) PROVE UNCHANGED history
  BY <1>3 DEF GatewayStep, ScanPending, Reject, Admit, PublishRequest, SubmitFails, PutPending
<1>4. ASSUME NEW w \in Workers, WorkerStep(w) PROVE HistoryGrows
  <2>1. CASE Receive(w)
    BY <2>1 DEF Receive
  <2>2. CASE FastFail(w) \/ ExpireOne(w) \/ OutputSucceeds(w) \/ OutputFails(w)
    BY <1>1, <2>2 DEF FastFail, ExpireOne, OutputSucceeds, OutputFails
  <2>3. CASE DeferBatch(w) \/ GateBatch(w) \/ KeepOne(w) \/ DeleteExpired(w)
             \/ MarkProcessing(w) \/ DeleteDone(w)
    BY <1>2, <2>3 DEF DeferBatch, GateBatch, KeepOne, DeleteExpired, MarkProcessing, DeleteDone
  <2> QED
    BY <1>4, <2>1, <2>2, <2>3 DEF WorkerStep
<1>5. ASSUME NEW w \in Workers, WorkerFault(w) PROVE HistoryGrows
  BY <1>5, FaultStep DEF DropInHand
<1>6. ReconcilerStep => HistoryGrows
  BY <1>1, <1>2 DEF ReconcilerStep, ScanStalePending, ScanStaleProcessing, Resubmit,
                    MarkFailed, PassFails, ResubmitBound
<1>7. (\E m \in Message : Reappear(m)) \/ (\E r \in Requests : GrowOld(r)) \/ TimePasses
      \/ UNCHANGED vars => HistoryGrows
  BY <1>2 DEF Reappear, GrowOld, TimePasses, vars
<1> QED
  BY <1>2, <1>3, <1>4, <1>5, <1>6, <1>7 DEF Next

\* Two workers have messages of one request in hand only where a receive has
\* written it down.
HandsApart ==
    \A v, w \in Workers : \A m \in Held(worker[v]), n \in Held(worker[w]) :
        v # w /\ RequestOf(m) = RequestOf(n) => "doubled" \in history[RequestOf(m)]

\* A worker whose hand only gets emptier stays apart from the others.
LEMMA SmallerHandsApart ==
    ASSUME TypeInv, HandsApart, HistoryGrows,
           \A w \in Workers : Held(worker'[w]) \subseteq Held(worker[w])
    PROVE  HandsApart'
<1> SUFFICES ASSUME NEW v \in Workers, NEW w \in Workers,
                    NEW m \in Held(worker'[v]), NEW n \in Held(worker'[w]),
                    v # w, RequestOf(m) = RequestOf(n)
             PROVE  "doubled" \in history'[RequestOf(m)]
  BY DEF HandsApart, Held, Ready, RequestOf
<1>1. m \in Held(worker[v]) /\ n \in Held(worker[w]) /\ m \in Message
  BY DEF TypeInv, TypeOK, Held, Ready
<1>2. "doubled" \in history[RequestOf(m)] /\ RequestOf(m) \in Requests
  BY <1>1, MessagesOfRequests DEF HandsApart
<1> QED
  BY <1>2 DEF HistoryGrows

LEMMA HandsStayApart ==
    TypeInv /\ HandInv /\ HandsApart /\ [Next]_vars => HandsApart'
<1> SUFFICES ASSUME TypeInv, HandInv, HandsApart, [Next]_vars PROVE HandsApart'
  OBVIOUS
<1>0. HistoryGrows /\ worker \in [Workers -> Receiving]
  BY HistoryOnlyGrows DEF TypeInv, TypeOK, Receiving
<1>1. ASSUME NEW w \in Workers, NEW next, worker' = [worker EXCEPT ![w] = next],
             Held(next) \subseteq Held(worker[w])
      PROVE  HandsApart'
  BY <1>0, <1>1, SmallerHandsApart
<1>2. ASSUME NEW w \in Workers, WorkerStep(w), ~Receive(w) PROVE HandsApart'
  <2>1. PICK next :
              /\ worker' = [worker EXCEPT ![w] = next]
              /\ Follows(worker[w], next)
              /\ \/ Goes(w, next)
                 \/ \E m \in worker[w].batch : Marks(w, next, m) \/ Ends(w, next, m)
                 \/ \E m \in worker[w].current : Deletes(w, next, m)
    BY <1>2, StepWithinReceive
  <2>2. next.current \subseteq Held(worker[w])
    BY <2>1 DEF Goes, Marks, Ends, Deletes, Held, Ready
  <2>3. Held(next) \subseteq Held(worker[w])
    BY <2>1, <2>2 DEF Follows, Held
  <2> QED
    BY <1>1, <2>1, <2>3
<1>3. ASSUME NEW w \in Workers, Receive(w) PROVE HandsApart'
  <2>1. PICK S \in SUBSET Visible, R \in SUBSET [message : Message, nth : Nat] :
          TakesUp(w, S, R) /\ Doubles(w, S)
    BY <1>3, ReceiveStep
  <2>2. PICK next \in Receiving :
                /\ worker' = [worker EXCEPT ![w] = next]
                /\ next.todo = S /\ next.batch = {} /\ next.live = {} /\ next.current = {}
    BY <2>1 DEF TakesUp
  <2>3. Held(next) = S
    BY <2>2 DEF Held, Ready
  <2>4. worker'[w] = next /\ \A v \in Workers : v # w => worker'[v] = worker[v]
    BY <1>0, <2>2
  <2> SUFFICES ASSUME NEW u \in Workers, NEW v \in Workers,
                      NEW m \in Held(worker'[u]), NEW n \in Held(worker'[v]),
                      u # v, RequestOf(m) = RequestOf(n)
               PROVE  "doubled" \in history'[RequestOf(m)]
    BY DEF HandsApart, Held, Ready, RequestOf
  <2>5. CASE u = w
    BY <2>1, <2>3, <2>4, <2>5 DEF Doubles
  <2>6. CASE v = w
    BY <2>1, <2>3, <2>4, <2>6 DEF Doubles
  <2>7. CASE u # w /\ v # w
    <3>1. m \in Held(worker[u]) /\ n \in Held(worker[v])
      BY <2>4, <2>7
    <3>2. "doubled" \in history[RequestOf(m)] /\ RequestOf(m) \in Requests
      BY <3>1, HeldAreMessages, MessagesOfRequests DEF HandsApart
    <3> QED
      BY <1>0, <3>2 DEF HistoryGrows
  <2> QED
    BY <2>5, <2>6, <2>7
<1>4. ASSUME NEW w \in Workers, WorkerFault(w) PROVE HandsApart'
  <2>1. worker' = [worker EXCEPT ![w] = Idle]
    BY <1>4, FaultStep
  <2>2. Held(Idle) = {}
    BY DEF Held, Ready, Idle
  <2> QED
    BY <1>1, <2>1, <2>2
<1>5. UNCHANGED worker => HandsApart'
  BY <1>0, SmallerHandsApart
<1> QED
  BY <1>2, <1>3, <1>4, <1>5, OthersLeaveWorkers DEF Next

LEMMA HandsApartInvariant == Spec => []HandsApart
<1>1. Init => HandsApart
  BY DEF Init, HandsApart, Held, Ready, Idle
<1> QED
  BY <1>1, HandsStayApart, HandInvariant, TypeInvariant, PTL DEF Spec

-----------------------------------------------------------------------------
(* The message of a request shown as PROCESSING was not acknowledged.       *)

\* Nobody had the request in hand at the same time as somebody else.
Sole(r) == "doubled" \notin history[r]

\* A message that is still to be delivered, or in the dead-letter queue.
Undeleted(m) == messages[m].place \in {"visible", "inflight", "dead"}
Recoverable(r) == \E m \in Message : RequestOf(m) = r /\ Undeleted(m)

\* Why the worker's deletes and its PROCESSING puts do not meet.  Two copies of
\* a request in one receive share one receipt: the delete after one of them may
\* take the other's message, but then its own is left, and the other way round.
HandRecovers(w) ==
    /\ \A m \in Ready(worker[w]) : Sole(RequestOf(m)) => Recoverable(RequestOf(m))
    /\ \A m \in Held(worker[w]), x \in worker[w].receipts :
          Sole(RequestOf(m)) /\ RequestOf(x.message) = RequestOf(m) /\ x.message # m
              => Undeleted(m)
    /\ \A m \in worker[w].current :
          Sole(RequestOf(m)) => store[RequestOf(m)] # "processing"

ProcessingRecovers ==
    \A r \in Requests : store[r] = "processing" /\ Sole(r) => Recoverable(r)

RecoverInv == ProcessingRecovers /\ \A w \in Workers : HandRecovers(w)

LEMMA RecoverInit == Init => RecoverInv
<1>1. /\ Idle.todo = {} /\ Idle.batch = {} /\ Idle.live = {}
      /\ Idle.current = {} /\ Idle.receipts = {}
  BY DEF Idle
<1> HIDE DEF Idle
<1> QED
  BY <1>1 DEF Init, RecoverInv, ProcessingRecovers, HandRecovers, Ready, Held

\* What a step leaves alone of a request: it deletes no message of it and does
\* not show it as PROCESSING.
Spares(r) ==
    /\ \A m \in Message : RequestOf(m) = r /\ Undeleted(m) => Undeleted(m)'
    /\ store'[r] = "processing" => store[r] = "processing"

LEMMA SparedRecovers ==
    ASSUME NEW r, Spares(r), Recoverable(r)
    PROVE  Recoverable(r)'
BY DEF Spares, Recoverable, RequestOf

LEMMA SparedHandRecovers ==
    ASSUME TypeInv, HistoryGrows, NEW w \in Workers, HandRecovers(w),
           worker'[w] = worker[w],
           \A m \in Held(worker[w]) : Sole(RequestOf(m))' => Spares(RequestOf(m))
    PROVE  HandRecovers(w)'
<1>0. \A m \in Held(worker[w]) :
         m \in Message /\ (Sole(RequestOf(m))' => Sole(RequestOf(m)))
  BY HeldAreMessages, MessagesOfRequests DEF HistoryGrows, Sole, RequestOf
<1>1. ASSUME NEW m \in Ready(worker[w]), Sole(RequestOf(m))' PROVE Recoverable(RequestOf(m))'
  <2>1. m \in Held(worker[w])
    BY DEF Held
  <2>2. Recoverable(RequestOf(m)) /\ Spares(RequestOf(m))
    BY <1>0, <1>1, <2>1 DEF HandRecovers
  <2> QED
    BY <2>2, SparedRecovers
<1>2. ASSUME NEW m \in Held(worker[w]), NEW x \in worker[w].receipts,
             Sole(RequestOf(m))', RequestOf(x.message) = RequestOf(m), x.message # m
      PROVE  Undeleted(m)'
  BY <1>0, <1>2 DEF HandRecovers, Spares
<1>3. ASSUME NEW m \in worker[w].current, Sole(RequestOf(m))'
      PROVE  store'[RequestOf(m)] # "processing"
  <2>1. m \in Held(worker[w])
    BY DEF Held
  <2> QED
    BY <1>0, <1>3, <2>1 DEF HandRecovers, Spares
<1> QED
  BY <1>1, <1>2, <1>3 DEF HandRecovers, RequestOf, Ready, Held, Sole

\* A step that spares every request and leaves the workers alone.
LEMMA RecoverStays ==
    ASSUME TypeInv, RecoverInv, HistoryGrows, \A r \in Requests : Spares(r)
    PROVE  /\ ProcessingRecovers'
           /\ UNCHANGED worker => RecoverInv'
<1>1. ASSUME NEW r \in Requests, store'[r] = "processing", Sole(r)' PROVE Recoverable(r)'
  <2>1. store[r] = "processing" /\ Sole(r)
    BY <1>1 DEF Spares, HistoryGrows, Sole
  <2>2. Recoverable(r) /\ Spares(r)
    BY <2>1 DEF RecoverInv, ProcessingRecovers
  <2> QED
    BY <2>2, SparedRecovers
<1>2. ProcessingRecovers'
  BY <1>1 DEF ProcessingRecovers, Sole
<1>3. ASSUME UNCHANGED worker, NEW w \in Workers PROVE HandRecovers(w)'
  <2>1. \A m \in Held(worker[w]) : RequestOf(m) \in Requests
    BY HeldAreMessages, MessagesOfRequests
  <2> QED
    BY <1>3, <2>1, SparedHandRecovers DEF RecoverInv
<1> QED
  BY <1>2, <1>3 DEF RecoverInv

\* The step of one worker at requests that it has in hand: the others have none
\* of them, or two workers have the same.
LEMMA OnlyHand ==
    ASSUME TypeInv, RecoverInv, HandsApart, HistoryGrows, NEW w \in Workers, NEW next,
           worker' = [worker EXCEPT ![w] = next],
           \A r \in Requests : (\A m \in Held(worker[w]) : RequestOf(m) # r) => Spares(r),
           ProcessingRecovers',
           \A m \in Ready(next) : Sole(RequestOf(m))' => Recoverable(RequestOf(m))',
           \A m \in Held(next), x \in next.receipts :
              Sole(RequestOf(m))' /\ RequestOf(x.message) = RequestOf(m) /\ x.message # m
                  => Undeleted(m)',
           \A m \in next.current : Sole(RequestOf(m))' => store'[RequestOf(m)] # "processing"
    PROVE  RecoverInv'
<1>1. worker'[w] = next /\ \A v \in Workers : v # w => worker'[v] = worker[v]
  BY DEF TypeInv, TypeOK
<1>2. HandRecovers(w)'
  BY <1>1 DEF HandRecovers, RequestOf, Ready, Held, Sole
<1>3. ASSUME NEW v \in Workers, v # w PROVE HandRecovers(v)'
  <2>1. ASSUME NEW m \in Held(worker[v]), Sole(RequestOf(m))' PROVE Spares(RequestOf(m))
    <3>1. RequestOf(m) \in Requests
      BY HeldAreMessages, MessagesOfRequests
    <3>2. "doubled" \notin history[RequestOf(m)]
      BY <2>1, <3>1 DEF HistoryGrows, Sole, RequestOf
    <3>3. \A n \in Held(worker[w]) : RequestOf(n) # RequestOf(m)
      BY <1>3, <3>2 DEF HandsApart
    <3> QED
      BY <3>1, <3>3
  <2> QED
    BY <1>1, <1>3, <2>1, SparedHandRecovers DEF RecoverInv
<1> QED
  BY <1>2, <1>3 DEF RecoverInv

LEMMA DeleteRecovers ==
    ASSUME TypeInv, HandInv, RecoverInv, HandsApart, NEW w \in Workers,
           NEW next, worker' = [worker EXCEPT ![w] = next], Follows(worker[w], next),
           NEW m \in worker[w].current, Deletes(w, next, m)
    PROVE  RecoverInv'
<1> DEFINE me == worker[w]
           q == RequestOf(m)
<1>0. /\ HandRecovers(w) /\ Tidy(me) /\ Held(me) \subseteq Message
      /\ Ready(next) \subseteq Ready(me) /\ next.current = {}
      /\ next.receipts = me.receipts \/ Held(next) = {}
      /\ UNCHANGED <<store, history>>
  BY HeldAreMessages DEF RecoverInv, HandInv, Follows, Deletes
<1>1. PICK x \in me.receipts :
         /\ RequestOf(x.message) = q
         /\ \A n \in Message : n # x.message => messages'[n] = messages[n]
  <2>1. PICK x \in worker[w].receipts :
           /\ RequestOf(x.message) = q
           /\ \/ messages' = [messages EXCEPT ![x.message].place = "deleted"]
              \/ UNCHANGED messages
    BY DEF Deletes, DeleteByReceipt
  <2> QED
    BY <2>1 DEF TypeInv, TypeOK
<1>2. \A n \in Message : Undeleted(n) /\ n # x.message => Undeleted(n)'
  BY <1>1 DEF Undeleted
<1>3. /\ \A r \in Requests : r # q => Spares(r)
      /\ \A r : Sole(r)' = Sole(r)
      /\ HistoryGrows
  BY <1>0, <1>1, <1>2 DEF Spares, Sole, HistoryGrows
<1>5. m \in Message /\ m \in Held(me) /\ q \in Requests
  BY <1>0, MessagesOfRequests DEF Held
<1>4. ProcessingRecovers'
  <2> SUFFICES ASSUME NEW r \in Requests, store[r] = "processing", Sole(r)
               PROVE  Recoverable(r)'
    BY <1>0, <1>3 DEF ProcessingRecovers
  <2>1. r # q
    BY <1>0 DEF HandRecovers
  <2>2. Recoverable(r) /\ Spares(r)
    BY <1>3, <2>1 DEF RecoverInv, ProcessingRecovers
  <2> QED
    BY <2>2, SparedRecovers
<1>6. ASSUME NEW n \in Ready(next), Sole(RequestOf(n))' PROVE Recoverable(RequestOf(n))'
  <2>1. /\ n \in Ready(me) /\ n \in Held(me) /\ n \in Message /\ n # m
        /\ Sole(RequestOf(n)) /\ RequestOf(n) \in Requests
    BY <1>0, <1>3, <1>6, MessagesOfRequests DEF Held, Tidy, Apart, RequestOf
  <2>2. CASE RequestOf(n) # q
    <3>1. Recoverable(RequestOf(n)) /\ Spares(RequestOf(n))
      BY <1>0, <1>3, <2>1, <2>2 DEF HandRecovers
    <3> QED
      BY <3>1, SparedRecovers
  <2>3. CASE RequestOf(n) = q /\ n # x.message
    <3>1. Undeleted(n)
      BY <1>0, <1>1, <2>1, <2>3 DEF HandRecovers
    <3> QED
      BY <1>2, <2>1, <2>3, <3>1 DEF Recoverable, RequestOf
  <2>4. CASE RequestOf(n) = q /\ n = x.message
    <3>1. Undeleted(m)
      BY <1>0, <1>1, <1>5, <2>1, <2>4 DEF HandRecovers
    <3>2. Undeleted(m)'
      BY <1>2, <1>5, <2>1, <2>4, <3>1
    <3> QED
      BY <1>5, <2>4, <3>2 DEF Recoverable, RequestOf
  <2> QED
    BY <2>2, <2>3, <2>4
<1>7. ASSUME NEW n \in Held(next), NEW y \in next.receipts, Sole(RequestOf(n))',
             RequestOf(y.message) = RequestOf(n), y.message # n
      PROVE  Undeleted(n)'
  <2>1. n \in Held(me) /\ n \in Message /\ y \in me.receipts /\ Sole(RequestOf(n))
    BY <1>0, <1>3, <1>7 DEF Held, RequestOf
  <2>2. Undeleted(n)
    BY <1>0, <1>7, <2>1 DEF HandRecovers
  <2>3. n # x.message
    <3>1. CASE RequestOf(n) = q
      <4>1. y = x
        BY <1>0, <1>1, <1>7, <2>1, <3>1 DEF Tidy, OneReceipt
      <4> QED
        BY <1>7, <4>1
    <3>2. CASE RequestOf(n) # q
      BY <1>1, <3>2
    <3> QED
      BY <3>1, <3>2
  <2> QED
    BY <1>2, <2>1, <2>2, <2>3
<1>8. /\ \A n \in next.current : Sole(RequestOf(n))' => store'[RequestOf(n)] # "processing"
      /\ \A r \in Requests : (\A n \in Held(worker[w]) : RequestOf(n) # r) => Spares(r)
  BY <1>0, <1>3, <1>5
<1> HIDE DEF me, q
<1> QED
  BY <1>3, <1>4, <1>6, <1>7, <1>8, OnlyHand

LEMMA WithinReceiveRecovers ==
    ASSUME TypeInv, HandInv, RecoverInv, HandsApart, HistoryGrows, NEW w \in Workers,
           WorkerStep(w), ~Receive(w)
    PROVE  RecoverInv'
<1> DEFINE me == worker[w]
<1>1. PICK next :
              /\ worker' = [worker EXCEPT ![w] = next]
              /\ Follows(worker[w], next)
              /\ \/ Goes(w, next)
                 \/ \E m \in worker[w].batch : Marks(w, next, m) \/ Ends(w, next, m)
                 \/ \E m \in worker[w].current : Deletes(w, next, m)
  BY StepWithinReceive
<1>0. /\ HandRecovers(w) /\ Held(me) \subseteq Message
      /\ Ready(next) \subseteq Ready(me) /\ Ready(me) \subseteq Held(me)
      /\ next.receipts = me.receipts \/ Held(next) = {}
  BY <1>1, HeldAreMessages DEF RecoverInv, Follows, Held
\* Steps that leave the messages alone, and of the store all but one request.
<1>2. ASSUME UNCHANGED messages, ProcessingRecovers', next.current \subseteq Held(me),
             \A r \in Requests : (\A m \in Held(me) : RequestOf(m) # r) => store'[r] = store[r],
             \A n \in next.current : store'[RequestOf(n)] # "processing"
      PROVE  RecoverInv'
  <2>0. /\ \A n \in Message : Undeleted(n)' = Undeleted(n)
        /\ \A r : Recoverable(r) => Recoverable(r)'
    BY <1>2 DEF Recoverable, RequestOf, Undeleted
  <2>1. ASSUME NEW n \in Held(me), Sole(RequestOf(n))' PROVE Sole(RequestOf(n))
    BY <1>0, <2>1, MessagesOfRequests DEF Sole, HistoryGrows, RequestOf
  <2>2. ASSUME NEW n \in Ready(next), Sole(RequestOf(n))' PROVE Recoverable(RequestOf(n))'
    <3>1. n \in Ready(me) /\ n \in Held(me)
      BY <1>0
    <3>2. Recoverable(RequestOf(n))
      BY <1>0, <2>1, <2>2, <3>1 DEF HandRecovers
    <3> QED
      BY <2>0, <3>2 DEF RequestOf
  <2>3. ASSUME NEW n \in Held(next), NEW x \in next.receipts, Sole(RequestOf(n))',
               RequestOf(x.message) = RequestOf(n), x.message # n
        PROVE  Undeleted(n)'
    <3>1. n \in Held(me) /\ x \in me.receipts
      BY <1>0, <1>2, <2>3 DEF Held
    <3>2. Undeleted(n)
      BY <1>0, <2>1, <2>3, <3>1 DEF HandRecovers
    <3> QED
      BY <1>0, <2>0, <3>1, <3>2
  <2>4. \A r \in Requests : (\A m \in Held(worker[w]) : RequestOf(m) # r) => Spares(r)
    BY <1>2, <2>0 DEF Spares
  <2> HIDE DEF me
  <2> QED
    BY <1>1, <1>2, <2>2, <2>3, <2>4, OnlyHand
<1>3. ASSUME NEW m \in me.batch
      PROVE  m \in Ready(me) /\ m \in Held(me) /\ RequestOf(m) \in Requests
  <2>1. m \in Ready(me) /\ m \in Held(me)
    BY <1>3 DEF Ready, Held
  <2> QED
    BY <1>0, <2>1, MessagesOfRequests
<1>4. CASE Goes(w, next)
  <2>1. UNCHANGED <<messages, store>> /\ next.current = {}
    BY <1>4 DEF Goes
  <2>2. \A r \in Requests : Spares(r)
    BY <2>1 DEF Spares, Undeleted
  <2>3. ProcessingRecovers'
    BY <2>2, RecoverStays
  <2> QED
    BY <1>2, <2>1, <2>3
<1>5. ASSUME NEW m \in worker[w].batch, Marks(w, next, m) PROVE RecoverInv'
  <2>1. UNCHANGED messages /\ Put(RequestOf(m), "processing") /\ next.current = {}
    BY <1>5 DEF Marks
  <2>2. m \in Ready(me) /\ m \in Held(me) /\ RequestOf(m) \in Requests
    BY <1>3
  <2>3. /\ \A r \in Requests : r # RequestOf(m) => store'[r] = store[r]
        /\ \A r : Recoverable(r) => Recoverable(r)'
    BY <2>1 DEF Put, TypeInv, TypeOK, Recoverable, RequestOf, Undeleted
  <2>4. ASSUME NEW r \in Requests, store'[r] = "processing", Sole(r)' PROVE Recoverable(r)'
    <3>0. Sole(r)
      BY <2>4 DEF Sole, HistoryGrows
    <3>1. CASE r = RequestOf(m)
      <4>1. Sole(RequestOf(m))
        BY <3>0, <3>1
      <4>2. Recoverable(RequestOf(m))
        BY <1>0, <2>2, <4>1 DEF HandRecovers
      <4> QED
        BY <2>3, <3>1, <4>2 DEF RequestOf
    <3>2. CASE r # RequestOf(m)
      BY <2>3, <2>4, <3>0, <3>2 DEF RecoverInv, ProcessingRecovers
    <3> QED
      BY <3>1, <3>2
  <2>5. ProcessingRecovers'
    BY <2>4 DEF ProcessingRecovers, Sole
  <2> QED
    BY <1>2, <2>1, <2>2, <2>3, <2>5
<1>6. ASSUME NEW m \in worker[w].batch, Ends(w, next, m) PROVE RecoverInv'
  <2>1. PICK s \in {"completed", "failed"} : Put(RequestOf(m), s)
    BY <1>6 DEF Ends
  <2>2. UNCHANGED messages /\ next.current \subseteq {m}
    BY <1>6 DEF Ends
  <2>3. m \in Held(me) /\ RequestOf(m) \in Requests
    BY <1>3
  <2>4. /\ store'[RequestOf(m)] # "processing"
        /\ \A r \in Requests : r # RequestOf(m) => store'[r] = store[r]
    BY <2>1, <2>3 DEF Put, TypeInv, TypeOK
  <2>5. \A r \in Requests : Spares(r)
    BY <2>2, <2>4 DEF Spares, Undeleted
  <2>6. ProcessingRecovers'
    BY <2>5, RecoverStays
  <2>7. \A n \in next.current : store'[RequestOf(n)] # "processing"
    BY <2>2, <2>4
  <2> QED
    BY <1>2, <2>2, <2>3, <2>4, <2>6, <2>7
<1>7. ASSUME NEW m \in worker[w].current, Deletes(w, next, m) PROVE RecoverInv'
  BY <1>1, <1>7, DeleteRecovers
<1> QED
  BY <1>1, <1>4, <1>5, <1>6, <1>7

LEMMA ReceiveRecovers ==
    ASSUME TypeInv, RecoverInv, HandsApart, HistoryGrows, NEW w \in Workers, Receive(w)
    PROVE  RecoverInv'
<1>0. PICK S \in SUBSET Visible, R \in SUBSET [message : Message, nth : Nat] :
          Delivered(S) /\ TakesUp(w, S, R)
  BY ReceiveStep
<1>1. \A m \in Message :
          /\ m \in S => messages'[m] = [place |-> "inflight",
                                        receives |-> messages[m].receives + 1]
          /\ m \notin S => messages'[m] = messages[m]
  BY <1>0 DEF Delivered
<1>2. PICK next \in Receiving :
                /\ worker' = [worker EXCEPT ![w] = next]
                /\ next.todo = S /\ next.batch = {} /\ next.live = {}
                /\ next.current = {} /\ next.receipts = R
  BY <1>0 DEF TakesUp
<1>3. S \subseteq Message /\ Ready(next) = S /\ Held(next) = S
  <2>1. S \subseteq Message
    BY DEF Visible
  <2>2. Ready(next) = S
    BY <1>2 DEF Ready
  <2>3. Held(next) = S
    BY <1>2, <2>2 DEF Held
  <2> QED
    BY <2>1, <2>2, <2>3
<1>4. ASSUME NEW m \in S PROVE Undeleted(m)'
  <2>1. messages'[m] = [place |-> "inflight", receives |-> messages[m].receives + 1]
    BY <1>1, <1>3
  <2>2. messages'[m].place = "inflight"
    BY <2>1
  <2> QED
    BY <2>2 DEF Undeleted
<1>5. \A m \in Message : Undeleted(m) => Undeleted(m)'
  BY <1>1, <1>4 DEF Undeleted
<1>6. \A m \in Ready(next) : Recoverable(RequestOf(m))'
  BY <1>3, <1>4 DEF Recoverable, RequestOf
<1>7. \A m \in Held(next), x \in next.receipts :
         RequestOf(x.message) = RequestOf(m) /\ x.message # m => Undeleted(m)'
  BY <1>3, <1>4
<1>8. \A r \in Requests : Spares(r)
  BY <1>5 DEF Receive, Spares
<1>9. ProcessingRecovers'
  BY <1>8, RecoverStays
<1>10. next.current = {}
  BY <1>2
<1> QED
  BY <1>2, <1>6, <1>7, <1>8, <1>9, <1>10, OnlyHand

LEMMA FaultRecovers ==
    ASSUME TypeInv, RecoverInv, HandsApart, HistoryGrows, NEW w \in Workers, WorkerFault(w)
    PROVE  RecoverInv'
<1>1. worker' = [worker EXCEPT ![w] = Idle] /\ UNCHANGED <<store, messages>>
  BY FaultStep
<1>2. Idle.todo = {} /\ Idle.batch = {} /\ Idle.live = {} /\ Idle.current = {}
  BY DEF Idle
<1> HIDE DEF Idle
<1>3. Ready(Idle) = {} /\ Held(Idle) = {}
  BY <1>2 DEF Ready, Held
<1>4. \A r \in Requests : Spares(r)
  BY <1>1 DEF Spares, Undeleted
<1>5. ProcessingRecovers'
  BY <1>4, RecoverStays
<1> QED
  BY <1>1, <1>2, <1>3, <1>4, <1>5, OnlyHand

\* Publishing and the visibility timeout delete nothing.
LEMMA PublishDeletesNothing ==
    ASSUME TypeInv, NEW m, Publish(m)
    PROVE  \A n \in Message : Undeleted(n) => Undeleted(n)'
BY DEF TypeInv, TypeOK, Publish, Undeleted

LEMMA OthersRecover ==
    ASSUME TypeInv, RecoverInv, HistoryGrows,
           \/ \E t \in Threads : GatewayStep(t)
           \/ ReconcilerStep
           \/ \E m \in Message : Reappear(m)
           \/ \E r \in Requests : GrowOld(r)
           \/ TimePasses
           \/ UNCHANGED vars
    PROVE  RecoverInv'
<1>0. UNCHANGED worker
  BY OthersLeaveWorkers
<1>1. ASSUME \A m \in Message : Undeleted(m) => Undeleted(m)',
             \A r \in Requests : store'[r] = "processing" => store[r] = "processing"
      PROVE  RecoverInv'
  <2>1. \A r \in Requests : Spares(r)
    BY <1>1 DEF Spares
  <2> QED
    BY <1>0, <2>1, RecoverStays
<1>2. UNCHANGED messages => \A m \in Message : Undeleted(m) => Undeleted(m)'
  BY DEF Undeleted
<1>3. ASSUME NEW r, NEW s, s # "processing", Put(r, s)
      PROVE  \A q \in Requests : store'[q] = "processing" => store[q] = "processing"
  BY <1>3 DEF Put, TypeInv, TypeOK
<1>4. UNCHANGED <<store, messages>> => RecoverInv'
  BY <1>1, <1>2
<1>5. ASSUME NEW t \in Threads, GatewayStep(t) PROVE RecoverInv'
  <2>1. CASE PutPending(t)
    BY <1>1, <1>2, <1>3, <2>1 DEF PutPending
  <2>2. CASE PublishRequest(t)
    BY <1>1, <2>2, PublishDeletesNothing DEF PublishRequest
  <2>3. CASE ScanPending(t) \/ Reject(t) \/ Admit(t) \/ SubmitFails(t)
    BY <1>4, <2>3 DEF ScanPending, Reject, Admit, SubmitFails
  <2> QED
    BY <1>5, <2>1, <2>2, <2>3 DEF GatewayStep
<1>6. ASSUME ReconcilerStep PROVE RecoverInv'
  <2>1. CASE Resubmit
    BY <1>1, <2>1, PublishDeletesNothing DEF Resubmit
  <2>2. CASE MarkFailed
    <3>1. PICK x : Put(x[1], "failed") /\ UNCHANGED messages
      BY <2>2 DEF MarkFailed
    <3> QED
      BY <1>1, <1>2, <1>3, <3>1
  <2>3. CASE ScanStalePending \/ ScanStaleProcessing \/ PassFails \/ ResubmitBound
    BY <1>4, <2>3 DEF ScanStalePending, ScanStaleProcessing, PassFails, ResubmitBound
  <2> QED
    BY <1>6, <2>1, <2>2, <2>3 DEF ReconcilerStep
<1>7. ASSUME NEW m \in Message, Reappear(m) PROVE RecoverInv'
  <2>1. \A n \in Message : Undeleted(n) => Undeleted(n)'
    BY <1>7 DEF Reappear, Undeleted, TypeInv, TypeOK
  <2> QED
    BY <1>1, <1>7, <2>1 DEF Reappear
<1> QED
  BY <1>4, <1>5, <1>6, <1>7 DEF GrowOld, TimePasses, vars

\* The message of a request shown as PROCESSING was not acknowledged, whatever
\* crashes, shares a receipt or is resubmitted, for any number of workers, as long
\* as no two of them had that request at once (worker.py:543-645).
THEOREM ProcessingKeepsMessage == Spec => []ProcessingKeepsItsMessage
<1>1. TypeInv /\ HandInv /\ HandsApart /\ RecoverInv /\ [Next]_vars => RecoverInv'
  BY HistoryOnlyGrows, WithinReceiveRecovers, ReceiveRecovers, FaultRecovers, OthersRecover
     DEF Next
<1>2. RecoverInv => ProcessingKeepsItsMessage
  <2> SUFFICES ASSUME RecoverInv, NEW r \in Requests, store[r] = "processing",
                      "doubled" \notin history[r]
               PROVE  \E k \in 0..MaxResubmits :
                         messages[<<r, k>>].place \in {"visible", "inflight", "dead"}
    BY DEF ProcessingKeepsItsMessage
  <2>1. PICK m \in Message : RequestOf(m) = r /\ Undeleted(m)
    BY DEF RecoverInv, ProcessingRecovers, Recoverable, Sole
  <2>2. m[2] \in 0..MaxResubmits /\ m = <<r, m[2]>>
    BY <2>1 DEF Message, RequestOf
  <2> QED
    BY <2>1, <2>2 DEF Undeleted
<1> QED
  BY <1>1, <1>2, RecoverInit, TypeInvariant, HandInvariant, HandsApartInvariant, PTL DEF Spec

-----------------------------------------------------------------------------
(* The result of an accepted request that was completed is final.           *)

\* Nothing happened to the request that makes it be processed again: no fault
\* interrupted a worker that had it in hand, no two workers had it at once, and
\* the engine put no copy of its message in the queue.
Plain(r) == history[r] \cap {"dropped", "doubled", "copied"} = {}

\* A request that was answered, and is not to be processed again.
Over(r) == store[r] = "completed" /\ Plain(r)

\* The gateway's message is the only one of a request that the engine did not
\* copy, and the engine copies requests that have a record.
OneCopy ==
    /\ \A m \in Message : messages[m].place # "none" =>
          m[2] = 0 \/ "copied" \in history[RequestOf(m)]
    /\ \A r \in Requests : "copied" \in history[r] => store[r] # "absent"

\* A call that got past admission has an id no other call has, which was not
\* answered with 202 yet, nor used at all before the publish.
InCall(t) == gateway[t].pc \in {"admitted", "published"}

CallsAreFresh ==
    /\ \A s, t \in Threads : InCall(s) /\ InCall(t)
                                 /\ gateway[s].request = gateway[t].request => s = t
    /\ \A t \in Threads : InCall(t) => gateway[t].request \notin accepted
    /\ \A t \in Threads : gateway[t].pc = "admitted" =>
          /\ store[gateway[t].request] = "absent"
          /\ messages[<<gateway[t].request, 0>>].place = "none"
    /\ \A r \in accepted : store[r] # "absent"

\* A worker has a receipt for the last delivery of what it has in hand, and what
\* it still has to deal with was not answered before.
HandIsCurrent(w) ==
    /\ \A m \in Held(worker[w]) :
          /\ messages[m].place # "none"
          /\ Plain(RequestOf(m)) =>
                [message |-> m, nth |-> messages[m].receives] \in worker[w].receipts
    /\ \A m \in Ready(worker[w]) : ~Over(RequestOf(m))

\* The message of a request that is over is gone, or about to go.
OverIsGone ==
    \A r \in Requests : Over(r) =>
        \/ messages[<<r, 0>>].place \in {"deleted", "dead"}
        \/ \E w \in Workers : <<r, 0>> \in worker[w].current

FinalInv ==
    OneCopy /\ CallsAreFresh /\ OverIsGone /\ \A w \in Workers : HandIsCurrent(w)

\* One step's part of AcceptedCompletionIsFinal.
Final == \A r \in accepted : Over(r) => store'[r] = "completed" \/ MarkFailed

\* No step but the engine's Resubmit copies a message.
NothingCopied == \A r \in Requests : "copied" \in history'[r] => "copied" \in history[r]

LEMMA OnlyTheEngineCopies ==
    TypeInv /\ HandInv /\ [Next]_vars => NothingCopied \/ Resubmit
<1> SUFFICES ASSUME TypeInv, HandInv, [Next]_vars, ~Resubmit PROVE NothingCopied
  OBVIOUS
<1>0. history \in [Requests -> SUBSET Event]
  BY DEF TypeInv, TypeOK
<1>1. \A r, E : Record(r, E) /\ "copied" \notin E => NothingCopied
  BY <1>0 DEF Record, NothingCopied
<1>2. UNCHANGED history => NothingCopied
  BY DEF NothingCopied
<1>3. ASSUME NEW t \in Threads, GatewayStep(t) PROVE UNCHANGED history
  BY <1>3 DEF GatewayStep, ScanPending, Reject, Admit, PublishRequest, SubmitFails, PutPending
<1>4. ASSUME NEW w \in Workers, WorkerStep(w), ~Receive(w) PROVE NothingCopied
  BY <1>1, <1>2, <1>4, StepWithinReceive DEF Goes, Marks, Ends, Deletes, Outcome
<1>5. ASSUME NEW w \in Workers, Receive(w) PROVE NothingCopied
  BY <1>0, <1>5 DEF Receive, NothingCopied
<1>6. ASSUME NEW w \in Workers, WorkerFault(w) PROVE NothingCopied
  BY <1>0, <1>6, FaultStep DEF DropInHand, NothingCopied
<1>7. ReconcilerStep => NothingCopied
  BY <1>1, <1>2 DEF ReconcilerStep, ScanStalePending, ScanStaleProcessing, MarkFailed,
                    PassFails, ResubmitBound
<1>8. (\E m \in Message : Reappear(m)) \/ (\E r \in Requests : GrowOld(r)) \/ TimePasses
      \/ UNCHANGED vars => NothingCopied
  BY <1>2 DEF Reappear, GrowOld, TimePasses, vars
<1> QED
  BY <1>2, <1>3, <1>4, <1>5, <1>6, <1>7, <1>8 DEF Next

LEMMA FinalInit == Init => FinalInv
<1> SUFFICES ASSUME Init PROVE FinalInv
  OBVIOUS
<1>1. /\ Idle.todo = {} /\ Idle.batch = {} /\ Idle.live = {}
      /\ Idle.current = {} /\ Idle.receipts = {}
  BY DEF Idle
<1>2. OneCopy
  BY DEF Init, OneCopy
<1>3. CallsAreFresh
  BY DEF Init, CallsAreFresh, InCall, NoCall
<1>4. OverIsGone
  BY DEF Init, OverIsGone, Over
<1>5. \A w \in Workers : HandIsCurrent(w)
  <2> HIDE DEF Idle
  <2> QED
    BY <1>1 DEF Init, HandIsCurrent, Held, Ready
<1> QED
  BY <1>2, <1>3, <1>4, <1>5 DEF FinalInv

\* What is plain, or over by it, was plain before.
LEMMA PlainBefore ==
    ASSUME HistoryGrows, NEW r \in Requests
    PROVE  /\ Plain(r)' => Plain(r)
           /\ Over(r)' /\ store'[r] = store[r] => Over(r)
BY DEF HistoryGrows, Plain, Over

\* Nothing is published but copies, and records appear for published requests only.
LEMMA CallsStayFresh ==
    ASSUME TypeInv, OneCopy, CallsAreFresh, HistoryGrows, UNCHANGED <<gateway, accepted>>,
           \A r \in Requests :
              "copied" \in history'[r] => "copied" \in history[r] \/ store[r] # "absent",
           \A m \in Message : messages[m].place = "none" =>
              \/ messages'[m].place = "none"
              \/ m[2] # 0 /\ "copied" \in history'[RequestOf(m)],
           \A r \in Requests :
              \/ store'[r] = store[r]
              \/ /\ store'[r] # "absent"
                 /\ messages[<<r, 0>>].place # "none" \/ store[r] # "absent"
    PROVE  OneCopy' /\ CallsAreFresh'
<1>1. OneCopy'
  <2>1. ASSUME NEW m \in Message, messages'[m].place # "none"
        PROVE  m[2] = 0 \/ "copied" \in history'[RequestOf(m)]
    <3>1. RequestOf(m) \in Requests
      BY MessagesOfRequests
    <3> QED
      BY <2>1, <3>1 DEF OneCopy, HistoryGrows
  <2>2. \A r \in Requests : "copied" \in history'[r] => store'[r] # "absent"
    BY DEF OneCopy
  <2> QED
    BY <2>1, <2>2 DEF OneCopy, RequestOf
<1>2. \A s, t \in Threads : InCall(s)' /\ InCall(t)'
                              /\ gateway'[s].request = gateway'[t].request => s = t
  BY DEF CallsAreFresh, InCall
<1>3. \A t \in Threads : InCall(t)' => gateway'[t].request \notin accepted'
  BY DEF CallsAreFresh, InCall
<1>4. ASSUME NEW t \in Threads, gateway'[t].pc = "admitted"
      PROVE  /\ store'[gateway'[t].request] = "absent"
             /\ messages'[<<gateway'[t].request, 0>>].place = "none"
  <2> DEFINE r == gateway[t].request
  <2>1. gateway'[t] = gateway[t] /\ gateway[t].pc = "admitted"
    BY <1>4
  <2>2. r \in Requests /\ store[r] = "absent" /\ messages[<<r, 0>>].place = "none"
    BY <2>1 DEF CallsAreFresh, TypeInv, CallsHaveRequests
  <2>3. <<r, 0>> \in Message /\ <<r, 0>>[2] = 0
    BY <2>2, MessagesOfRequests
  <2> HIDE DEF r
  <2>4. store'[r] = "absent" /\ messages'[<<r, 0>>].place = "none"
    BY <2>2, <2>3
  <2> QED
    BY <2>1, <2>4 DEF r
<1>5. \A r \in accepted' : store'[r] # "absent"
  BY DEF CallsAreFresh, TypeInv, TypeOK
<1> QED
  BY <1>1, <1>2, <1>3, <1>4, <1>5 DEF CallsAreFresh

\* A message in hand was published, and a plain one is the gateway's.
LEMMA HeldAreFirst ==
    ASSUME TypeInv, FinalInv, NEW w \in Workers, NEW m \in Held(worker[w])
    PROVE  /\ m \in Message /\ RequestOf(m) \in Requests
           /\ messages[m].place # "none"
           /\ \/ messages[<<RequestOf(m), 0>>].place # "none"
              \/ store[RequestOf(m)] # "absent"
           /\ Plain(RequestOf(m)) =>
                 /\ m = <<RequestOf(m), 0>>
                 /\ [message |-> m, nth |-> messages[m].receives] \in worker[w].receipts
<1>1. m \in Message /\ RequestOf(m) \in Requests
  BY HeldAreMessages, MessagesOfRequests
<1>2. /\ messages[m].place # "none"
      /\ Plain(RequestOf(m)) =>
            [message |-> m, nth |-> messages[m].receives] \in worker[w].receipts
  BY DEF FinalInv, HandIsCurrent
<1>3. m[2] = 0 \/ "copied" \in history[RequestOf(m)]
  BY <1>1, <1>2 DEF FinalInv, OneCopy
<1>4. m[2] = 0 => m = <<RequestOf(m), 0>>
  BY <1>1 DEF Message, RequestOf
<1>5. "copied" \in history[RequestOf(m)] => store[RequestOf(m)] # "absent"
  BY <1>1 DEF FinalInv, OneCopy
<1> QED
  BY <1>1, <1>2, <1>3, <1>4, <1>5 DEF Plain

\* The step of one worker, by what it leaves of the other workers' hands.
LEMMA OnlyHandFinal ==
    ASSUME TypeInv, FinalInv, NEW w \in Workers, NEW next,
           worker' = [worker EXCEPT ![w] = next], HistoryGrows,
           OneCopy', CallsAreFresh',
           \A m \in Held(next) :
              /\ messages'[m].place # "none"
              /\ Plain(RequestOf(m))' =>
                    [message |-> m, nth |-> messages'[m].receives] \in next.receipts,
           \A m \in Ready(next) : ~Over(RequestOf(m))',
           \A r \in Requests : Over(r)' =>
              \/ messages'[<<r, 0>>].place \in {"deleted", "dead"}
              \/ <<r, 0>> \in next.current
              \/ \E v \in Workers \ {w} : <<r, 0>> \in worker[v].current,
           \A v \in Workers \ {w} : \A m \in Held(worker[v]) :
              /\ messages'[m].place # "none"
              /\ Plain(RequestOf(m))' =>
                    /\ messages'[m].receives = messages[m].receives
                    /\ Over(RequestOf(m))' => Over(RequestOf(m))
    PROVE  FinalInv'
<1>1. worker'[w] = next /\ \A v \in Workers : v # w => worker'[v] = worker[v]
  BY DEF TypeInv, TypeOK
<1>2. HandIsCurrent(w)'
  BY <1>1 DEF HandIsCurrent, RequestOf, Ready, Held, Plain, Over
<1>3. ASSUME NEW v \in Workers, v # w PROVE HandIsCurrent(v)'
  <2>1. ASSUME NEW m \in Held(worker[v])
        PROVE  /\ messages'[m].place # "none"
               /\ Plain(RequestOf(m))' =>
                     [message |-> m, nth |-> messages'[m].receives] \in worker[v].receipts
    <3>1. RequestOf(m) \in Requests
      BY HeldAreFirst
    <3>2. Plain(RequestOf(m))' => Plain(RequestOf(m))
      BY <3>1, PlainBefore DEF RequestOf, Plain
    <3> QED
      BY <1>3, <3>2, HeldAreFirst
  <2>2. ASSUME NEW m \in Ready(worker[v]) PROVE ~Over(RequestOf(m))'
    <3>1. m \in Held(worker[v]) /\ ~Over(RequestOf(m))
      BY DEF Held, FinalInv, HandIsCurrent
    <3>2. Over(RequestOf(m))' => Plain(RequestOf(m))'
      BY DEF Over, Plain
    <3> QED
      BY <1>3, <3>1, <3>2
  <2> QED
    BY <1>1, <1>3, <2>1, <2>2 DEF HandIsCurrent, RequestOf, Ready, Held, Plain, Over
<1>4. OverIsGone'
  BY <1>1 DEF OverIsGone
<1> QED
  BY <1>2, <1>3, <1>4 DEF FinalInv

LEMMA WritesFinal ==
    ASSUME TypeInv, FinalInv, HandsApart, HistoryGrows, NothingCopied,
           NEW w \in Workers, NEW next,
           worker' = [worker EXCEPT ![w] = next], Follows(worker[w], next),
           NEW m \in Ready(worker[w]), NEW s \in {"processing", "completed", "failed"},
           Put(RequestOf(m), s),
           UNCHANGED <<messages, gateway, accepted>>,
           worker[w].current = {}, next.current \subseteq {m},
           s = "completed" => next.current = {m} /\ m \notin Ready(next)
    PROVE  FinalInv' /\ Final
<1> DEFINE me == worker[w]
           q == RequestOf(m)
<1>0. /\ m \in Held(me) /\ ~Over(q)
      /\ Ready(next) \subseteq Ready(me) /\ Ready(me) \subseteq Held(me)
      /\ Held(next) \subseteq Held(me)
      /\ next.receipts = me.receipts \/ Held(next) = {}
  BY DEF Follows, Held, FinalInv, HandIsCurrent
<1>1. /\ q \in Requests /\ messages[m].place # "none"
      /\ messages[<<q, 0>>].place # "none" \/ store[q] # "absent"
      /\ Plain(q) => m = <<q, 0>>
  BY <1>0, HeldAreFirst
<1>2. /\ store'[q] = s
      /\ \A r \in Requests : r # q => store'[r] = store[r]
  BY <1>1 DEF Put, TypeInv, TypeOK
<1>3. \A r \in Requests : r # q /\ Over(r)' => Over(r)
  BY <1>2, PlainBefore
<1>4. Over(q)' => s = "completed" /\ Plain(q)
  <2>1. Over(q)' => s = "completed" /\ Plain(q)'
    BY <1>2 DEF Over
  <2>2. Plain(q)' => Plain(q)
    BY <1>1, PlainBefore
  <2> QED
    BY <2>1, <2>2
<1>5. Final
  <2> SUFFICES ASSUME NEW r \in accepted, Over(r) PROVE store'[r] = "completed"
    BY DEF Final
  <2>1. r \in Requests /\ r # q
    BY <1>0 DEF TypeInv, TypeOK
  <2> QED
    BY <1>2, <2>1 DEF Over
<1>6. OneCopy' /\ CallsAreFresh'
  <2>1. \A r \in Requests :
              \/ store'[r] = store[r]
              \/ /\ store'[r] # "absent"
                 /\ messages[<<r, 0>>].place # "none" \/ store[r] # "absent"
    BY <1>1, <1>2
  <2>2. OneCopy /\ CallsAreFresh
    BY DEF FinalInv
  <2>3. UNCHANGED <<gateway, accepted, messages>>
    OBVIOUS
  <2> QED
    BY ONLY TypeInv, HistoryGrows, NothingCopied, <2>1, <2>2, <2>3, CallsStayFresh DEF NothingCopied
<1>7. ASSUME NEW n \in Held(next)
      PROVE  /\ messages'[n].place # "none"
             /\ Plain(RequestOf(n))' =>
                   [message |-> n, nth |-> messages'[n].receives] \in next.receipts
  <2>1. n \in Held(me) /\ next.receipts = me.receipts
    BY <1>0, <1>7
  <2>2. RequestOf(n) \in Requests
    BY <2>1, HeldAreFirst
  <2>3. Plain(RequestOf(n))' => Plain(RequestOf(n))
    BY <2>2, PlainBefore DEF RequestOf, Plain
  <2> QED
    BY <2>1, <2>3, HeldAreFirst
<1>8. ASSUME NEW n \in Ready(next) PROVE ~Over(RequestOf(n))'
  <2>1. n \in Held(me) /\ n \in Ready(me)
    BY <1>0, <1>8
  <2>2. RequestOf(n) \in Requests /\ (Plain(RequestOf(n)) => n = <<RequestOf(n), 0>>)
    BY <2>1, HeldAreFirst
  <2>3. ~Over(RequestOf(n))
    BY <2>1 DEF FinalInv, HandIsCurrent
  <2>4. CASE RequestOf(n) = q
    <3>1. Plain(q) => n = m
      BY <1>1, <2>2, <2>4
    <3>2. ~Over(q)'
      BY <1>4, <1>8, <3>1
    <3>3. Over(RequestOf(n))' = Over(q)'
      BY <2>4 DEF RequestOf, Over, Plain
    <3> QED
      BY <3>2, <3>3
  <2>5. CASE RequestOf(n) # q
    <3> DEFINE p == RequestOf(n)
    <3>1. p \in Requests /\ p # q /\ ~Over(p)
      BY <2>2, <2>3, <2>5
    <3>2. Over(RequestOf(n))' = Over(p)'
      BY DEF RequestOf, Over, Plain
    <3> HIDE DEF p
    <3>3. ~Over(p)'
      BY <1>3, <3>1
    <3> QED
      BY <3>2, <3>3
  <2> QED
    BY <2>4, <2>5
<1>9. ASSUME NEW r \in Requests, Over(r)'
      PROVE  \/ messages'[<<r, 0>>].place \in {"deleted", "dead"}
             \/ <<r, 0>> \in next.current
             \/ \E v \in Workers \ {w} : <<r, 0>> \in worker[v].current
  <2>1. CASE r = q
    BY <1>1, <1>4, <1>9, <2>1
  <2>2. CASE r # q
    <3>1. Over(r)
      BY <1>3, <1>9, <2>2
    <3> QED
      BY <3>1 DEF FinalInv, OverIsGone
  <2> QED
    BY <2>1, <2>2
<1>10. ASSUME NEW v \in Workers \ {w}, NEW n \in Held(worker[v])
       PROVE  /\ messages'[n].place # "none"
              /\ Plain(RequestOf(n))' =>
                    /\ messages'[n].receives = messages[n].receives
                    /\ Over(RequestOf(n))' => Over(RequestOf(n))
  <2> DEFINE p == RequestOf(n)
  <2>1. p \in Requests /\ messages[n].place # "none"
    BY HeldAreFirst
  <2>2. p = q => "doubled" \in history'[p]
    BY <1>0, <2>1 DEF HandsApart, HistoryGrows
  <2>3. p = q => ~Plain(p)'
    BY <2>2 DEF Plain
  <2>4. Plain(RequestOf(n))' = Plain(p)' /\ Over(RequestOf(n))' = Over(p)'
    BY DEF RequestOf, Over, Plain
  <2> HIDE DEF p
  <2>5. Plain(p)' => (Over(p)' => Over(p))
    BY <1>3, <2>1, <2>3
  <2> QED
    BY <2>1, <2>4, <2>5 DEF p
<1> HIDE DEF me, q
<1> QED
  BY <1>5, <1>6, <1>7, <1>8, <1>9, <1>10, OnlyHandFinal

\* A step that changes no record, no history and no message but by a delete.
LEMMA GoesFinal ==
    ASSUME TypeInv, FinalInv, NEW w \in Workers, NEW next,
           worker' = [worker EXCEPT ![w] = next], Follows(worker[w], next),
           Goes(w, next), UNCHANGED <<gateway, accepted>>
    PROVE  FinalInv' /\ Final
<1> DEFINE me == worker[w]
<1>0. /\ Ready(next) \subseteq Ready(me) /\ Ready(me) \subseteq Held(me)
      /\ Held(next) \subseteq Held(me)
      /\ next.receipts = me.receipts \/ Held(next) = {}
      /\ me.current = {} /\ next.current = {}
      /\ UNCHANGED <<store, messages, history>>
  BY DEF Follows, Held, Goes
<1>1. \A r : Over(r)' = Over(r) /\ Plain(r)' = Plain(r)
  BY <1>0 DEF Over, Plain
<1>2. Final /\ HistoryGrows
  BY <1>0 DEF Final, Over, HistoryGrows
<1>3. OneCopy' /\ CallsAreFresh'
  BY <1>0 DEF FinalInv, OneCopy, CallsAreFresh, InCall
<1>4. ASSUME NEW n \in Held(next)
      PROVE  /\ messages'[n].place # "none"
             /\ Plain(RequestOf(n))' =>
                   [message |-> n, nth |-> messages'[n].receives] \in next.receipts
  <2>1. n \in Held(me) /\ next.receipts = me.receipts
    BY <1>0, <1>4
  <2>2. Plain(RequestOf(n))' = Plain(RequestOf(n))
    BY <1>0 DEF RequestOf, Plain
  <2> QED
    BY <1>0, <2>1, <2>2, HeldAreFirst
<1>5. ASSUME NEW n \in Ready(next) PROVE ~Over(RequestOf(n))'
  <2>1. ~Over(RequestOf(n))
    BY <1>0, <1>5 DEF FinalInv, HandIsCurrent
  <2> QED
    BY <1>0, <2>1 DEF RequestOf, Over, Plain
<1>6. ASSUME NEW r \in Requests, Over(r)'
      PROVE  \/ messages'[<<r, 0>>].place \in {"deleted", "dead"}
             \/ \E v \in Workers \ {w} : <<r, 0>> \in worker[v].current
  BY <1>0, <1>1, <1>6 DEF FinalInv, OverIsGone
<1>7. ASSUME NEW v \in Workers \ {w}, NEW n \in Held(worker[v])
      PROVE  /\ messages'[n].place # "none"
             /\ messages'[n].receives = messages[n].receives
             /\ Over(RequestOf(n))' => Over(RequestOf(n))
  BY <1>0, HeldAreFirst DEF RequestOf, Over, Plain
<1> HIDE DEF me
<1> QED
  BY <1>2, <1>3, <1>4, <1>5, <1>6, <1>7, OnlyHandFinal

\* The receipt of a plain request is that of the last delivery, so the delete
\* finds its message, unless it is in the dead-letter queue by now.
LEMMA DeletesFinal ==
    ASSUME TypeInv, HandInv, FinalInv, NEW w \in Workers, NEW next,
           worker' = [worker EXCEPT ![w] = next], Follows(worker[w], next),
           NEW m \in worker[w].current, Deletes(w, next, m),
           UNCHANGED <<gateway, accepted>>
    PROVE  FinalInv' /\ Final
<1> DEFINE me == worker[w]
           q == RequestOf(m)
<1>0. /\ Tidy(me) /\ m \in Held(me) /\ me.current = {m}
      /\ Ready(next) \subseteq Ready(me) /\ Ready(me) \subseteq Held(me)
      /\ Held(next) \subseteq Held(me)
      /\ next.receipts = me.receipts \/ Held(next) = {}
      /\ next.current = {}
      /\ UNCHANGED <<store, history>>
  BY DEF Follows, Held, Deletes, HandInv, Tidy
<1>1. /\ q \in Requests /\ m \in Message /\ messages[m].place # "none"
      /\ Plain(q) => [message |-> m, nth |-> messages[m].receives] \in me.receipts
  BY <1>0, HeldAreFirst
<1>2. PICK x \in worker[w].receipts :
           /\ RequestOf(x.message) = q
           /\ LET n == x.message
                  live == messages[n].place \in {"visible", "inflight"}
              IN  \/ /\ live
                     /\ messages' = [messages EXCEPT ![n].place = "deleted"]
                  \/ /\ ~live \/ messages[n].receives # x.nth
                     /\ UNCHANGED messages
  BY DEF Deletes, DeleteByReceipt
<1>3. /\ messages \in [Message -> [place : Place, receives : Nat]]
      /\ x.message \in Message
  BY <1>2 DEF TypeInv, TypeOK
<1>4. \A n \in Message :
         /\ messages'[n].receives = messages[n].receives
         /\ \/ messages'[n].place = messages[n].place
            \/ messages[n].place # "none" /\ messages'[n].place = "deleted"
  BY <1>2, <1>3
<1>5. Plain(q) => messages'[m].place \in {"deleted", "dead"}
  <2> SUFFICES ASSUME Plain(q) PROVE messages'[m].place \in {"deleted", "dead"}
    OBVIOUS
  <2>1. x = [message |-> m, nth |-> messages[m].receives]
    <3>1. RequestOf([message |-> m, nth |-> messages[m].receives].message) = q
      OBVIOUS
    <3> QED
      BY <1>0, <1>1, <1>2, <3>1 DEF Tidy, OneReceipt
  <2>2. x.message = m /\ x.nth = messages[m].receives
    BY <2>1
  <2>3. \/ messages' = [messages EXCEPT ![m].place = "deleted"]
        \/ messages[m].place \notin {"visible", "inflight"} /\ UNCHANGED messages
    BY <1>2, <2>2
  <2>4. CASE messages' = [messages EXCEPT ![m].place = "deleted"]
    BY <1>1, <1>3, <2>4
  <2>5. CASE messages[m].place \notin {"visible", "inflight"} /\ UNCHANGED messages
    BY <1>1, <1>3, <2>5 DEF Place
  <2> QED
    BY <2>3, <2>4, <2>5
<1>6. Final /\ HistoryGrows
  BY <1>0 DEF Final, Over, HistoryGrows
<1>7. OneCopy' /\ CallsAreFresh'
  <2>1. \A n \in Message : messages[n].place = "none" => messages'[n].place = "none"
    BY <1>4
  <2>2. OneCopy /\ CallsAreFresh
    BY DEF FinalInv
  <2> QED
    BY ONLY TypeInv, UNCHANGED <<gateway, accepted>>, <1>0, <1>6, <2>1, <2>2, CallsStayFresh
<1>8. ASSUME NEW n \in Held(next)
      PROVE  /\ messages'[n].place # "none"
             /\ Plain(RequestOf(n))' =>
                   [message |-> n, nth |-> messages'[n].receives] \in next.receipts
  <2>1. n \in Held(me) /\ next.receipts = me.receipts
    BY <1>0, <1>8
  <2>2. Plain(RequestOf(n))' = Plain(RequestOf(n))
    BY <1>0 DEF RequestOf, Plain
  <2>3. /\ n \in Message /\ messages[n].place # "none"
        /\ Plain(RequestOf(n)) =>
              [message |-> n, nth |-> messages[n].receives] \in me.receipts
    BY <2>1, HeldAreFirst
  <2> QED
    BY <1>4, <2>1, <2>2, <2>3
<1>9. ASSUME NEW n \in Ready(next) PROVE ~Over(RequestOf(n))'
  <2>1. ~Over(RequestOf(n))
    BY <1>0, <1>9 DEF FinalInv, HandIsCurrent
  <2> QED
    BY <1>0, <2>1 DEF RequestOf, Over, Plain
<1>10. ASSUME NEW r \in Requests, Over(r)'
       PROVE  \/ messages'[<<r, 0>>].place \in {"deleted", "dead"}
              \/ \E v \in Workers \ {w} : <<r, 0>> \in worker[v].current
  <2>1. Over(r) /\ Plain(r)
    BY <1>0, <1>10 DEF Over, Plain
  <2>2. CASE <<r, 0>> = m
    <3>1. q = r
      BY <2>2 DEF RequestOf
    <3> QED
      BY <1>5, <2>1, <2>2, <3>1
  <2>3. CASE messages[<<r, 0>>].place \in {"deleted", "dead"}
    <3>1. <<r, 0>> \in Message
      BY MessagesOfRequests
    <3> QED
      BY <1>4, <2>3, <3>1
  <2>4. CASE <<r, 0>> # m /\ messages[<<r, 0>>].place \notin {"deleted", "dead"}
    BY <1>0, <2>1, <2>4 DEF FinalInv, OverIsGone
  <2> QED
    BY <2>2, <2>3, <2>4
<1>11. ASSUME NEW v \in Workers \ {w}, NEW n \in Held(worker[v])
       PROVE  /\ messages'[n].place # "none"
              /\ messages'[n].receives = messages[n].receives
              /\ Over(RequestOf(n))' => Over(RequestOf(n))
  <2>1. n \in Message /\ messages[n].place # "none"
    BY HeldAreFirst
  <2> QED
    BY <1>0, <1>4, <2>1 DEF RequestOf, Over, Plain
<1> HIDE DEF me, q
<1> QED
  BY <1>6, <1>7, <1>8, <1>9, <1>10, <1>11, OnlyHandFinal

LEMMA WithinReceiveFinal ==
    ASSUME TypeInv, HandInv, FinalInv, HandsApart, HistoryGrows, NothingCopied,
           NEW w \in Workers, WorkerStep(w), ~Receive(w)
    PROVE  FinalInv' /\ Final
<1>1. PICK next :
              /\ worker' = [worker EXCEPT ![w] = next]
              /\ Follows(worker[w], next)
              /\ UNCHANGED <<accepted, gateway, reconciler>>
              /\ \/ Goes(w, next)
                 \/ \E m \in worker[w].batch : Marks(w, next, m) \/ Ends(w, next, m)
                 \/ \E m \in worker[w].current : Deletes(w, next, m)
  BY StepWithinReceive
<1>2. CASE Goes(w, next)
  BY <1>1, <1>2, GoesFinal
<1>3. ASSUME NEW m \in worker[w].batch, Marks(w, next, m) PROVE FinalInv' /\ Final
  <2>1. /\ Put(RequestOf(m), "processing") /\ UNCHANGED <<messages, history>>
        /\ worker[w].current = {} /\ next.current = {}
    BY <1>3 DEF Marks
  <2>2. m \in Ready(worker[w])
    BY <1>3 DEF Ready
  <2> QED
    BY <1>1, <2>1, <2>2, WritesFinal
<1>4. ASSUME NEW m \in worker[w].batch, Ends(w, next, m) PROVE FinalInv' /\ Final
  <2>1. PICK s \in {"completed", "failed"} :
           Put(RequestOf(m), s) /\ (s = "completed" => next.current = {m})
    BY <1>4 DEF Ends
  <2>2. /\ UNCHANGED messages /\ worker[w].current = {}
        /\ next.current \subseteq {m} /\ m \notin Ready(next)
    BY <1>4 DEF Ends
  <2>3. m \in Ready(worker[w])
    BY <1>4 DEF Ready
  <2>6. s = "completed" => next.current = {m} /\ m \notin Ready(next)
    BY <2>1, <2>2
  <2>7. UNCHANGED <<messages, gateway, accepted>>
    BY <1>1, <2>2
  <2>8. Put(RequestOf(m), s)
    BY <2>1
  <2>9. CASE s = "completed"
    <3>1. /\ Put(RequestOf(m), "completed")
          /\ "completed" = "completed" => next.current = {m} /\ m \notin Ready(next)
      BY <2>6, <2>8, <2>9
    <3> QED
      BY <1>1, <2>2, <2>3, <2>7, <3>1, WritesFinal
  <2>10. CASE s = "failed"
    <3>1. Put(RequestOf(m), "failed")
      BY <2>8, <2>10
    <3> QED
      BY <1>1, <2>2, <2>3, <2>7, <3>1, WritesFinal
  <2> QED
    BY <2>9, <2>10
<1>5. ASSUME NEW m \in worker[w].current, Deletes(w, next, m) PROVE FinalInv' /\ Final
  BY <1>1, <1>5, DeletesFinal
<1> QED
  BY <1>1, <1>2, <1>3, <1>4, <1>5

\* What a worker receives is not over: its message would be gone, or another
\* worker would have it in hand.
LEMMA ReceiveFinal ==
    ASSUME TypeInv, HandInv, FinalInv, HistoryGrows, NothingCopied,
           NEW w \in Workers, Receive(w)
    PROVE  FinalInv' /\ Final
<1>0. PICK S \in SUBSET Visible, R \in SUBSET [message : Message, nth : Nat] :
          Delivered(S) /\ OneReceiptEach(S, R) /\ TakesUp(w, S, R) /\ Doubles(w, S)
  BY ReceiveStep
<1>1. /\ \A m \in Message :
            /\ m \in S => messages'[m] = [place |-> "inflight",
                                          receives |-> messages[m].receives + 1]
            /\ m \notin S => messages'[m] = messages[m]
      /\ \A x \in R : \E m \in S :
            x = [message |-> m, nth |-> messages[m].receives + 1]
      /\ \A r \in {RequestOf(m) : m \in S} :
            \E x : {y \in R : RequestOf(y.message) = r} = {x}
  BY <1>0 DEF Delivered, OneReceiptEach
<1>2. PICK next \in Receiving :
                /\ worker' = [worker EXCEPT ![w] = next]
                /\ next.todo = S /\ next.batch = {} /\ next.live = {}
                /\ next.current = {} /\ next.receipts = R
  BY <1>0 DEF TakesUp
<1>3. UNCHANGED <<store, accepted, gateway>> /\ worker[w].pc = "idle"
  BY DEF Receive
<1>4. worker[w].current = {}
  BY <1>3 DEF HandInv, Tidy
<1>5. \A m \in S : m \in Message /\ messages[m].place = "visible"
                      /\ RequestOf(m) \in Requests
                      /\ (Plain(RequestOf(m)) => m = <<RequestOf(m), 0>>)
  <2> SUFFICES ASSUME NEW m \in S
               PROVE  m \in Message /\ messages[m].place = "visible"
                      /\ RequestOf(m) \in Requests
                      /\ (Plain(RequestOf(m)) => m = <<RequestOf(m), 0>>)
    OBVIOUS
  <2>1. m \in Message /\ messages[m].place = "visible" /\ RequestOf(m) \in Requests
    BY MessagesOfRequests DEF Visible
  <2>2. m[2] = 0 \/ "copied" \in history[RequestOf(m)]
    BY <2>1 DEF FinalInv, OneCopy
  <2>3. m[2] = 0 => m = <<RequestOf(m), 0>>
    BY <2>1 DEF Message, RequestOf
  <2> QED
    BY <2>1, <2>2, <2>3 DEF Plain
<1>6. Ready(next) = S
  BY <1>2 DEF Ready
<1>7. Held(next) = S
  BY <1>2, <1>6 DEF Held
<1>8. \A r \in Requests : (Over(r)' => Over(r)) /\ (Plain(r)' => Plain(r))
  BY <1>3, PlainBefore
<1>9. Final
  BY <1>3 DEF Final, Over
<1>10. OneCopy' /\ CallsAreFresh'
  <2>1. \A n \in Message : messages[n].place = "none" => messages'[n].place = "none"
    BY <1>1, <1>5
  <2>2. OneCopy /\ CallsAreFresh
    BY DEF FinalInv
  <2> QED
    BY <1>3, <2>1, <2>2, CallsStayFresh DEF NothingCopied
<1>11. ASSUME NEW m \in S
       PROVE  /\ messages'[m].place # "none"
              /\ Plain(RequestOf(m))' =>
                    [message |-> m, nth |-> messages'[m].receives] \in R
  <2>1. messages'[m] = [place |-> "inflight", receives |-> messages[m].receives + 1]
    BY <1>1, <1>5, <1>11
  <2>2. messages'[m].place = "inflight" /\ messages'[m].receives = messages[m].receives + 1
    BY <2>1
  <2>3. RequestOf(m) \in {RequestOf(n) : n \in S}
    BY <1>11
  <2>4. PICK x : {y \in R : RequestOf(y.message) = RequestOf(m)} = {x}
    BY <1>1, <2>3
  <2>5. x \in R /\ RequestOf(x.message) = RequestOf(m)
    BY <2>4
  <2>6. PICK n \in S : x = [message |-> n, nth |-> messages[n].receives + 1]
    BY <1>1, <2>5
  <2>7. x.message = n
    BY <2>6
  <2>8. Plain(RequestOf(m))' => n = m
    <3>1. Plain(RequestOf(m))' => Plain(RequestOf(m))
      BY <1>5, <1>8 DEF RequestOf, Plain
    <3> QED
      BY <1>5, <1>11, <2>5, <2>7, <3>1
  <2> QED
    BY <2>2, <2>5, <2>6, <2>8
<1>12. \A m \in Held(next) :
          /\ messages'[m].place # "none"
          /\ Plain(RequestOf(m))' =>
                [message |-> m, nth |-> messages'[m].receives] \in next.receipts
  BY <1>2, <1>7, <1>11
<1>13. ASSUME NEW m \in Ready(next) PROVE ~Over(RequestOf(m))'
  <2> DEFINE r == RequestOf(m)
  <2>0. Over(RequestOf(m))' = Over(r)'
    BY DEF RequestOf, Over, Plain
  <2>1. /\ r \in Requests /\ messages[m].place = "visible" /\ m \in S
        /\ Plain(r) => m = <<r, 0>>
    BY <1>5, <1>6, <1>13
  <2>2. ASSUME Over(r)' PROVE FALSE
    <3>1. Over(r) /\ Plain(r) /\ m = <<r, 0>>
      BY <1>8, <2>1, <2>2 DEF Over
    <3>2. PICK v \in Workers : m \in worker[v].current
      BY <2>1, <3>1 DEF FinalInv, OverIsGone
    <3>3. v # w /\ m \in Held(worker[v])
      BY <1>4, <3>2 DEF Held
    <3>4. "doubled" \in history'[r]
      BY <1>0, <2>1, <3>3 DEF Doubles
    <3> QED
      BY <2>2, <3>4 DEF Over, Plain
  <2> HIDE DEF r
  <2> QED
    BY <2>0, <2>2
<1>14. ASSUME NEW r \in Requests, Over(r)'
       PROVE  \/ messages'[<<r, 0>>].place \in {"deleted", "dead"}
              \/ \E v \in Workers \ {w} : <<r, 0>> \in worker[v].current
  <2>1. \/ messages[<<r, 0>>].place \in {"deleted", "dead"}
        \/ \E v \in Workers : <<r, 0>> \in worker[v].current
    BY <1>8, <1>14 DEF FinalInv, OverIsGone
  <2>2. CASE messages[<<r, 0>>].place \in {"deleted", "dead"}
    <3>1. <<r, 0>> \in Message /\ <<r, 0>> \notin S
      BY <1>5, <2>2, MessagesOfRequests
    <3> QED
      BY <1>1, <2>2, <3>1
  <2> QED
    BY <1>4, <2>1, <2>2
<1>15. ASSUME NEW v \in Workers \ {w}, NEW n \in Held(worker[v])
       PROVE  /\ messages'[n].place # "none"
              /\ Plain(RequestOf(n))' =>
                    /\ messages'[n].receives = messages[n].receives
                    /\ Over(RequestOf(n))' => Over(RequestOf(n))
  <2>1. n \in Message /\ RequestOf(n) \in Requests /\ messages[n].place # "none"
    BY HeldAreFirst
  <2>2. Over(RequestOf(n))' => Over(RequestOf(n))
    BY <1>8, <2>1 DEF RequestOf, Over, Plain
  <2>3. CASE n \in S
    <3>1. "doubled" \in history'[RequestOf(n)]
      BY <1>0, <2>3 DEF Doubles
    <3> QED
      BY <1>11, <2>3, <3>1 DEF Plain, RequestOf
  <2>4. CASE n \notin S
    BY <1>1, <2>1, <2>2, <2>4
  <2> QED
    BY <2>3, <2>4
<1> QED
  BY <1>2, <1>9, <1>10, <1>12, <1>13, <1>14, <1>15, OnlyHandFinal

\* A fault marks what the worker had in hand as dropped.
LEMMA FaultFinal ==
    ASSUME TypeInv, FinalInv, HistoryGrows, NothingCopied, NEW w \in Workers, WorkerFault(w)
    PROVE  FinalInv' /\ Final
<1>1. /\ worker' = [worker EXCEPT ![w] = Idle]
      /\ DropInHand(w)
      /\ UNCHANGED <<store, messages, accepted, gateway>>
  BY FaultStep
<1>2. Idle.todo = {} /\ Idle.batch = {} /\ Idle.live = {} /\ Idle.current = {}
  BY DEF Idle
<1> HIDE DEF Idle
<1>3. Ready(Idle) = {} /\ Held(Idle) = {}
  BY <1>2 DEF Ready, Held
<1>4. Final
  BY <1>1 DEF Final, Over
<1>5. OneCopy' /\ CallsAreFresh'
  <2>1. OneCopy /\ CallsAreFresh
    BY DEF FinalInv
  <2> QED
    BY <1>1, <2>1, CallsStayFresh DEF NothingCopied
<1>6. ASSUME NEW r \in Requests, Over(r)'
      PROVE  \/ messages'[<<r, 0>>].place \in {"deleted", "dead"}
             \/ \E v \in Workers \ {w} : <<r, 0>> \in worker[v].current
  <2>1. Over(r)
    BY <1>1, <1>6, PlainBefore
  <2>2. r \notin InHand(worker[w])
    BY <1>1, <1>6 DEF Over, Plain, DropInHand
  <2>3. <<r, 0>> \notin worker[w].current
    BY <2>2 DEF InHand, RequestOf
  <2> QED
    BY <1>1, <2>1, <2>3 DEF FinalInv, OverIsGone
<1>7. ASSUME NEW v \in Workers \ {w}, NEW n \in Held(worker[v])
      PROVE  /\ messages'[n].place # "none"
             /\ messages'[n].receives = messages[n].receives
             /\ Over(RequestOf(n))' => Over(RequestOf(n))
  <2>1. RequestOf(n) \in Requests /\ messages[n].place # "none"
    BY HeldAreFirst
  <2> QED
    BY <1>1, <2>1, PlainBefore DEF RequestOf, Over, Plain
<1> QED
  BY <1>1, <1>2, <1>3, <1>4, <1>5, <1>6, <1>7, OnlyHandFinal

\* The gateway: a new id, its publish, its PENDING record and its 202.
LEMMA GatewayFinal ==
    ASSUME TypeInv, FinalInv, NEW t \in Threads, GatewayStep(t)
    PROVE  FinalInv' /\ Final
<1> USE DEF TypeInv, TypeOK, CallsHaveRequests
<1>0. /\ OneCopy /\ CallsAreFresh /\ OverIsGone
      /\ \A w \in Workers : HandIsCurrent(w)
  BY DEF FinalInv
<1>1. UNCHANGED <<worker, history>>
  BY DEF GatewayStep, ScanPending, Reject, Admit, PublishRequest, SubmitFails, PutPending
<1>2. ASSUME UNCHANGED <<store, messages>>, CallsAreFresh' PROVE FinalInv' /\ Final
  <2>1. OneCopy' /\ OverIsGone' /\ Final
    BY <1>0, <1>1, <1>2 DEF OneCopy, OverIsGone, Over, Plain, Final
  <2>2. \A w \in Workers : HandIsCurrent(w)'
    BY <1>0, <1>1, <1>2, SMTT(30) DEF HandIsCurrent, Over, Plain, RequestOf, Held, Ready
  <2> QED
    BY <1>2, <2>1, <2>2 DEF FinalInv
<1>3. CASE ScanPending(t) \/ Reject(t) \/ SubmitFails(t)
  <2>1. \A s \in Threads : gateway'[s] = gateway[s] \/ gateway'[s].pc \in {"idle", "scanned"}
    <3>1. PICK call : gateway' = [gateway EXCEPT ![t] = call] /\ call.pc \in {"idle", "scanned"}
      <4>1. NoCall.pc = "idle"
            /\ [NoCall EXCEPT !.pc = "scanned",
                              !.pending = Cardinality(With("pending"))].pc = "scanned"
        BY DEF NoCall
      <4>2. CASE ScanPending(t)
        BY <4>1, <4>2 DEF ScanPending
      <4>3. CASE Reject(t)
        BY <4>1, <4>3 DEF Reject
      <4>4. CASE SubmitFails(t)
        BY <4>1, <4>4 DEF SubmitFails
      <4> QED
        BY <1>3, <4>2, <4>3, <4>4
    <3> QED
      BY <3>1
  <2>2. UNCHANGED <<store, messages, accepted>>
    BY <1>3 DEF ScanPending, Reject, SubmitFails
  <2>3. CallsAreFresh'
    BY <1>0, <2>1, <2>2, ZenonT(60) DEF CallsAreFresh, InCall
  <2> QED
    BY <1>2, <2>2, <2>3
<1>4. CASE Admit(t)
  <2>1. PICK r \in Requests :
           /\ Fresh(r)
           /\ gateway' = [gateway EXCEPT ![t] =
                            [NoCall EXCEPT !.pc = "admitted", !.request = r]]
    BY <1>4 DEF Admit
  <2>2. UNCHANGED <<store, messages, accepted>>
    BY <1>4 DEF Admit
  <2>3. gateway'[t].pc = "admitted" /\ gateway'[t].request = r
    BY <2>1 DEF NoCall
  <2>4. \A s \in Threads : s # t => gateway'[s] = gateway[s]
    BY <2>1
  <2>5. /\ store[r] = "absent" /\ messages[<<r, 0>>].place = "none"
        /\ \A s \in Threads : gateway[s].request # r
    BY <2>1, PlatformAssumption DEF Fresh
  <2>6. CallsAreFresh'
    <3>1. r \notin accepted
      BY <1>0, <2>5 DEF CallsAreFresh
    <3>2. \A s, u \in Threads : InCall(s)' /\ InCall(u)'
                                 /\ gateway'[s].request = gateway'[u].request => s = u
      BY <1>0, <2>3, <2>4, <2>5 DEF CallsAreFresh, InCall
    <3>3. \A s \in Threads : InCall(s)' => gateway'[s].request \notin accepted'
      BY <1>0, <2>2, <2>3, <2>4, <3>1 DEF CallsAreFresh, InCall
    <3>4. ASSUME NEW s \in Threads, gateway'[s].pc = "admitted"
          PROVE  /\ store'[gateway'[s].request] = "absent"
                 /\ messages'[<<gateway'[s].request, 0>>].place = "none"
      <4>1. CASE s = t
        BY <2>2, <2>3, <2>5, <4>1
      <4>2. CASE s # t
        <5>1. gateway'[s] = gateway[s] /\ gateway[s].pc = "admitted"
          BY <2>4, <3>4, <4>2
        <5> QED
          BY <1>0, <2>2, <5>1 DEF CallsAreFresh
      <4> QED
        BY <4>1, <4>2
    <3>5. \A q \in accepted' : store'[q] # "absent"
      BY <1>0, <2>2 DEF CallsAreFresh
    <3> QED
      BY <3>2, <3>3, <3>4, <3>5 DEF CallsAreFresh
  <2> QED
    BY <1>2, <2>2, <2>6
<1>5. CASE PublishRequest(t)
  <2> DEFINE r == gateway[t].request
  <2>1. /\ r \in Requests /\ gateway[t].pc = "admitted"
        /\ store[r] = "absent" /\ messages[<<r, 0>>].place = "none"
    BY <1>0, <1>5 DEF PublishRequest, CallsAreFresh
  <2>2. UNCHANGED <<store, accepted>>
        /\ gateway' = [gateway EXCEPT ![t].pc = "published"]
        /\ messages' = [messages EXCEPT ![<<r, 0>>].place = "visible"]
    BY <1>5 DEF PublishRequest, Publish
  <2>3. <<r, 0>> \in Message
    BY <2>1, MessagesOfRequests
  <2>4. /\ \A m \in Message : m # <<r, 0>> => messages'[m] = messages[m]
        /\ messages'[<<r, 0>>].place = "visible"
    BY <2>2, <2>3
  <2>5. /\ gateway'[t].pc = "published" /\ gateway'[t].request = r
        /\ \A s \in Threads : s # t => gateway'[s] = gateway[s]
    BY <2>2
  <2> HIDE DEF r
  <2>6. r = gateway[t].request
    BY DEF r
  <2>7. CallsAreFresh'
    <3>1. \A s \in Threads : gateway'[s].request = gateway[s].request
      BY <2>5, <2>6
    <3>2. \A s \in Threads : gateway'[s].pc = "admitted" =>
             /\ gateway[s].pc = "admitted" /\ gateway[s].request \in Requests
             /\ gateway[s].request # r
      BY <1>0, <2>1, <2>5, <2>6 DEF CallsAreFresh, InCall
    <3>3. \A s \in Threads : InCall(s)' => InCall(s)
      BY <2>1, <2>5 DEF InCall
    <3>4. ASSUME NEW s \in Threads, gateway'[s].pc = "admitted"
          PROVE  /\ store'[gateway'[s].request] = "absent"
                 /\ messages'[<<gateway'[s].request, 0>>].place = "none"
      <4>1. <<gateway[s].request, 0>> \in Message /\ <<gateway[s].request, 0>> # <<r, 0>>
        BY <3>2, <3>4, MessagesOfRequests
      <4> QED
        BY <1>0, <2>2, <2>4, <3>1, <3>2, <3>4, <4>1 DEF CallsAreFresh
    <3>5. /\ \A s, u \in Threads : InCall(s)' /\ InCall(u)'
                                 /\ gateway'[s].request = gateway'[u].request => s = u
          /\ \A s \in Threads : InCall(s)' => gateway'[s].request \notin accepted'
          /\ \A q \in accepted' : store'[q] # "absent"
      BY <1>0, <2>2, <3>1, <3>3 DEF CallsAreFresh
    <3> QED
      BY <3>4, <3>5 DEF CallsAreFresh
  <2>8. OneCopy'
    <3>1. \A m \in Message : messages'[m].place # "none" =>
             m[2] = 0 \/ "copied" \in history[RequestOf(m)]
      <4>1. <<r, 0>>[2] = 0
        OBVIOUS
      <4> QED
        BY <1>0, <2>4, <4>1 DEF OneCopy
    <3> QED
      BY <1>0, <1>1, <2>2, <3>1 DEF OneCopy, RequestOf
  <2>9. \A q : Over(q)' = Over(q) /\ Plain(q)' = Plain(q)
    BY <1>1, <2>2 DEF Over, Plain
  <2>10. OverIsGone'
    <3> SUFFICES ASSUME NEW q \in Requests, Over(q)
                 PROVE  \/ messages'[<<q, 0>>].place \in {"deleted", "dead"}
                        \/ \E w \in Workers : <<q, 0>> \in worker[w].current
      BY <1>1, <2>9 DEF OverIsGone
    <3>1. <<q, 0>> # <<r, 0>> /\ <<q, 0>> \in Message
      BY <2>1, MessagesOfRequests DEF Over
    <3> QED
      BY <1>0, <2>4, <3>1 DEF OverIsGone
  <2>11. ASSUME NEW w \in Workers PROVE HandIsCurrent(w)'
    <3>1. worker'[w] = worker[w]
      BY <1>1
    <3>2. \A m \in Held(worker[w]) : m \in Message /\ m # <<r, 0>>
      BY <2>1, HeldAreFirst
    <3>3. \A m \in Held(worker[w]) : messages'[m] = messages[m]
      BY <2>4, <3>2
    <3>4. \A m \in Ready(worker[w]) : ~Over(RequestOf(m))'
      BY <1>0, <1>1, <2>2 DEF HandIsCurrent, RequestOf, Over, Plain
    <3> QED
      BY <1>0, <1>1, <3>1, <3>3, <3>4, SMTT(30) DEF HandIsCurrent, Held, Ready, RequestOf, Over, Plain
  <2>12. Final
    BY <2>2 DEF Final, Over
  <2> QED
    BY <2>7, <2>8, <2>10, <2>11, <2>12 DEF FinalInv
<1>6. CASE PutPending(t)
  <2> DEFINE r == gateway[t].request
  <2>1. r \in Requests /\ InCall(t) /\ r \notin accepted
    BY <1>0, <1>6 DEF PutPending, CallsAreFresh, InCall
  <2>2. /\ store' = [store EXCEPT ![r] = "pending"] /\ accepted' = accepted \cup {r}
        /\ gateway' = [gateway EXCEPT ![t] = NoCall] /\ UNCHANGED messages
    BY <1>6 DEF PutPending, Put
  <2>3. store'[r] = "pending" /\ \A q \in Requests : q # r => store'[q] = store[q]
    BY <2>1, <2>2
  <2>4. /\ ~InCall(t)' /\ gateway'[t].pc # "admitted"
        /\ \A s \in Threads : s # t => gateway'[s] = gateway[s]
    BY <2>2 DEF InCall, NoCall
  <2>5. \A s \in Threads : InCall(s) /\ s # t => gateway[s].request # r
                                               /\ gateway[s].request \in Requests
    BY <1>0, <2>1 DEF CallsAreFresh, InCall
  <2>6. CallsAreFresh'
    <3> HIDE DEF r
    <3>1. \A s \in Threads : InCall(s)' => s # t /\ InCall(s) /\ gateway'[s] = gateway[s]
      BY <2>4 DEF InCall
    <3>2. \A s \in Threads : gateway'[s].pc = "admitted" =>
             InCall(s) /\ s # t /\ gateway'[s] = gateway[s]
      BY <2>4 DEF InCall
    <3>3. \A s, u \in Threads : InCall(s)' /\ InCall(u)'
                                 /\ gateway'[s].request = gateway'[u].request => s = u
      BY <1>0, <3>1 DEF CallsAreFresh
    <3>4. \A s \in Threads : InCall(s)' => gateway'[s].request \notin accepted'
      BY <1>0, <2>2, <2>5, <3>1 DEF CallsAreFresh
    <3>5. \A s \in Threads : gateway'[s].pc = "admitted" =>
             /\ store'[gateway'[s].request] = "absent"
             /\ messages'[<<gateway'[s].request, 0>>].place = "none"
      BY <1>0, <2>2, <2>3, <2>5, <3>2 DEF CallsAreFresh
    <3>6. \A q \in accepted' : store'[q] # "absent"
      BY <1>0, <2>2, <2>3 DEF CallsAreFresh
    <3> QED
      BY <3>3, <3>4, <3>5, <3>6 DEF CallsAreFresh
  <2> HIDE DEF r
  <2>7. OneCopy'
    BY <1>0, <1>1, <2>2, <2>3 DEF OneCopy
  <2>8. \A q \in Requests : Over(q)' => Over(q)
    BY <1>1, <2>3 DEF Over, Plain
  <2>9. OverIsGone'
    BY <1>0, <1>1, <2>2, <2>8 DEF OverIsGone
  <2>10. ASSUME NEW w \in Workers PROVE HandIsCurrent(w)'
    <3>1. worker'[w] = worker[w]
      BY <1>1
    <3>2. \A m \in Ready(worker[w]) : ~Over(RequestOf(m))'
      <4>1. \A m \in Ready(worker[w]) : RequestOf(m) \in Requests /\ ~Over(RequestOf(m))
        BY <1>0, HeldAreFirst DEF HandIsCurrent, Held
      <4> QED
        BY <2>8, <4>1 DEF RequestOf, Over, Plain
    <3> QED
      BY <1>0, <1>1, <2>2, <3>1, <3>2, ZenonT(60) DEF HandIsCurrent, Held, Ready, RequestOf, Over, Plain
  <2>11. Final
    BY <2>1, <2>3 DEF Final, Over
  <2> QED
    BY <2>6, <2>7, <2>9, <2>10, <2>11 DEF FinalInv
<1> QED
  BY <1>3, <1>4, <1>5, <1>6 DEF GatewayStep

\* The engine: its copies are written down, and what it marks failed has a record.
LEMMA EngineFinal ==
    ASSUME TypeInv, StaleInv, FinalInv, HistoryGrows, ReconcilerStep
    PROVE  FinalInv' /\ Final
<1>0. /\ OneCopy /\ CallsAreFresh /\ OverIsGone
      /\ \A w \in Workers : HandIsCurrent(w)
  BY DEF FinalInv
<1>1. UNCHANGED <<accepted, gateway, worker>>
  BY DEF ReconcilerStep, ScanStalePending, ScanStaleProcessing, Resubmit, MarkFailed,
         PassFails, ResubmitBound
<1>2. ASSUME OneCopy', CallsAreFresh', \A r \in Requests : Over(r)' => Over(r),
             \A m \in Message : messages[m].place # "none" => messages'[m] = messages[m]
      PROVE  FinalInv'
  <2>1. OverIsGone'
    <3> SUFFICES ASSUME NEW r \in Requests, Over(r)
                 PROVE  \/ messages'[<<r, 0>>].place \in {"deleted", "dead"}
                        \/ \E w \in Workers : <<r, 0>> \in worker[w].current
      BY <1>1, <1>2 DEF OverIsGone
    <3>1. <<r, 0>> \in Message
      BY MessagesOfRequests
    <3> QED
      BY <1>0, <1>2, <3>1 DEF OverIsGone
  <2>2. ASSUME NEW w \in Workers PROVE HandIsCurrent(w)'
    <3>1. worker'[w] = worker[w]
      BY <1>1
    <3>2. ASSUME NEW m \in Held(worker[w])
          PROVE  /\ messages'[m].place # "none"
                 /\ Plain(RequestOf(m))' =>
                       [message |-> m, nth |-> messages'[m].receives] \in worker[w].receipts
                 /\ Over(RequestOf(m))' => Over(RequestOf(m))
      <4>1. m \in Message /\ messages[m].place # "none" /\ RequestOf(m) \in Requests
        BY HeldAreFirst
      <4>2. Plain(RequestOf(m))' => Plain(RequestOf(m))
        BY <4>1, PlainBefore DEF RequestOf, Plain
      <4>3. Over(RequestOf(m))' => Over(RequestOf(m))
        BY <1>2, <4>1 DEF RequestOf, Over, Plain
      <4> QED
        BY <1>2, <4>1, <4>2, <4>3, HeldAreFirst
    <3>3. \A m \in Ready(worker[w]) : ~Over(RequestOf(m))'
      BY <1>0, <3>2 DEF HandIsCurrent, Held
    <3> QED
      BY <3>1, <3>2, <3>3 DEF HandIsCurrent, Held, Ready, RequestOf, Over, Plain
  <2> QED
    BY <1>2, <2>1, <2>2 DEF FinalInv
<1>3. CASE ScanStalePending \/ ScanStaleProcessing \/ PassFails \/ ResubmitBound
  <2>1. UNCHANGED <<store, messages, history>>
    BY <1>3 DEF ScanStalePending, ScanStaleProcessing, PassFails, ResubmitBound
  <2>2. OneCopy' /\ CallsAreFresh' /\ Final
    BY <1>0, <1>1, <2>1 DEF OneCopy, CallsAreFresh, InCall, Final, Over
  <2> QED
    BY <1>2, <2>1, <2>2 DEF Over, Plain
<1>4. CASE Resubmit
  <2>1. PICK x \in reconciler.stale, k \in 1..MaxResubmits :
           /\ messages[<<x[1], k>>].place = "none"
           /\ Publish(<<x[1], k>>)
           /\ Record(x[1], {"copied"})
    BY <1>4 DEF Resubmit
  <2>2. x[1] \in Requests /\ store[x[1]] # "absent" /\ UNCHANGED store
    BY <1>4, <2>1 DEF StaleInv, TypeInv, TypeOK, Resubmit
  <2>3. <<x[1], k>> \in Message /\ k # 0
    BY <2>1, <2>2, MessagesOfRequests
  <2>4. /\ \A r \in Requests : r # x[1] => history'[r] = history[r]
        /\ "copied" \in history'[x[1]]
    BY <2>1, <2>2 DEF Record, TypeInv, TypeOK
  <2>5. \A m \in Message : m # <<x[1], k>> => messages'[m] = messages[m]
    BY <2>1, <2>3, PublishPlacesOne
  <2>6. ASSUME NEW m \in Message, messages[m].place = "none"
        PROVE  \/ messages'[m].place = "none"
               \/ m[2] # 0 /\ "copied" \in history'[RequestOf(m)]
    <3>1. <<x[1], k>>[2] # 0 /\ RequestOf(<<x[1], k>>) = x[1]
      BY <2>3 DEF RequestOf
    <3> QED
      BY <2>4, <2>5, <2>6, <3>1
  <2>7. OneCopy' /\ CallsAreFresh'
    <3>1. \A r \in Requests :
             "copied" \in history'[r] => "copied" \in history[r] \/ store[r] # "absent"
      BY <2>2, <2>4
    <3> QED
      BY <1>0, <1>1, <2>2, <2>6, <3>1, CallsStayFresh
  <2>8. \A r \in Requests : Over(r)' => Over(r)
    BY <2>2, PlainBefore
  <2>9. Final
    BY <2>2 DEF Final, Over
  <2> QED
    BY <1>2, <2>1, <2>5, <2>7, <2>8, <2>9
<1>5. CASE MarkFailed
  <2>1. PICK x \in reconciler.stale :
           Put(x[1], "failed") /\ Record(x[1], {"settled", "given_up"})
    BY <1>5 DEF MarkFailed
  <2>2. x[1] \in Requests /\ store[x[1]] # "absent" /\ UNCHANGED messages
    BY <1>5, <2>1 DEF StaleInv, TypeInv, TypeOK, MarkFailed
  <2>3. /\ store'[x[1]] = "failed"
        /\ \A r \in Requests : r # x[1] => store'[r] = store[r]
    BY <2>1, <2>2 DEF Put, TypeInv, TypeOK
  <2>4. \A r \in Requests : Over(r)' => Over(r)
    <3>1. ~Over(x[1])'
      BY <2>3 DEF Over
    <3> QED
      BY <2>3, <3>1, PlainBefore
  <2>5. \A r \in Requests : "copied" \in history'[r] => "copied" \in history[r]
    BY <2>1, <2>2 DEF Record, TypeInv, TypeOK
  <2>6. OneCopy' /\ CallsAreFresh'
    <3>1. \A r \in Requests : store'[r] = store[r]
                              \/ (store'[r] # "absent" /\ store[r] # "absent")
      BY <2>2, <2>3
    <3> QED
      BY <1>0, <1>1, <2>2, <2>5, <3>1, CallsStayFresh
  <2>7. Final
    BY <1>5 DEF Final
  <2> QED
    BY <1>2, <2>2, <2>4, <2>6, <2>7
<1> QED
  BY <1>3, <1>4, <1>5 DEF ReconcilerStep

\* The visibility timeout and the clocks.
LEMMA EnvironmentFinal ==
    ASSUME TypeInv, FinalInv,
           \/ \E m \in Message : Reappear(m)
           \/ \E r \in Requests : GrowOld(r)
           \/ TimePasses
           \/ UNCHANGED vars
    PROVE  FinalInv' /\ Final
<1>0. /\ OneCopy /\ CallsAreFresh /\ OverIsGone
      /\ \A w \in Workers : HandIsCurrent(w)
  BY DEF FinalInv
<1>2. UNCHANGED <<store, accepted, gateway, worker, history>>
  BY DEF Reappear, GrowOld, TimePasses, vars
<1>3. ASSUME NEW m \in Message
      PROVE  /\ messages'[m].receives = messages[m].receives
             /\ messages[m].place \notin {"inflight"} => messages'[m].place = messages[m].place
             /\ messages[m].place = "inflight" => messages'[m].place # "none"
  <2>1. ASSUME NEW n \in Message, Reappear(n)
        PROVE  /\ messages'[m].receives = messages[m].receives
               /\ messages[m].place \notin {"inflight"} => messages'[m].place = messages[m].place
               /\ messages[m].place = "inflight" => messages'[m].place # "none"
    <3>1. PICK p \in {"visible", "dead"} : messages' = [messages EXCEPT ![n].place = p]
      BY <2>1 DEF Reappear
    <3> QED
      BY <2>1, <3>1 DEF Reappear, TypeInv, TypeOK
  <2>2. UNCHANGED messages \/ \E n \in Message : Reappear(n)
    BY DEF GrowOld, TimePasses, vars
  <2> QED
    BY <2>1, <2>2
<1>5. Final /\ HistoryGrows
  BY <1>2 DEF Final, Over, HistoryGrows
<1>6. OneCopy' /\ CallsAreFresh'
  <2>1. \A n \in Message : messages[n].place = "none" => messages'[n].place = "none"
    BY <1>3
  <2> QED
    BY <1>0, <1>2, <1>5, <2>1, CallsStayFresh
<1>7. OverIsGone'
  <2> SUFFICES ASSUME NEW q \in Requests, Over(q)
               PROVE  \/ messages'[<<q, 0>>].place \in {"deleted", "dead"}
                      \/ \E w \in Workers : <<q, 0>> \in worker[w].current
    BY <1>2 DEF OverIsGone, Over, Plain
  <2>1. <<q, 0>> \in Message
    BY MessagesOfRequests
  <2> QED
    BY <1>0, <1>3, <2>1 DEF OverIsGone
<1>8. ASSUME NEW w \in Workers PROVE HandIsCurrent(w)'
  <2>1. worker'[w] = worker[w]
    BY <1>2
  <2>2. \A m \in Held(worker[w]) : m \in Message
    BY HeldAreMessages
  <2>3. \A m \in Held(worker[w]) :
           /\ messages'[m].place # "none"
           /\ Plain(RequestOf(m))' =>
                 [message |-> m, nth |-> messages'[m].receives] \in worker[w].receipts
    BY <1>0, <1>2, <1>3, <2>2 DEF HandIsCurrent, Plain, RequestOf
  <2>4. \A m \in Ready(worker[w]) : ~Over(RequestOf(m))'
    BY <1>0, <1>2 DEF HandIsCurrent, RequestOf, Over, Plain
  <2> QED
    BY <2>1, <2>3, <2>4 DEF HandIsCurrent, Held, Ready, RequestOf, Over, Plain
<1> QED
  BY <1>5, <1>6, <1>7, <1>8 DEF FinalInv

\* For any number of workers and a healing engine: the result of a request that
\* was completed and answered with 202 never changes again, but by MARK_FAILED,
\* although messages reappear while they are being processed; unless a fault
\* interrupted a worker that had the request in hand, two workers had it at once,
\* or the engine copied its message (worker.py:601-623, reconciliation.py:219-255).
THEOREM CompletionIsFinal == Spec => AcceptedCompletionIsFinal
<1>1. TypeInv /\ HandInv /\ HandsApart /\ StaleInv /\ FinalInv /\ [Next]_vars
         => FinalInv' /\ Final
  <2> SUFFICES ASSUME TypeInv, HandInv, HandsApart, StaleInv, FinalInv, [Next]_vars
               PROVE  FinalInv' /\ Final
    OBVIOUS
  <2>1. HistoryGrows /\ (NothingCopied \/ ReconcilerStep)
    BY HistoryOnlyGrows, OnlyTheEngineCopies DEF ReconcilerStep
  <2> QED
    BY <2>1, WithinReceiveFinal, ReceiveFinal, FaultFinal, GatewayFinal, EngineFinal,
       EnvironmentFinal DEF Next
<1>2. Init => StaleInv
  BY DEF Init, StaleInv, NoPass
<1>3. Spec => [][Final]_vars
  BY <1>1, <1>2, FinalInit, StaleStep, TypeInvariant, HandInvariant, HandsApartInvariant,
     PTL DEF Spec
<1> QED
  BY <1>3 DEF AcceptedCompletionIsFinal, Final, Over, Plain
=============================================================================
