-------------------------------- MODULE Worker --------------------------------
(***************************************************************************)
(* core/worker.py: RAGWorker.run, process_messages and process_batch.  A   *)
(* worker is one thread; its puts and deletes are separate calls to AWS,   *)
(* so every one of them is a step of its own.                              *)
(*                                                                         *)
(* Program counter of a worker:                                            *)
(*   idle      in run, before receive_message                              *)
(*   batching  between two batches of process_messages                     *)
(*   refused   the breaker said no: FAILED for every candidate             *)
(*   ttl       the expiry check, candidate by candidate                    *)
(*   expired   an expired candidate's message is about to be deleted       *)
(*   mark      PROCESSING for every live candidate, then infer_batch       *)
(*   outputs   one output of the adapter after the other                   *)
(*   done      a completed candidate's message is about to be deleted      *)
(*                                                                         *)
(* Batches are any partition of the received messages, a superset of what  *)
(* build_batches makes, and loops take their candidates in any order.      *)
(***************************************************************************)
EXTENDS PlatformState

Visible == {m \in Message : messages[m].place = "visible"}

\* messages_by_request_id keeps one message per id, the last one received:
\* two copies of a request received together share that receipt handle.
Receipts(S) ==
    {R \in SUBSET {[message |-> m, nth |-> messages[m].receives + 1] : m \in S} :
        \A r \in {RequestOf(m) : m \in S} :
            Cardinality({x \in R : RequestOf(x.message) = r}) = 1}

\* The requests whose messages are in the worker's hands, for the history.
InHand(me) == {RequestOf(m) : m \in me.todo \cup me.batch \cup me.live \cup me.current}

\* Those that another worker has.
HeldElsewhere(w) == UNION {InHand(worker[u]) : u \in Workers \ {w}}

\* receive_message hands out up to a batch of visible messages.
Receive(w) ==
    /\ worker[w].pc = "idle"
    /\ \E S \in SUBSET Visible :
          /\ Cardinality(S) \in 1..BatchSize
          /\ messages' = [m \in Message |->
                IF m \in S
                THEN [place |-> "inflight", receives |-> messages[m].receives + 1]
                ELSE messages[m]]
          /\ \E R \in Receipts(S) :
                worker' = [worker EXCEPT ![w] = [Idle EXCEPT !.pc = "batching",
                                                             !.todo = S,
                                                             !.receipts = R]]
          /\ history' = [r \in Requests |->
                IF r \in {RequestOf(m) : m \in S} \cap HeldElsewhere(w)
                THEN history[r] \cup {"doubled"} ELSE history[r]]
    /\ UNCHANGED <<store, age, accepted, gateway, breaker, reconciler>>

\* The rest of process_messages once a batch is over.
NextBatch(me) ==
    IF me.todo = {} THEN Idle
    ELSE [me EXCEPT !.pc = "batching", !.batch = {}, !.live = {}, !.current = {}]

\* The GPU scheduler defers a batch: nothing is written, nothing is deleted.
DeferBatch(w) ==
    /\ GpuScheduling
    /\ worker[w].pc = "batching"
    /\ \E B \in SUBSET worker[w].todo \ {{}} :
          worker' = [worker EXCEPT ![w] = NextBatch([worker[w] EXCEPT !.todo = @ \ B])]
    /\ UNCHANGED <<store, messages, age, accepted, gateway, breaker, reconciler, history>>

\* The breaker gates the next batch.
GateBatch(w) ==
    /\ worker[w].pc = "batching"
    /\ \E B \in SUBSET worker[w].todo \ {{}} :
          worker' = [worker EXCEPT
              ![w].pc = IF Granted(breaker[w]) THEN "ttl" ELSE "refused",
              ![w].todo = @ \ B,
              ![w].batch = B]
    /\ breaker' = [breaker EXCEPT ![w] = AfterAllow(@)]
    /\ UNCHANGED <<store, messages, age, accepted, gateway, reconciler, history>>

\* A candidate of a refused batch: FAILED, and its message stays in the queue.
FastFail(w) ==
    /\ worker[w].pc = "refused"
    /\ \E m \in worker[w].batch :
          /\ Put(RequestOf(m), "failed")
          /\ Record(RequestOf(m), {"settled"})
          /\ worker' = [worker EXCEPT ![w] =
                IF @.batch = {m} THEN NextBatch(@) ELSE [worker[w] EXCEPT !.batch = @ \ {m}]]
    /\ UNCHANGED <<messages, age, accepted, gateway, breaker, reconciler>>

\* RequestTTL.is_expired.
Expired(r) == age[r] > TtlAge

\* Once no candidate is left to check: run the live ones, if any.
AfterTtl(me) ==
    IF me.batch # {} THEN [me EXCEPT !.pc = "ttl", !.current = {}]
    ELSE IF me.live = {} THEN NextBatch(me)
    ELSE [me EXCEPT !.pc = "mark", !.batch = me.live, !.live = {}, !.current = {}]

\* An expired candidate: FAILED; its message is deleted next.
ExpireOne(w) ==
    /\ worker[w].pc = "ttl"
    /\ \E m \in worker[w].batch :
          /\ Expired(RequestOf(m))
          /\ Put(RequestOf(m), "failed")
          /\ Record(RequestOf(m), {"settled", "expired"})
          /\ worker' = [worker EXCEPT ![w].pc = "expired", ![w].current = {m},
                                      ![w].batch = @ \ {m}]
    /\ UNCHANGED <<messages, age, accepted, gateway, breaker, reconciler>>

\* A candidate that is still young enough.
KeepOne(w) ==
    /\ worker[w].pc = "ttl"
    /\ \E m \in worker[w].batch :
          /\ ~Expired(RequestOf(m))
          /\ worker' = [worker EXCEPT ![w] =
                AfterTtl([worker[w] EXCEPT !.batch = @ \ {m}, !.live = @ \cup {m}])]
    /\ UNCHANGED <<store, messages, age, accepted, gateway, breaker, reconciler, history>>

\* delete_message with the receipt kept for this request.  SQS honours the
\* receipt of the last delivery; an older one may or may not delete.
DeleteByReceipt(w, r) ==
    \E x \in worker[w].receipts :
        /\ RequestOf(x.message) = r
        /\ LET m == x.message
               live == messages[m].place \in {"visible", "inflight"}
           IN  \/ /\ live
                  /\ messages' = [messages EXCEPT ![m].place = "deleted"]
               \/ /\ ~live \/ messages[m].receives # x.nth
                  /\ UNCHANGED messages

\* The expired candidate's message goes.
DeleteExpired(w) ==
    /\ worker[w].pc = "expired"
    /\ \E m \in worker[w].current : DeleteByReceipt(w, RequestOf(m))
    /\ worker' = [worker EXCEPT ![w] = AfterTtl(@)]
    /\ UNCHANGED <<store, age, accepted, gateway, breaker, reconciler, history>>

\* Candidate m is marked; after the last one infer_batch runs.
AfterMark(me, m) ==
    LET marked == me.live \cup {m}
    IN  IF me.batch = {m}
        THEN [me EXCEPT !.pc = "outputs", !.batch = marked, !.live = {}]
        ELSE [me EXCEPT !.batch = @ \ {m}, !.live = marked]

\* A mutant: the message is acknowledged when the work starts.
MarkAndAcknowledge(w) ==
    /\ worker[w].pc = "mark"
    /\ \E m \in worker[w].batch :
          /\ Put(RequestOf(m), "processing")
          /\ DeleteByReceipt(w, RequestOf(m))
          /\ worker' = [worker EXCEPT ![w] = AfterMark(@, m)]
    /\ UNCHANGED <<age, accepted, gateway, breaker, reconciler, history>>

\* PROCESSING for one live candidate.
MarkProcessing(w) ==
    /\ worker[w].pc = "mark"
    /\ \E m \in worker[w].batch :
          /\ Put(RequestOf(m), "processing")
          /\ worker' = [worker EXCEPT ![w] = AfterMark(@, m)]
    /\ UNCHANGED <<messages, age, accepted, gateway, breaker, reconciler, history>>

\* An output with text: COMPLETED; its message is deleted next.
OutputSucceeds(w) ==
    /\ worker[w].pc = "outputs"
    /\ \E m \in worker[w].batch :
          /\ Put(RequestOf(m), "completed")
          /\ Record(RequestOf(m), {"settled", "answered"})
          /\ worker' = [worker EXCEPT ![w].pc = "done", ![w].current = {m},
                                      ![w].batch = @ \ {m}]
    /\ breaker' = [breaker EXCEPT ![w] = AfterSuccess(@)]
    /\ UNCHANGED <<messages, age, accepted, gateway, reconciler>>

\* After the last output the batch is over.
AfterOutput(me) ==
    IF me.batch = {} THEN NextBatch(me) ELSE [me EXCEPT !.pc = "outputs", !.current = {}]

\* A mutant: the message of a failed output is deleted like any other.
OutputFailsAndDeletes(w) ==
    /\ worker[w].pc = "outputs"
    /\ \E m \in worker[w].batch :
          /\ Put(RequestOf(m), "failed")
          /\ Record(RequestOf(m), {"settled"})
          /\ worker' = [worker EXCEPT ![w].pc = "done", ![w].current = {m},
                                      ![w].batch = @ \ {m}]
    /\ breaker' = [breaker EXCEPT ![w] = AfterFailure(@)]
    /\ UNCHANGED <<messages, age, accepted, gateway, reconciler>>

\* An output without text: FAILED, and its message stays in the queue.
OutputFails(w) ==
    /\ worker[w].pc = "outputs"
    /\ \E m \in worker[w].batch :
          /\ Put(RequestOf(m), "failed")
          /\ Record(RequestOf(m), {"settled"})
          /\ worker' = [worker EXCEPT ![w] = AfterOutput([worker[w] EXCEPT !.batch = @ \ {m}])]
    /\ breaker' = [breaker EXCEPT ![w] = AfterFailure(@)]
    /\ UNCHANGED <<messages, age, accepted, gateway, reconciler>>

\* A mutant: the completed candidate's message is not deleted.
DoneWithoutDelete(w) ==
    /\ worker[w].pc = "done"
    /\ worker' = [worker EXCEPT ![w] = AfterOutput(@)]
    /\ UNCHANGED <<store, messages, age, accepted, gateway, breaker, reconciler, history>>

\* The completed candidate's message goes.
DeleteDone(w) ==
    /\ worker[w].pc = "done"
    /\ \E m \in worker[w].current : DeleteByReceipt(w, RequestOf(m))
    /\ worker' = [worker EXCEPT ![w] = AfterOutput(@)]
    /\ UNCHANGED <<store, age, accepted, gateway, breaker, reconciler, history>>

DropInHand(w) ==
    history' = [r \in Requests |->
        IF r \in InHand(worker[w]) THEN history[r] \cup {"dropped"} ELSE history[r]]

\* infer_batch, a put or a delete raises: run catches it and drops the rest of
\* the receive.  An output whose put raises has already reached the breaker.
CallRaises(w) ==
    /\ MayFail
    /\ worker[w].pc # "idle"
    /\ worker' = [worker EXCEPT ![w] = Idle]
    /\ \/ UNCHANGED breaker
       \/ /\ worker[w].pc = "outputs"
          /\ \E counted \in {AfterSuccess(breaker[w]), AfterFailure(breaker[w])} :
                breaker' = [breaker EXCEPT ![w] = counted]
    /\ DropInHand(w)
    /\ UNCHANGED <<store, messages, age, accepted, gateway, reconciler>>

\* The process dies, or shuts down with messages in hand, and is restarted.
CrashAndRestart(w) ==
    /\ MayFail
    /\ worker' = [worker EXCEPT ![w] = Idle]
    /\ breaker' = [breaker EXCEPT ![w] = NewBreaker]
    /\ DropInHand(w)
    /\ UNCHANGED <<store, messages, age, accepted, gateway, reconciler>>

WorkerStep(w) ==
    \/ Receive(w) \/ DeferBatch(w) \/ GateBatch(w) \/ FastFail(w)
    \/ ExpireOne(w) \/ KeepOne(w) \/ DeleteExpired(w) \/ MarkProcessing(w)
    \/ OutputSucceeds(w) \/ OutputFails(w) \/ DeleteDone(w)

WorkerFault(w) == CallRaises(w) \/ CrashAndRestart(w)
=============================================================================
