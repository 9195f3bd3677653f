------------------------------- MODULE Dispatch -------------------------------
(***************************************************************************)
(* How one worker turns received messages into batches on a device:        *)
(* RAGWorker.process_messages routes every task with what the latency      *)
(* tracker says now, builds the batches of all of them, and only then runs *)
(* the batches one after the other, each of which feeds the tracker.       *)
(*                                                                         *)
(* What Worker leaves open -- which batches there are and which of them    *)
(* the GPU scheduler defers -- is computed here; what Worker details --    *)
(* expiry, the puts, crashes -- is left out or is one step: a task whose   *)
(* batch is refused by the breaker or whose output failed keeps its        *)
(* message, which is received again until the queue gives up on it.        *)
(***************************************************************************)
EXTENDS Batching, Router, GpuScheduler, LatencyTracker, SequencesExt

CONSTANTS Tasks,         \* the requests there can be at a time, by id
          Kinds,         \* the requests clients send
          Devices,       \* get_gpu_snapshots: fixed by the configuration
          ReceiveSize,   \* messages given to process_messages at once; run gives
                         \* it at most MaxBatchSize, its tests any number
          MaxReceives,   \* maxReceiveCount of the queue
          MayRefuse      \* may the breaker refuse a batch

ASSUME DispatchAssumption ==
    /\ Tasks \subseteq Nat /\ IsFiniteSet(Tasks)
    /\ \A k \in Kinds : k.length \in Nat /\ k.priority \in Nat
    /\ ReceiveSize \in Nat \ {0}
    /\ MaxReceives \in Nat \ {0}
    /\ MayRefuse \in BOOLEAN
    /\ \A d \in Devices : SoundSnapshot(d)

VARIABLES messages,   \* the message of every request that is not completed
          plan,       \* the batches process_messages has yet to run
          windows     \* LatencyTracker._windows

vars == <<messages, plan, windows>>

\* tried is history: the receives of a message that led to an outcome, or to a
\* model that no device can hold.
Message == [request  : Kinds,
            place    : {"queue", "hand", "dead"},
            receives : 0..MaxReceives,
            tried    : 0..MaxReceives]

At(place) == {t \in DOMAIN messages : messages[t].place = place}

DegradedModels == {m \in Models : Degraded(windows[m])}

\* task_to_batch_candidate.
Candidate(t) ==
    LET request == messages[t].request
        model   == Route(request, DegradedModels)
    IN  [id |-> t, model |-> model, event |-> request.event,
         priority |-> request.priority, tokens |-> EstimatedTokens(request),
         batchable |-> model \in SupportsBatching]

Members(batch) == {c.id : c \in ToSet(batch)}

Init ==
    /\ messages = [t \in {} |-> 0]
    /\ plan = <<>>
    /\ windows = [m \in Models |-> <<>>]

\* The messages after those that update gives are new or changed.
Updated(update) ==
    [t \in DOMAIN messages \cup DOMAIN update |->
        IF t \in DOMAIN update THEN update[t] ELSE messages[t]]

\* A client submits a request; a dead letter is as good as gone.
Submit(t) ==
    /\ t \notin At("queue") \cup At("hand")
    /\ \E k \in Kinds :
          messages' = Updated([u \in {t} |-> [request  |-> k,
                                              place    |-> "queue",
                                              receives |-> 0,
                                              tried    |-> 0]])
    /\ UNCHANGED <<plan, windows>>

\* process_messages up to its first batch.
Receive ==
    /\ plan = <<>>
    /\ \E S \in SUBSET At("queue") :
          /\ Cardinality(S) \in 1..ReceiveSize
          /\ messages' = Updated([t \in S |->
                [messages[t] EXCEPT !.place = "hand", !.receives = @ + 1]])
          /\ plan' = BuildBatches({Candidate(t) : t \in S})
    /\ UNCHANGED windows

\* The messages S, which are not deleted, come back or become dead letters.
Returned(S, wasTried) ==
    [t \in S |-> [messages[t] EXCEPT
        !.place = IF messages[t].receives < MaxReceives THEN "queue" ELSE "dead",
        !.tried = IF wasTried THEN @ + 1 ELSE @]]

Model(batch) == batch[1].model

Scheduled(model, size) == Schedule(model, Devices, size).status = "scheduled"

\* process_batch: the scheduler does not place the batch, and nothing is written.
DeferBatch ==
    /\ plan # <<>>
    /\ LET batch == Head(plan)
       IN  /\ ~Scheduled(Model(batch), Len(batch))
           /\ messages' = Updated(Returned(Members(batch), ~Scheduled(Model(batch), 1)))
    /\ plan' = Tail(plan)
    /\ UNCHANGED windows

\* process_batch: the breaker refuses, and every request of the batch FAILED.
RefuseBatch ==
    /\ MayRefuse
    /\ plan # <<>>
    /\ LET batch == Head(plan)
       IN  /\ Scheduled(Model(batch), Len(batch))
           /\ messages' = Updated(Returned(Members(batch), TRUE))
    /\ plan' = Tail(plan)
    /\ UNCHANGED windows

\* infer_batch: a thread pool asks for every request of the batch, and what it
\* answers is sorted back into their order, so the order in which the calls end
\* does not show.  Some succeed, and the successes were fast or slow.
InferBatch(batch) ==
    UNION {{[done |-> done, slow |-> slow] : slow \in [1..Cardinality(done) -> BOOLEAN]} :
                done \in SUBSET (Members(batch) \cap Tasks)}

\* process_batch: the adapter answers.  A success is timed and its message deleted.
RunBatch ==
    /\ plan # <<>>
    /\ LET batch == Head(plan)
           model == Model(batch)
       IN  /\ Scheduled(model, Len(batch))
           /\ \E outputs \in InferBatch(batch) :
                 /\ windows' = [windows EXCEPT ![model] = Recorded(@, outputs.slow)]
                 /\ messages' = Restrict(
                        Updated(Returned(Members(batch) \ outputs.done, TRUE)),
                        DOMAIN messages \ outputs.done)
    /\ plan' = Tail(plan)

\* The loop of process_messages over its batches.
ProcessBatch == DeferBatch \/ RefuseBatch \/ RunBatch

Next == (\E t \in Tasks : Submit(t)) \/ Receive \/ ProcessBatch

Spec == Init /\ [][Next]_vars

\* A message that again and again could be received is received: strong fairness
\* of Receive for each message, in terms of the states alone.
MessageIsReceived(t) ==
    []<>(plan = <<>> /\ t \in At("queue")) => []<>(t \in At("hand"))

\* The worker works off its batches and polls for ever, and the queue passes no
\* message over for ever.
Fairness ==
    /\ WF_vars(ProcessBatch)
    /\ \A t \in Tasks : MessageIsReceived(t)

FairSpec == Spec /\ Fairness

-----------------------------------------------------------------------------
\* The queue, the plan and the windows stay in their ranges.
TypeOK ==
    /\ DOMAIN messages \subseteq Tasks
    /\ \A t \in DOMAIN messages : messages[t] \in Message
    /\ \A m \in Models : Len(windows[m]) <= WindowSize
    /\ \A i \in DOMAIN plan : plan[i] # <<>> /\ Members(plan[i]) \subseteq Tasks

\* A task is in hand as long as exactly one batch to come holds it: batching
\* neither loses nor doubles one (batching.py:98-136, worker.py:668-669).
EachTaskInOneBatch ==
    /\ At("hand") = UNION {Members(plan[i]) : i \in DOMAIN plan}
    /\ \A i, j \in DOMAIN plan : i # j => Members(plan[i]) \cap Members(plan[j]) = {}
    /\ \A i \in DOMAIN plan : Cardinality(Members(plan[i])) = Len(plan[i])

\* The requests of a batch agree on model and event type, and more than one
\* share it only within the size and the token budget (batching.py:32-42, 121-128).
BatchesAreCompatible ==
    \A i \in DOMAIN plan :
        LET batch == plan[i]
        IN  /\ \A c \in ToSet(batch) : c.model = batch[1].model /\ c.event = batch[1].event
            /\ Len(batch) > 1 => /\ Len(batch) <= MaxBatchSize
                                 /\ TotalTokens(batch) <= MaxBatchTokens
                                 /\ \A c \in ToSet(batch) : ~Immediate(c)

\* Batches are not cut short: the first candidate of a batch would not have
\* fitted into the batch before it, if that one is of the same kind and order
\* (batching.py:121-130).
BatchesAreFull ==
    \A i \in 1..(Len(plan) - 1) :
        LET batch == plan[i]
            next  == plan[i + 1]
        IN  ( /\ ~Immediate(batch[1]) /\ ~Immediate(next[1])
              /\ CompatibilityKey(batch[1]) = CompatibilityKey(next[1]) )
            => \/ Len(batch) = MaxBatchSize
               \/ TotalTokens(batch) + next[1].tokens > MaxBatchTokens

\* What build_batches promises its caller: nothing lost, doubled, mixed, over a
\* limit or cut short (batching.py:89-149).
BatchesAreSound == EachTaskInOneBatch /\ BatchesAreCompatible /\ BatchesAreFull

\* Urgent requests run before the others of the same receive, which may take
\* as long as an inference each (batching.py:98-110).
UrgentFirst ==
    \A i, j \in DOMAIN plan :
        (i < j /\ plan[j][1].priority <= HighPriorityThreshold)
            => plan[i][1].priority <= plan[j][1].priority

\* Whatever rule chose the model, the request fits it unless the caller named
\* the model or no model holds it (router.py:106-201).
ModelHoldsRequest ==
    \A i \in DOMAIN plan : \A c \in ToSet(plan[i]) :
        \/ c.tokens <= MaxContextTokens[c.model]
        \/ messages[c.id].request.requested = c.model
        \/ \A m \in Models : c.tokens > MaxContextTokens[m]

\* A model is judged slow exactly if it has enough samples and at least one in
\* twenty of them is slow (latency.py:54-60, 75-80): proved for every window, as
\* windows that TLC can fill are too short to tell one in twenty from any.
FivePercentDegrade ==
    \A m \in Models :
        Degraded(windows[m]) <=>
            /\ Len(windows[m]) >= MinSamples
            /\ 20 * Cardinality(SlowSamples(windows[m])) >= Len(windows[m])

\* A receive puts a request that no rule sends elsewhere onto a model that is
\* not degraded, if one holds it (router.py:157-159, 169-191).
DegradedIsAvoided ==
    [][Receive => \A i \in DOMAIN plan' : \A c \in ToSet(plan'[i]) :
        LET r == messages[c.id].request
        IN  ( /\ r.requested = NoModel
              /\ r.event \notin ComplexEventTypes
              /\ r.priority > 2
              /\ c.tokens <= MaxContextTokens[SmallestModel]
              /\ \E m \in Models \ DegradedModels : c.tokens <= MaxContextTokens[m] )
            => c.model \notin DegradedModels]_vars

\* Where every profile takes the batches the batcher builds, no delivery is
\* wasted: each one ends with an outcome, or with a model that no device can
\* hold (worker.py:476-498, gpu_scheduler.py:139).  The defaults are not such
\* a configuration: config.py:51 and config.py:61.
NoDeliveryIsWasted ==
    (\A m \in Models : MaxBatchSize <= MaxProfileBatch[m])
        => \A t \in At("queue") \cup At("dead") :
                messages[t].tried = messages[t].receives

\* Every request is completed or given up by the queue in the end
\* (worker.py:746-769).
EveryTaskIsDecided ==
    \A t \in Tasks : t \in At("queue") ~> t \notin At("queue") \cup At("hand")

=============================================================================
