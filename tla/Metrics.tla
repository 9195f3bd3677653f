------------------------------- MODULE Metrics -------------------------------
(***************************************************************************)
(* core/metrics.py as pure operators: what an event does to the aggregates *)
(* of PrometheusMetricsSink, which holds a lock around each event and each *)
(* rendering.  Series are told apart by name and outcome, not by model.    *)
(* CompositeMetricsSink hands an event to the JSONL file first: when the   *)
(* file cannot be written the exception goes to the caller of record_...,  *)
(* and the aggregates miss the event.  Rejections, waiting times and       *)
(* reconciliation passes are not counted here: they would have no bound.   *)
(***************************************************************************)
EXTENDS Naturals, Sequences

Series == {"accepted", "completed", "failed", "scheduled", "deferred"}

\* The counters an event increments.
Increments ==
    [request_accepted    |-> {"accepted"},
     inference_started   |-> {},
     inference_completed |-> {"completed"},
     inference_failed    |-> {"failed"},
     placed              |-> {"scheduled"},    \* scheduling_decision, scheduled
     deferred            |-> {"deferred"}]     \* scheduling_decision, not scheduled

NoCounts == [s \in Series |-> 0]

Emitted(counters, event) ==
    [s \in Series |-> counters[s] + IF s \in Increments[event] THEN 1 ELSE 0]

\* _Histogram: cumulative counts per boundary, count and total.
NewHistogram(buckets) == [counts |-> [b \in buckets |-> 0], count |-> 0, total |-> 0]

\* A mutant: only the first bucket the value fits in is incremented.
ObservedOnce(h, value) ==
    [counts |-> [b \in DOMAIN h.counts |->
                    IF value <= b /\ \A a \in DOMAIN h.counts : value <= a => b <= a
                    THEN h.counts[b] + 1 ELSE h.counts[b]],
     count  |-> h.count + 1,
     total  |-> h.total + value]

\* observe: every bucket from the value up is incremented.
Observed(h, value) ==
    [counts |-> [b \in DOMAIN h.counts |->
                    IF value <= b THEN h.counts[b] + 1 ELSE h.counts[b]],
     count  |-> h.count + 1,
     total  |-> h.total + value]
=============================================================================
