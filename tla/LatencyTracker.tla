---------------------------- MODULE LatencyTracker ----------------------------
(***************************************************************************)
(* inference/latency.py: the sliding window of one model, as a sequence of *)
(* samples.  The durations are abstracted to what the verdict compares: a  *)
(* sample is TRUE when its duration exceeds p95_threshold_ms.              *)
(***************************************************************************)
EXTENDS Integers, Sequences, FiniteSets

CONSTANTS WindowSize,   \* policy.window_size
          MinSamples    \* policy.min_samples

\* config.py:80-82 bounds both from below by at least 1.
ASSUME LatencyAssumption ==
    /\ WindowSize \in Nat \ {0}
    /\ MinSamples \in Nat \ {0}

\* A mutant: the deque has no maxlen.
RecordedWithoutLimit(window, samples) == window \o samples

\* The window after each of the samples was appended to a deque of maxlen
\* window_size: the oldest ones leave.
Recorded(window, samples) ==
    LET all    == window \o samples
        excess == IF Len(all) > WindowSize THEN Len(all) - WindowSize ELSE 0
    IN  SubSeq(all, excess + 1, Len(all))

\* _percentile(window, 95): the index into the sorted durations.
Rank95(n) ==
    LET rank == (n * 95) \div 100
    IN  IF rank < n - 1 THEN rank ELSE n - 1

SlowSamples(window) == {i \in DOMAIN window : window[i]}
FastSamples(window) == DOMAIN window \ SlowSamples(window)

\* Sorted, the slow samples come last: the one at the rank is slow if and only
\* if there are not enough fast ones to reach it.
P95IsSlow(window) == Cardinality(FastSamples(window)) <= Rank95(Len(window))

Degraded(window) == Len(window) >= MinSamples /\ P95IsSlow(window)
=============================================================================
