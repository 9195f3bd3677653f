------------------------------ MODULE MCDispatch ------------------------------
(* TLC instance of Dispatch: the components as the worker configures them,  *)
(* with numbers scaled down, and the kinds of requests clients send.        *)
EXTENDS Dispatch, WorkerConfig

\* The shortest and the longest request of so many tokens.
Shortest(tokens) == IF tokens = 1 THEN 1 ELSE 4 * tokens
Longest(tokens) == 4 * tokens + 3

Plain(length) == [requested |-> NoModel, length |-> length,
                  event |-> "general_inference", priority |-> 5]

\* A plain request, one too large for the small model, two of which exceed the
\* token budget, a complex one, an urgent one, and one that names a model which
\* is too small for it.
MCKinds == {Plain(Shortest(1)), Plain(Shortest(3)),
            [Plain(Longest(1)) EXCEPT !.event = "analysis"],
            [Plain(Longest(1)) EXCEPT !.priority = 1],
            [Plain(Longest(5)) EXCEPT !.requested = 1]}

\* The rank of the percentile lies within a slow sample exactly if one sample in
\* twenty is slow, at every length of a window up to twice the twenty samples at
\* which that begins to mean more than "any" (latency.py:75-80); the run's own
\* windows are too short to tell.
ASSUME RankAtEveryLength ==
    \A n \in 1..40 : \A slow \in 0..n : n - slow <= Rank95(n) <=> 20 * slow >= n
=============================================================================
