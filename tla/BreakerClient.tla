---------------------------- MODULE BreakerClient ----------------------------
(***************************************************************************)
(* The circuit breaker under the protocol its callers follow               *)
(* (RAGWorker.process_batch, DemoWorker._process_batch): one allow_request *)
(* for a whole batch, then one record_success or record_failure for every  *)
(* output of the batch -- or none, when every request of the batch had     *)
(* expired (worker.py:563) or a store or queue call raised.                *)
(***************************************************************************)
EXTENDS CircuitBreaker

CONSTANTS MaxBatch,      \* batcher.policy.max_batch_size
          MayAbandon,    \* may an admitted batch end before its outcomes are recorded
          ManualReset    \* may an operator call reset(); nothing in src does

ASSUME ClientAssumption ==
    /\ MaxBatch \in Nat \ {0}
    /\ MayAbandon \in BOOLEAN
    /\ ManualReset \in BOOLEAN

VARIABLES breaker,   \* the CircuitBreaker object
          owed,      \* outputs of the admitted batch not yet recorded; 0 when idle
          streak,    \* history: failures recorded since the last success or reset
          trials     \* history: batches let through since the circuit last opened

vars == <<breaker, owed, streak, trials>>

Init ==
    /\ breaker = NewBreaker
    /\ owed = 0
    /\ streak = 0
    /\ trials = 0

\* The worker gates a batch: a refusal fast-fails it, a grant runs it.
Gate ==
    /\ owed = 0
    /\ breaker' = AfterAllow(breaker)
    /\ IF Granted(breaker)
       THEN /\ owed' \in 1..MaxBatch
            /\ trials' = IF Observe(breaker).state = "closed" THEN 0 ELSE trials + 1
       ELSE UNCHANGED <<owed, trials>>
    /\ UNCHANGED streak

\* An output of the admitted batch succeeded.
RecordSuccess ==
    /\ owed > 0
    /\ owed' = owed - 1
    /\ breaker' = AfterSuccess(breaker)
    /\ streak' = 0
    /\ UNCHANGED trials

\* An output of the admitted batch failed.
RecordFailure ==
    /\ owed > 0
    /\ owed' = owed - 1
    /\ breaker' = AfterFailure(breaker)
    /\ streak' = IF streak < FailureThreshold THEN streak + 1 ELSE streak
    /\ trials' = IF breaker'.state = "open" /\ breaker.state # "open" THEN 0 ELSE trials

\* The rest of the batch is dropped without an outcome.
Abandon ==
    /\ MayAbandon
    /\ owed > 0
    /\ owed' = 0
    /\ UNCHANGED <<breaker, streak, trials>>

Reset ==
    /\ ManualReset
    /\ breaker' = AfterReset(breaker)
    /\ streak' = 0
    /\ UNCHANGED <<owed, trials>>

Tick ==
    /\ breaker' = Elapse(breaker)
    /\ UNCHANGED <<owed, streak, trials>>

Next == Gate \/ RecordSuccess \/ RecordFailure \/ Abandon \/ Reset \/ Tick

Spec == Init /\ [][Next]_vars

\* Time passes, a granted batch reaches its end, and work keeps arriving.
Fairness ==
    /\ WF_vars(Tick)
    /\ WF_vars(Gate)
    /\ WF_vars(RecordSuccess \/ RecordFailure)

FairSpec == Spec /\ Fairness

-----------------------------------------------------------------------------
\* The breaker and its history stay in their ranges (circuit_breaker.py:70-76).
TypeOK ==
    /\ breaker \in Breaker
    /\ owed \in 0..MaxBatch
    /\ streak \in 0..FailureThreshold
    /\ trials \in Nat

\* The count a CLOSED circuit has kept is exactly the run of consecutive
\* failures, and it is below the threshold: the circuit neither trips on
\* failures separated by a success nor survives a full run of them
\* (circuit_breaker.py:107, 116).
ClosedCountsTheStreak ==
    breaker.state = "closed" =>
        breaker.failures = streak /\ streak < FailureThreshold

\* A HALF_OPEN circuit has been left alone for the whole recovery timeout: no
\* failure recorded late, by the tail of an earlier batch, shortens it
\* (circuit_breaker.py:82-84, 112-115).
HalfOpenIsRested ==
    breaker.state = "half_open" => breaker.since = RecoveryTimeout

\* Between two openings of the circuit the downstream sees at most
\* half_open_max_probes batches, whatever the outcomes recorded meanwhile
\* (circuit_breaker.py:94-98, 127-131).
ProbeBudget ==
    breaker.state # "closed" => trials <= HalfOpenMaxProbes

\* A batch let through by a circuit that is not CLOSED comes a full recovery
\* timeout after the last recorded failure (circuit_breaker.py:81-101).
NoTrialWhileCooling ==
    [][(Gate /\ owed' > 0 /\ breaker.state # "closed")
          => breaker.since >= RecoveryTimeout]_vars

\* An OPEN circuit closes only through HALF_OPEN or by hand, never on a success
\* recorded by the tail of the batch that opened it (circuit_breaker.py:103-107).
ClosesOnlyThroughTrial ==
    [][(breaker.state = "open" /\ breaker'.state = "closed") => Reset]_vars

\* Every outage is probed or reset in the end, however the batch that caused it
\* goes on (circuit_breaker.py:81-84).
OutageIsProbed == breaker.state = "open" ~> breaker.state # "open"

-----------------------------------------------------------------------------
(* What the documentation says of the breaker and the code does not keep.   *)

\* circuit_breaker.py:8 "HALF_OPEN -> testing recovery, allow one probe
\* request": the trial decides, and the circuit opens or closes again.
TrialIsDecided == breaker.state = "half_open" ~> breaker.state # "half_open"
=============================================================================
