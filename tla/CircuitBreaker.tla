--------------------------- MODULE CircuitBreaker ---------------------------
(***************************************************************************)
(* inference/circuit_breaker.py: the breaker in front of the vLLM adapter, *)
(* as operators on one breaker record.  BreakerClient and Platform keep    *)
(* such records as part of their state.                                    *)
(*                                                                         *)
(* Two fields are abstracted to what the code compares:                    *)
(*   since     seconds since _last_failure_time, saturating at             *)
(*             RecoveryTimeout, the only value it is compared with;        *)
(*   failures  _failure_count, saturating at FailureThreshold, likewise.   *)
(***************************************************************************)
EXTENDS Naturals

CONSTANTS FailureThreshold,   \* policy.failure_threshold
          RecoveryTimeout,    \* policy.recovery_timeout_seconds
          HalfOpenMaxProbes   \* policy.half_open_max_probes

\* config.py:76 bounds the threshold below by 1; nothing bounds the probes.
ASSUME PolicyAssumption ==
    /\ FailureThreshold \in Nat \ {0}
    /\ RecoveryTimeout \in Nat
    /\ HalfOpenMaxProbes \in Nat

CircuitState == {"closed", "open", "half_open"}

Breaker == [state    : CircuitState,
            failures : 0..FailureThreshold,
            since    : 0..RecoveryTimeout,
            probes   : Nat]

\* _last_failure_time starts at the epoch: the timeout has long elapsed.
NewBreaker == [state |-> "closed", failures |-> 0,
               since |-> RecoveryTimeout, probes |-> 0]

Transition(b, new) ==
    [b EXCEPT !.state = new,
              !.failures = IF new = "closed" THEN 0 ELSE @,
              !.probes = IF new \in {"closed", "half_open"} THEN 0 ELSE @]

\* A mutant: the circuit leaves OPEN as soon as it is looked at.
ObserveWithoutTimeout(b) ==
    IF b.state = "open" THEN Transition(b, "half_open") ELSE b

\* Reading .state moves an OPEN circuit whose timeout elapsed to HALF_OPEN.
Observe(b) ==
    IF b.state = "open" /\ b.since >= RecoveryTimeout
    THEN Transition(b, "half_open")
    ELSE b

\* A mutant: the probe limit is off by one.
GrantedOneMore(b) ==
    LET seen == Observe(b)
    IN  \/ seen.state = "closed"
        \/ seen.state = "half_open" /\ seen.probes <= HalfOpenMaxProbes

\* What allow_request returns ...
Granted(b) ==
    LET seen == Observe(b)
    IN  \/ seen.state = "closed"
        \/ seen.state = "half_open" /\ seen.probes < HalfOpenMaxProbes

\* A mutant: a refused call counts as a failure of now.
AfterAllowRefreshing(b) ==
    LET seen == Observe(b)
    IN  IF Granted(b)
        THEN [seen EXCEPT !.probes = IF seen.state = "half_open" THEN @ + 1 ELSE @]
        ELSE [seen EXCEPT !.since = 0]

\* ... and the breaker it leaves behind.
AfterAllow(b) ==
    LET seen == Observe(b)
    IN  IF seen.state = "half_open" /\ Granted(b)
        THEN [seen EXCEPT !.probes = @ + 1]
        ELSE seen

\* A mutant: a success in CLOSED does not clear the failure count.
AfterSuccessKeepsCount(b) ==
    IF b.state = "half_open" THEN Transition(b, "closed") ELSE b

\* A mutant: a success closes the circuit whatever its state.
AfterSuccessClosesAny(b) == [Transition(b, "closed") EXCEPT !.failures = 0]

AfterSuccess(b) ==
    [(IF b.state = "half_open" THEN Transition(b, "closed") ELSE b)
        EXCEPT !.failures = 0]

\* A mutant: only a failure in CLOSED can open the circuit.
AfterFailureIgnoresProbe(b) ==
    LET counted == [b EXCEPT !.failures = IF @ < FailureThreshold THEN @ + 1 ELSE @,
                             !.since = 0]
    IN  IF b.state = "closed" /\ counted.failures >= FailureThreshold
        THEN Transition(counted, "open")
        ELSE counted

\* A mutant: the circuit opens only beyond the threshold.
AfterFailureTripsLate(b) ==
    LET counted == [b EXCEPT !.failures = @ + 1, !.since = 0]
    IN  IF \/ b.state = "half_open"
           \/ b.state = "closed" /\ counted.failures > FailureThreshold
        THEN Transition(counted, "open")
        ELSE counted

AfterFailure(b) ==
    LET counted == [b EXCEPT !.failures = IF @ < FailureThreshold THEN @ + 1 ELSE @,
                             !.since = 0]
    IN  IF \/ b.state = "half_open"
           \/ b.state = "closed" /\ counted.failures >= FailureThreshold
        THEN Transition(counted, "open")
        ELSE counted

AfterReset(b) == Transition(b, "closed")

\* One unit of time passes.
Elapse(b) == [b EXCEPT !.since = IF @ < RecoveryTimeout THEN @ + 1 ELSE @]
=============================================================================
