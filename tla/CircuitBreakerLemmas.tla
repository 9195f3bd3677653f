------------------------- MODULE CircuitBreakerLemmas -------------------------
(***************************************************************************)
(* What the proofs about the callers of the circuit breaker need of its    *)
(* operations.                                                             *)
(***************************************************************************)
EXTENDS CircuitBreaker, TLAPS

\* The operations of circuit_breaker.py keep a breaker a breaker.
LEMMA OperationsTyped ==
    ASSUME NEW b \in Breaker
    PROVE  /\ NewBreaker \in Breaker
           /\ Observe(b) \in Breaker
           /\ AfterAllow(b) \in Breaker
           /\ AfterSuccess(b) \in Breaker
           /\ AfterFailure(b) \in Breaker
           /\ AfterReset(b) \in Breaker
           /\ Elapse(b) \in Breaker
<1> USE PolicyAssumption DEF Breaker, CircuitState
<1>1. NewBreaker \in Breaker
  BY DEF NewBreaker
<1>2. ASSUME NEW c \in Breaker, NEW new \in CircuitState
      PROVE  Transition(c, new) \in Breaker
  <2> DEFINE f == IF new = "closed" THEN 0 ELSE c.failures
             p == IF new \in {"closed", "half_open"} THEN 0 ELSE c.probes
  <2>1. f \in 0..FailureThreshold /\ p \in Nat
    OBVIOUS
  <2>2. Transition(c, new) = [c EXCEPT !.state = new, !.failures = f, !.probes = p]
    BY DEF Transition
  <2> HIDE DEF f, p
  <2> QED
    BY <2>1, <2>2
<1>3. Observe(b) \in Breaker
  BY <1>2 DEF Observe
<1>4. AfterAllow(b) \in Breaker
  <2>1. ASSUME NEW c \in Breaker
        PROVE  [c EXCEPT !.probes = @ + 1] \in Breaker
    OBVIOUS
  <2>2. [Observe(b) EXCEPT !.probes = @ + 1] \in Breaker
    BY <1>3, <2>1
  <2> QED
    BY <1>3, <2>2 DEF AfterAllow
<1>5. AfterSuccess(b) \in Breaker
  <2> DEFINE c == IF b.state = "half_open" THEN Transition(b, "closed") ELSE b
  <2>1. c \in Breaker
    BY <1>2
  <2>2. [c EXCEPT !.failures = 0] \in Breaker
    BY <2>1
  <2> QED
    BY <2>2 DEF AfterSuccess
<1>6. AfterFailure(b) \in Breaker
  <2> DEFINE c == [b EXCEPT !.failures = IF @ < FailureThreshold THEN @ + 1 ELSE @,
                            !.since = 0]
  <2>1. c \in Breaker
    <3> DEFINE n == IF b.failures < FailureThreshold THEN b.failures + 1 ELSE b.failures
    <3>1. n \in 0..FailureThreshold /\ 0 \in 0..RecoveryTimeout
      OBVIOUS
    <3>2. c = [b EXCEPT !.failures = n, !.since = 0]
      OBVIOUS
    <3> HIDE DEF c, n
    <3> QED
      BY <3>1, <3>2
  <2>2. Transition(c, "open") \in Breaker
    BY <1>2, <2>1
  <2> QED
    BY <2>1, <2>2 DEF AfterFailure
<1>7. AfterReset(b) \in Breaker
  BY <1>2 DEF AfterReset
<1>8. Elapse(b) \in Breaker
  BY DEF Elapse
<1> QED
  BY <1>1, <1>3, <1>4, <1>5, <1>6, <1>7, <1>8
=============================================================================
