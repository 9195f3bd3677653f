---------------------------- MODULE BreakerProofs ----------------------------
(***************************************************************************)
(* The safety properties of BreakerClient hold for every policy and every  *)
(* batch size.  They follow from one inductive invariant, BreakerInv.      *)
(***************************************************************************)
EXTENDS BreakerClient, CircuitBreakerLemmas

\* In HALF_OPEN the history counter is the breaker's own probe counter; in
\* OPEN no trial has been made yet.
TrialsAreProbes ==
    /\ breaker.state = "half_open" =>
           trials = breaker.probes /\ trials <= HalfOpenMaxProbes
    /\ breaker.state = "open" => trials = 0

BreakerInv ==
    /\ TypeOK
    /\ ClosedCountsTheStreak
    /\ HalfOpenIsRested
    /\ TrialsAreProbes

LEMMA InitInv == Init => BreakerInv
  BY PolicyAssumption, ClientAssumption
     DEF Init, BreakerInv, TypeOK, ClosedCountsTheStreak, HalfOpenIsRested,
         TrialsAreProbes, NewBreaker, Breaker, CircuitState

\* Gating a batch, refused or let through.
LEMMA GateInv == BreakerInv /\ Gate => BreakerInv'
<1> SUFFICES ASSUME BreakerInv, Gate PROVE BreakerInv'
  OBVIOUS
<1> USE PolicyAssumption, ClientAssumption
<1>1. breaker \in Breaker /\ AfterAllow(breaker) \in Breaker
  BY OperationsTyped DEF BreakerInv, TypeOK
<1>2. TypeOK'
  BY <1>1 DEF Gate, BreakerInv, TypeOK
<1>3. ClosedCountsTheStreak'
  BY <1>1 DEF Gate, BreakerInv, ClosedCountsTheStreak, AfterAllow, Observe,
              Transition, Breaker
<1>4. HalfOpenIsRested'
  BY <1>1 DEF Gate, BreakerInv, HalfOpenIsRested, AfterAllow, Observe,
              Transition, Breaker
<1>5. TrialsAreProbes'
  BY <1>1 DEF Gate, BreakerInv, TypeOK, TrialsAreProbes, AfterAllow, Granted,
              Observe, Transition, Breaker
<1> QED
  BY <1>2, <1>3, <1>4, <1>5 DEF BreakerInv

LEMMA SuccessInv == BreakerInv /\ RecordSuccess => BreakerInv'
<1> SUFFICES ASSUME BreakerInv, RecordSuccess PROVE BreakerInv'
  OBVIOUS
<1> USE PolicyAssumption, ClientAssumption
<1>1. breaker \in Breaker /\ AfterSuccess(breaker) \in Breaker
  BY OperationsTyped DEF BreakerInv, TypeOK
<1>2. TypeOK'
  BY <1>1 DEF RecordSuccess, BreakerInv, TypeOK
<1>3. ClosedCountsTheStreak' /\ HalfOpenIsRested' /\ TrialsAreProbes'
  BY <1>1 DEF RecordSuccess, BreakerInv, ClosedCountsTheStreak, HalfOpenIsRested,
              TrialsAreProbes, AfterSuccess, Transition, Breaker
<1> QED
  BY <1>2, <1>3 DEF BreakerInv

LEMMA FailureInv == BreakerInv /\ RecordFailure => BreakerInv'
<1> SUFFICES ASSUME BreakerInv, RecordFailure PROVE BreakerInv'
  OBVIOUS
<1> USE PolicyAssumption, ClientAssumption
<1>1. breaker \in Breaker /\ AfterFailure(breaker) \in Breaker
  BY OperationsTyped DEF BreakerInv, TypeOK
<1>2. TypeOK'
  BY <1>1 DEF RecordFailure, BreakerInv, TypeOK
<1>3. ClosedCountsTheStreak'
  BY <1>1 DEF RecordFailure, BreakerInv, TypeOK, ClosedCountsTheStreak,
              AfterFailure, Transition, Breaker
<1>4. HalfOpenIsRested'
  BY <1>1 DEF RecordFailure, BreakerInv, AfterFailure, HalfOpenIsRested,
              Transition, Breaker, CircuitState
<1>5. TrialsAreProbes'
  BY <1>1 DEF RecordFailure, BreakerInv, TypeOK, TrialsAreProbes,
              AfterFailure, Transition, Breaker, CircuitState
<1> QED
  BY <1>2, <1>3, <1>4, <1>5 DEF BreakerInv

\* The three remaining actions: an abandoned batch, a reset, the clock.
LEMMA OtherInv ==
    BreakerInv /\ (Abandon \/ Reset \/ Tick \/ UNCHANGED vars) => BreakerInv'
<1> SUFFICES ASSUME BreakerInv PROVE (Abandon \/ Reset \/ Tick \/ UNCHANGED vars)
                                         => BreakerInv'
  OBVIOUS
<1> USE PolicyAssumption, ClientAssumption
<1>0. breaker \in Breaker /\ AfterReset(breaker) \in Breaker /\ Elapse(breaker) \in Breaker
  BY OperationsTyped DEF BreakerInv, TypeOK
<1>1. CASE Abandon
  BY <1>1 DEF Abandon, BreakerInv, TypeOK, ClosedCountsTheStreak, HalfOpenIsRested,
              TrialsAreProbes
<1>2. CASE Reset
  <2>1. TypeOK'
    BY <1>0, <1>2 DEF Reset, BreakerInv, TypeOK
  <2> QED
    BY <1>0, <1>2, <2>1 DEF Reset, BreakerInv, ClosedCountsTheStreak, HalfOpenIsRested,
                            TrialsAreProbes, AfterReset, Transition, Breaker
<1>3. CASE Tick
  <2>1. TypeOK'
    BY <1>0, <1>3 DEF Tick, BreakerInv, TypeOK
  <2> QED
    BY <1>0, <1>3, <2>1 DEF Tick, BreakerInv, ClosedCountsTheStreak, HalfOpenIsRested,
                            TrialsAreProbes, Elapse, Breaker
<1>4. CASE UNCHANGED vars
  BY <1>4 DEF vars, BreakerInv, TypeOK, ClosedCountsTheStreak, HalfOpenIsRested,
              TrialsAreProbes
<1> QED
  BY <1>1, <1>2, <1>3, <1>4

\* The invariant holds in every reachable state (circuit_breaker.py:67-142
\* under the calls of worker.py:508-625).
THEOREM BreakerInvariant == Spec => []BreakerInv
<1>1. BreakerInv /\ [Next]_vars => BreakerInv'
  BY GateInv, SuccessInv, FailureInv, OtherInv DEF Next
<1> QED
  BY InitInv, <1>1, PTL DEF Spec

\* Type correctness of the breaker (circuit_breaker.py:70-76).
THEOREM TypeCorrect == Spec => []TypeOK
<1>1. BreakerInv => TypeOK
  BY DEF BreakerInv
<1> QED
  BY BreakerInvariant, <1>1, PTL

\* A CLOSED circuit's count is its run of consecutive failures, below the
\* threshold (circuit_breaker.py:107, 116).
THEOREM TripsOnTheStreak == Spec => []ClosedCountsTheStreak
<1>1. BreakerInv => ClosedCountsTheStreak
  BY DEF BreakerInv
<1> QED
  BY BreakerInvariant, <1>1, PTL

\* Between two openings at most half_open_max_probes batches pass
\* (circuit_breaker.py:94-98).
THEOREM ProbesAreBounded == Spec => []ProbeBudget
<1>1. BreakerInv => ProbeBudget
  BY PolicyAssumption
     DEF BreakerInv, TypeOK, Breaker, CircuitState, TrialsAreProbes, ProbeBudget
<1> QED
  BY BreakerInvariant, <1>1, PTL

\* No batch passes a circuit that is not CLOSED before the recovery timeout
\* has run since the last failure (circuit_breaker.py:81-101).
THEOREM TrialsWaitForRecovery == Spec => NoTrialWhileCooling
<1>1. BreakerInv /\ [Next]_vars =>
          [(Gate /\ owed' > 0 /\ breaker.state # "closed")
              => breaker.since >= RecoveryTimeout]_vars
  <2> SUFFICES ASSUME BreakerInv, Gate, owed' > 0, breaker.state # "closed"
               PROVE  breaker.since >= RecoveryTimeout
    OBVIOUS
  <2>1. Granted(breaker)
    BY DEF Gate
  <2>2. CASE breaker.state = "open"
    BY <2>1, <2>2 DEF Granted, Observe
  <2>3. CASE breaker.state = "half_open"
    BY <2>3, PolicyAssumption DEF BreakerInv, HalfOpenIsRested
  <2> QED
    BY <2>2, <2>3 DEF BreakerInv, TypeOK, Breaker, CircuitState
<1> QED
  BY BreakerInvariant, <1>1, PTL DEF Spec, NoTrialWhileCooling

\* A HALF_OPEN circuit has been left alone for the whole recovery timeout, so a
\* probe never meets a failure that is younger (circuit_breaker.py:82-84).
THEOREM HalfOpenWasRested == Spec => []HalfOpenIsRested
<1>1. BreakerInv => HalfOpenIsRested
  BY DEF BreakerInv
<1> QED
  BY BreakerInvariant, <1>1, PTL

\* An OPEN circuit is closed only by hand: every other way out of OPEN leads to
\* HALF_OPEN (circuit_breaker.py:81-107).
THEOREM ClosesByTrialOrHand == Spec => ClosesOnlyThroughTrial
<1>1. BreakerInv /\ [Next]_vars =>
          [(breaker.state = "open" /\ breaker'.state = "closed") => Reset]_vars
  <2> SUFFICES ASSUME BreakerInv, Next, breaker.state = "open", ~Reset
               PROVE  breaker'.state # "closed"
    OBVIOUS
  <2>0. breaker \in Breaker
    BY DEF BreakerInv, TypeOK
  <2>1. CASE Gate
    BY <2>0, <2>1 DEF Gate, AfterAllow, Observe, Transition, Breaker
  <2>2. CASE RecordSuccess
    BY <2>0, <2>2 DEF RecordSuccess, AfterSuccess, Breaker
  <2>3. CASE RecordFailure
    BY <2>0, <2>3 DEF RecordFailure, AfterFailure, Transition, Breaker
  <2>4. CASE Abandon \/ Tick
    BY <2>0, <2>4 DEF Abandon, Tick, Elapse, Breaker
  <2> QED
    BY <2>1, <2>2, <2>3, <2>4 DEF Next
<1> QED
  BY BreakerInvariant, <1>1, PTL DEF Spec, ClosesOnlyThroughTrial
=============================================================================
