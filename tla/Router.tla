-------------------------------- MODULE Router --------------------------------
(***************************************************************************)
(* inference/router.py: ModelRouter.route as a choice from the enabled     *)
(* profiles.  A model is its position in the configured list, which is     *)
(* what the stable sorts of the router fall back to.                       *)
(*                                                                         *)
(* A request is a record with the fields route reads:                      *)
(*   requested   the model asked for, NoModel for none or an unknown one   *)
(*   length      characters of its prompt, a newline and its context       *)
(*   event       event_type                                                *)
(*   priority    1 is the most urgent here                                 *)
(***************************************************************************)
EXTENDS Integers, FiniteSets

CONSTANTS Models,             \* the enabled profiles, as positions
          MaxContextTokens,   \* profile.max_context_tokens
          ProfilePriority,    \* profile.priority
          SupportsBatching,   \* the profiles with supports_batching
          ComplexEventTypes   \* COMPLEX_EVENT_TYPES

NoModel == 0

\* router.py:96: at least one enabled profile.
ASSUME RouterAssumption ==
    /\ Models # {} /\ Models \subseteq Nat \ {NoModel} /\ IsFiniteSet(Models)
    /\ MaxContextTokens \in [Models -> Nat]
    /\ ProfilePriority \in [Models -> Nat]
    /\ SupportsBatching \subseteq Models

\* estimated_tokens: a token is four characters, and there is always one.
EstimatedTokens(request) == IF request.length < 4 THEN 1 ELSE request.length \div 4

\* The sort key (max_context_tokens, priority), then the configured order.
Before(m, n) ==
    \/ MaxContextTokens[m] < MaxContextTokens[n]
    \/ /\ MaxContextTokens[m] = MaxContextTokens[n]
       /\ \/ ProfilePriority[m] < ProfilePriority[n]
          \/ ProfilePriority[m] = ProfilePriority[n] /\ m < n

First(S) == CHOOSE m \in S : \A n \in S \ {m} : Before(m, n)

SmallestModel == First(Models)
LargestModel  == CHOOSE m \in Models : \A n \in Models \ {m} : Before(n, m)

\* _smallest_model_that_fits, or the largest when there is none.
SmallestThatFits(tokens) ==
    LET fitting == {m \in Models : tokens <= MaxContextTokens[m]}
    IN  IF fitting = {} THEN LargestModel ELSE First(fitting)

\* The candidates of _check_latency_avoidance.
Alternatives(request, degraded) ==
    {m \in Models \ (degraded \cup {SmallestModel}) :
        EstimatedTokens(request) <= MaxContextTokens[m]}

\* A mutant: the context budget of the small model is not looked at.
RouteIgnoringSize(request, degraded) ==
    IF request.requested \in Models THEN request.requested
    ELSE IF request.event \in ComplexEventTypes \/ request.priority <= 2 THEN LargestModel
    ELSE SmallestModel

\* A mutant: the tracker is not consulted.
RouteBlind(request, degraded) ==
    LET tokens == EstimatedTokens(request)
    IN  IF request.requested \in Models THEN request.requested
        ELSE IF tokens > MaxContextTokens[SmallestModel] THEN SmallestThatFits(tokens)
        ELSE IF request.event \in ComplexEventTypes \/ request.priority <= 2 THEN LargestModel
        ELSE SmallestModel

Route(request, degraded) ==
    LET tokens == EstimatedTokens(request)
    IN  IF request.requested \in Models THEN request.requested
        ELSE IF tokens > MaxContextTokens[SmallestModel] THEN SmallestThatFits(tokens)
        ELSE IF request.event \in ComplexEventTypes \/ request.priority <= 2 THEN LargestModel
        ELSE IF SmallestModel \in degraded /\ Alternatives(request, degraded) # {}
        THEN First(Alternatives(request, degraded))
        ELSE SmallestModel
=============================================================================
