----------------------------- MODULE Autoscaler -----------------------------
(***************************************************************************)
(* core/autoscaler.py Autoscaler.evaluate as an operator on what the       *)
(* caller reports: the count of workers, and the wait, deferrals,          *)
(* utilization and idle time of ClusterState as signals.  A decision is    *)
(* the new desired count and whether it is recorded, which starts the      *)
(* cooldown; HOLD is not recorded.                                         *)
(***************************************************************************)
EXTENDS Integers, FiniteSetsExt

CONSTANTS
    MinWorkers, MaxWorkers,  \* AutoscalingPolicy.min_workers and max_workers
    TargetWait,              \* target_queue_wait_ms
    TargetUtilization,       \* target_utilization_percent
    DeferralThreshold,       \* scale_up_threshold_deferrals
    IdleLimit                \* scale_down_idle_seconds

ASSUME AutoscalerAssumption ==
    /\ {MinWorkers, MaxWorkers, TargetWait, TargetUtilization, DeferralThreshold, IdleLimit}
          \subseteq Nat
    /\ MinWorkers <= MaxWorkers

Hold(current) == [desired |-> current, recorded |-> FALSE]

Recorded(current, desired) == [desired |-> desired, recorded |-> desired # current]

\* A mutant: no maximum.
ScaleUpUnbounded(current) == Recorded(current, current + 1)

\* A mutant: the maximum itself is never reached.
ScaleUpBelowMax(current) == Recorded(current, Min({current + 1, MaxWorkers - 1}))

ScaleUp(current) == Recorded(current, Min({current + 1, MaxWorkers}))

ScaleDown(current) == Recorded(current, Max({current - 1, MinWorkers}))

\* The three triggers of a scale-up; only the reason tells them apart.
Pressed(signals) ==
    \/ signals.wait > TargetWait
    \/ signals.deferrals >= DeferralThreshold
    \/ signals.utilization > TargetUtilization

Idle(signals) == ~Pressed(signals) /\ signals.idle > IdleLimit

Evaluate(current, signals, cooling) ==
    CASE cooling -> Hold(current)
      [] ~cooling /\ Pressed(signals) -> ScaleUp(current)
      [] ~cooling /\ Idle(signals) /\ current > MinWorkers -> ScaleDown(current)
      [] OTHER -> Hold(current)
=============================================================================
