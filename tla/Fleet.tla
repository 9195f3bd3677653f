-------------------------------- MODULE Fleet --------------------------------
(***************************************************************************)
(* A pool of worker processes under the autoscaler, an ECS service and the *)
(* kill switch: core/autoscaler.py, core/scaling_executor.py and the       *)
(* process part of core/worker.py.                                         *)
(*                                                                         *)
(* The loop that builds a ClusterState, evaluates and executes is the      *)
(* caller's and not in the repository: external.  It reports the desired   *)
(* or the running count, and time passes between evaluation and execution. *)
(* The service starts and stops processes to meet the desired count:       *)
(* external as well.                                                       *)
(***************************************************************************)
EXTENDS Autoscaler, WorkerProcess

CONSTANTS
    InitialWorkers,   \* the desired count the service starts with
    Cooldown          \* cooldown_seconds, in ticks

ASSUME FleetAssumption ==
    /\ InitialWorkers \in MinWorkers..MaxWorkers
    /\ MaxWorkers <= Cardinality(Workers)
    /\ Cooldown \in Nat

VARIABLES
    desired,   \* desired count of the service
    cooling,   \* ticks until the cooldown is over
    decision,  \* the decision the caller is about to execute, if any
    load       \* environment: how much there is to do

vars == <<procVars, desired, cooling, decision, load>>

Undecided == [desired |-> 0, recorded |-> FALSE]

\* What ECS counts as running.
Running == {w \in Workers : proc[w].pc # "gone" /\ ~proc[w].stop}

Init ==
    /\ proc = [w \in Workers |-> Gone]
    /\ endpoint = {}
    /\ switch \in BOOLEAN
    /\ stable = FALSE
    /\ receivedOff = [w \in Workers |-> 0]
    /\ desired = InitialWorkers
    /\ cooling = 0
    /\ decision = Undecided
    /\ load = "normal"

-----------------------------------------------------------------------------
(* The autoscaler and the executor.                                        *)

Loads == {"pressed", "normal", "idle"}

\* What the caller may see of each load: values up to and beyond each limit.
Signals ==
    LET All == [wait        : {TargetWait, TargetWait + 1},
                deferrals   : {DeferralThreshold - 1, DeferralThreshold},
                utilization : {TargetUtilization, TargetUtilization + 1},
                idle        : {IdleLimit, IdleLimit + 1}]
    IN  [pressed |-> {s \in All : Pressed(s)},
         normal  |-> {s \in All : ~Pressed(s) /\ ~Idle(s)},
         idle    |-> {s \in All : Idle(s)}]

\* Autoscaler.evaluate; _record starts the cooldown before anything is executed.
EvaluateLoad ==
    /\ decision = Undecided
    /\ \E verdict \in {Evaluate(current, signals, cooling > 0) :
                        current \in {desired, Cardinality(Running)}, signals \in Signals[load]} :
          /\ decision' = IF verdict.recorded THEN verdict ELSE Undecided
          /\ cooling' = IF verdict.recorded THEN Cooldown ELSE cooling
    /\ UNCHANGED <<procVars, desired, load>>

\* EcsScalingExecutor.execute, AsgScalingExecutor.execute: dry_run is not looked at.
Execute ==
    /\ decision # Undecided
    /\ desired' = decision.desired
    /\ decision' = Undecided
    /\ UNCHANGED <<procVars, cooling, load>>

\* The call fails: False, and the cooldown runs all the same.
ExecuteFails ==
    /\ ~stable
    /\ decision # Undecided
    /\ decision' = Undecided
    /\ UNCHANGED <<procVars, desired, cooling, load>>

Tick ==
    /\ cooling > 0
    /\ cooling' = cooling - 1
    /\ UNCHANGED <<procVars, desired, decision, load>>

-----------------------------------------------------------------------------
(* The service: external.                                                  *)

Launch(w) ==
    /\ proc[w].pc = "gone"
    /\ Cardinality(Running) < desired
    /\ proc' = [proc EXCEPT ![w].pc = "connecting"]
    /\ receivedOff' = [receivedOff EXCEPT ![w] = 0]
    /\ UNCHANGED <<endpoint, switch, stable, desired, cooling, decision, load>>

\* SIGTERM.
Terminate(w) ==
    /\ w \in Running
    /\ Cardinality(Running) > desired
    /\ proc' = [proc EXCEPT ![w].stop = TRUE]
    /\ UNCHANGED <<endpoint, switch, stable, receivedOff, desired, cooling, decision, load>>

\* SIGKILL when the stop timeout is over, or a crash.
Kill(w) ==
    /\ proc[w].pc # "gone"
    /\ proc[w].stop \/ ~stable
    /\ Ends(w)
    /\ UNCHANGED <<switch, stable, receivedOff, desired, cooling, decision, load>>

ServiceStep == \E w \in Workers : Launch(w) \/ Terminate(w) \/ Kill(w)

-----------------------------------------------------------------------------
(* The environment.                                                        *)

\* An operator turns the switch off or on.
Flip ==
    /\ switch' = ~switch
    /\ receivedOff' = [w \in Workers |-> 0]
    /\ UNCHANGED <<proc, endpoint, stable, desired, cooling, decision, load>>

ChangeLoad ==
    /\ load' \in Loads \ {load}
    /\ UNCHANGED <<procVars, desired, cooling, decision>>

\* From here on no connection, call or process fails.
Stabilise ==
    /\ ~stable
    /\ stable' = TRUE
    /\ UNCHANGED <<proc, endpoint, switch, receivedOff, desired, cooling, decision, load>>

\* A worker process runs.
ProcessRuns(w) == ProcessStep(w) /\ UNCHANGED <<desired, cooling, decision, load>>

Next ==
    \/ EvaluateLoad \/ Execute \/ ExecuteFails \/ Tick
    \/ \E w \in Workers : ProcessRuns(w)
    \/ ServiceStep
    \/ Flip \/ ChangeLoad \/ Stabilise

Spec == Init /\ [][Next]_vars

\* The caller goes on evaluating and executing, time passes, processes run and
\* the service reconciles.  Switch, load and faults are nobody's duty.
Fairness ==
    /\ WF_vars(EvaluateLoad) /\ WF_vars(Execute) /\ WF_vars(Tick)
    /\ \A w \in Workers : WF_vars(ProcessRuns(w))
    /\ WF_vars(\E w \in Workers : Launch(w) \/ Terminate(w))

FairSpec == Spec /\ Fairness

-----------------------------------------------------------------------------
(* Properties.                                                             *)

\* A scale-up from no running worker asks for one, however large the minimum
\* (autoscaler.py:146).
Lowest == Min({1, MinWorkers})

\* Every variable has its type; whichever count the caller reports and however
\* old it is when the decision is executed, the desired count never exceeds the
\* policy's maximum and never falls below its minimum, or below one where the
\* minimum is larger: a scale-up does not look at min_workers
\* (autoscaler.py:146 and 167).
TypeOK ==
    /\ \A w \in Workers :
          /\ proc[w].pc \in {"gone", "connecting", "starting", "polling", "enabled", "holding",
                             "processing", "pausing", "cleanup"}
          /\ proc[w].attempt \in 0..MaxRetries - 1
          /\ proc[w].stop \in BOOLEAN
    /\ endpoint = {w \in Workers : proc[w].pc \notin {"gone", "connecting", "starting"}}
    /\ {switch, stable} \subseteq BOOLEAN
    /\ desired \in Lowest..MaxWorkers
    /\ cooling \in 0..Cooldown
    /\ decision \in [desired : 0..MaxWorkers, recorded : BOOLEAN]
    /\ load \in Loads

\* The kill switch (worker.py:749): after it is turned off a process receives
\* from the queue at most once more, with the permission it had read before.
SwitchIsObeyed == \A w \in Workers : receivedOff[w] <= 1

\* The pool follows the load once faults end (autoscaler.py:110, worker.py:746):
\* if the pressure stays, all MaxWorkers processes run and stay, despite failed
\* executions, cooldowns, processes that never connected and counts reported
\* late; if the pool stays idle it shrinks to MinWorkers; and every process that
\* got its SIGTERM ends, in whatever step it was.
PoolFollowsLoad ==
    /\ <>[](stable /\ load = "pressed") => <>[](Cardinality(Running) = MaxWorkers)
    /\ <>[](stable /\ load = "idle") => <>[](Cardinality(Running) = MinWorkers)
    /\ \A w \in Workers : proc[w].stop ~> ~proc[w].stop
=============================================================================
