---------------------------- MODULE DemoReconciler ----------------------------
(***************************************************************************)
(* core/reconciliation_scheduler.py ReconciliationScheduler over an engine *)
(* in dry-run mode: a pass is two scans of the result store; it heals      *)
(* nothing, and any exception out of it is caught and logged.              *)
(*                                                                         *)
(* Program counter of a thread in _loop:                                   *)
(*   ready       before it looks at the stop event, interval waited        *)
(*   pending     in the scan for PENDING records                           *)
(*   between     between the two scans                                     *)
(*   processing  in the scan for PROCESSING records                        *)
(*   ended       _loop has returned                                        *)
(*                                                                         *)
(* stop joins the thread for the interval and a second and then returns,   *)
(* whether or not the thread has ended, so it is one step here.            *)
(***************************************************************************)
EXTENDS DemoState

LoopRest == <<db, queue, call, worker, trail, counters, batchSizes, outcome, announced>>

Alive == {l \in Loops : loop[l].pc \notin {"unborn", "ended"}}

\* The running property.
Running == scheduler.thread \in Alive

\* start does nothing while the thread is alive, stopped or not.
StartLoop ==
    /\ ~Running
    /\ \E l \in Loops : loop[l] = Unborn
    /\ scheduler' = [stop |-> FALSE, thread |-> CHOOSE l \in Loops : loop[l] = Unborn]
    /\ loop' = [loop EXCEPT ![scheduler'.thread].pc = "ready"]
    /\ UNCHANGED LoopRest

StopLoop ==
    /\ ~scheduler.stop
    /\ scheduler' = [scheduler EXCEPT !.stop = TRUE]
    /\ UNCHANGED <<loop, LoopRest>>

\* The top of the loop: it ends, or a pass begins with its first scan.
TopOfLoop(l) ==
    /\ loop[l].pc = "ready"
    /\ loop' = [loop EXCEPT ![l] = IF scheduler.stop THEN [Unborn EXCEPT !.pc = "ended"]
                                   ELSE [pc |-> "pending", size |-> Len(db.keys)]]
    /\ UNCHANGED <<scheduler, LoopRest>>

\* A scan ends, having met no insertion: what it found is only logged.
EndScan(l) ==
    /\ loop[l].pc \in {"pending", "processing"}
    /\ loop[l].size = Len(db.keys)
    /\ loop' = [loop EXCEPT ![l] = [pc |-> IF @.pc = "pending" THEN "between" ELSE "ready",
                                    size |-> 0]]
    /\ UNCHANGED <<scheduler, LoopRest>>

BeginSecondPass(l) ==
    /\ loop[l].pc = "between"
    /\ loop' = [loop EXCEPT ![l] = [pc |-> "processing", size |-> Len(db.keys)]]
    /\ UNCHANGED <<scheduler, LoopRest>>

\* A mutant: nothing catches what the pass raises.
PassEndsThread(l) ==
    /\ loop[l].pc \in {"pending", "processing"}
    /\ loop[l].size # Len(db.keys)
    /\ loop' = [loop EXCEPT ![l] = [Unborn EXCEPT !.pc = "ended"]]
    /\ UNCHANGED <<scheduler, LoopRest>>

\* A scan meets an insertion: RuntimeError, caught by _loop.
PassRaises(l) ==
    /\ loop[l].pc \in {"pending", "processing"}
    /\ loop[l].size # Len(db.keys)
    /\ loop' = [loop EXCEPT ![l] = [Unborn EXCEPT !.pc = "ready"]]
    /\ UNCHANGED <<scheduler, LoopRest>>

LoopStep(l) == TopOfLoop(l) \/ EndScan(l) \/ BeginSecondPass(l) \/ PassRaises(l)

SchedulerStep == StartLoop \/ StopLoop \/ \E l \in Loops : LoopStep(l)
=============================================================================
