---------------------------- MODULE WorkerProcess ----------------------------
(***************************************************************************)
(* core/worker.py main, __init__ and run: the life of a worker process     *)
(* around process_messages, which is the module Worker's subject.          *)
(*                                                                         *)
(* Program counter of a process:                                           *)
(*   gone        no such process                                           *)
(*   connecting  __init__ tries to reach the model server                  *)
(*   starting    run, before the metrics endpoint is bound                 *)
(*   polling     the top of the loop                                       *)
(*   enabled     the kill switch was read as "true"                        *)
(*   holding     receive_message returned messages                         *)
(*   processing  in process_messages                                       *)
(*   pausing     in shutdown_event.wait(10) or wait(5)                     *)
(*   cleanup     the loop has ended                                        *)
(*                                                                         *)
(* stop is the process's shutdown_event, set by SIGTERM; its handler is    *)
(* installed before the first attempt to connect.                          *)
(***************************************************************************)
EXTENDS Naturals, FiniteSets

CONSTANTS
    Workers,      \* places for a worker process
    MaxRetries    \* worker_max_retries

ASSUME WorkerProcessAssumption ==
    /\ IsFiniteSet(Workers)
    /\ MaxRetries \in Nat \ {0}

VARIABLES
    proc,        \* where each process is
    endpoint,    \* processes whose WorkerMetricsServer listens
    switch,      \* the SSM parameter: may requests be processed
    stable,      \* environment: no fault happens any more
    receivedOff  \* history: receives of each process since the switch went off

procVars == <<proc, endpoint, switch, stable, receivedOff>>

Gone == [pc |-> "gone", attempt |-> 0, stop |-> FALSE]

Goes(w, from, to) ==
    /\ proc[w].pc = from
    /\ proc' = [proc EXCEPT ![w].pc = to]

\* The process ends, its endpoint (a daemon thread) with it.
Ends(w) ==
    /\ proc' = [proc EXCEPT ![w] = Gone]
    /\ endpoint' = endpoint \ {w}

-----------------------------------------------------------------------------
\* models.list answers: __init__ returns and run begins.
Connect(w) ==
    /\ Goes(w, "connecting", "starting")
    /\ UNCHANGED <<endpoint, switch, stable, receivedOff>>

\* An attempt fails and is retried after a sleep that no signal shortens; the
\* last one raises and main exits with 1.
ConnectFails(w) ==
    /\ ~stable
    /\ proc[w].pc = "connecting"
    /\ IF proc[w].attempt + 1 < MaxRetries
       THEN proc' = [proc EXCEPT ![w].attempt = @ + 1] /\ UNCHANGED endpoint
       ELSE Ends(w)
    /\ UNCHANGED <<switch, stable, receivedOff>>

\* WorkerMetricsServer.start: the port is bound.
StartEndpoint(w) ==
    /\ Goes(w, "starting", "polling")
    /\ endpoint' = endpoint \cup {w}
    /\ UNCHANGED <<switch, stable, receivedOff>>

\* The port is taken: the exception is outside of run's try, main exits with 1.
StartEndpointFails(w) ==
    /\ ~stable
    /\ proc[w].pc = "starting"
    /\ Ends(w)
    /\ UNCHANGED <<switch, stable, receivedOff>>

\* check_kill_switch says yes.
SwitchReadOn(w) ==
    /\ ~proc[w].stop /\ switch
    /\ Goes(w, "polling", "enabled")
    /\ UNCHANGED <<endpoint, switch, stable, receivedOff>>

\* It says no: the parameter is not "true", SSM refuses (ClientError), or SSM
\* cannot be reached, which raises into the loop's except.
SwitchReadOff(w) ==
    /\ ~proc[w].stop /\ (switch => ~stable)
    /\ Goes(w, "polling", "pausing")
    /\ UNCHANGED <<endpoint, switch, stable, receivedOff>>

\* receive_message returns messages.
Receive(w) ==
    /\ Goes(w, "enabled", "holding")
    /\ receivedOff' = [receivedOff EXCEPT ![w] = IF switch THEN @ ELSE @ + 1]
    /\ UNCHANGED <<endpoint, switch, stable>>

\* A mutant: an empty answer is polled again at once.
PollAgain(w) ==
    /\ proc[w].pc = "enabled"
    /\ receivedOff' = [receivedOff EXCEPT ![w] = IF switch THEN @ ELSE @ + 1]
    /\ UNCHANGED <<proc, endpoint, switch, stable>>

\* It returns nothing: back to the top of the loop.
ReceiveNothing(w) ==
    /\ Goes(w, "enabled", "polling")
    /\ receivedOff' = [receivedOff EXCEPT ![w] = IF switch THEN @ ELSE @ + 1]
    /\ UNCHANGED <<endpoint, switch, stable>>

\* It raises: a pause.
ReceiveRaises(w) ==
    /\ ~stable
    /\ Goes(w, "enabled", "pausing")
    /\ UNCHANGED <<endpoint, switch, stable, receivedOff>>

\* process_messages, unless a signal came during the long poll: then the
\* messages are left to their visibility timeout.
BeginProcessing(w) ==
    /\ ~proc[w].stop
    /\ Goes(w, "holding", "processing")
    /\ UNCHANGED <<endpoint, switch, stable, receivedOff>>

LeaveMessages(w) ==
    /\ proc[w].stop
    /\ Goes(w, "holding", "polling")
    /\ UNCHANGED <<endpoint, switch, stable, receivedOff>>

EndProcessing(w) ==
    /\ Goes(w, "processing", "polling")
    /\ UNCHANGED <<endpoint, switch, stable, receivedOff>>

\* It raises: record_error and a pause.
ProcessingRaises(w) ==
    /\ ~stable
    /\ Goes(w, "processing", "pausing")
    /\ UNCHANGED <<endpoint, switch, stable, receivedOff>>

\* The time is over, or the event is set.
EndPause(w) ==
    /\ Goes(w, "pausing", "polling")
    /\ UNCHANGED <<endpoint, switch, stable, receivedOff>>

EndLoop(w) ==
    /\ proc[w].stop
    /\ Goes(w, "polling", "cleanup")
    /\ UNCHANGED <<endpoint, switch, stable, receivedOff>>

\* _cleanup stops the endpoint; the process exits with 0.
Cleanup(w) ==
    /\ proc[w].pc = "cleanup"
    /\ Ends(w)
    /\ UNCHANGED <<switch, stable, receivedOff>>

ProcessStep(w) ==
    \/ Connect(w) \/ ConnectFails(w) \/ StartEndpoint(w) \/ StartEndpointFails(w)
    \/ SwitchReadOn(w) \/ SwitchReadOff(w)
    \/ Receive(w) \/ ReceiveNothing(w) \/ ReceiveRaises(w)
    \/ BeginProcessing(w) \/ LeaveMessages(w) \/ EndProcessing(w) \/ ProcessingRaises(w)
    \/ EndPause(w) \/ EndLoop(w) \/ Cleanup(w)
=============================================================================
