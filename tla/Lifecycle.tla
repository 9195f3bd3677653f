------------------------------ MODULE Lifecycle ------------------------------
(***************************************************************************)
(* What a deployment in one process promises about every request, without  *)
(* queue, threads, batches, metrics and audit.  A request is published     *)
(* once; it is announced (PENDING) once; the one worker takes it up at     *)
(* most once, marks it PROCESSING at most once and settles it exactly once *)
(* for as long as the worker serves.  Announcing and working are not       *)
(* ordered, and the record shows whichever wrote last.                     *)
(***************************************************************************)
CONSTANT Requests

VARIABLES
    phase,      \* how far the worker is with each request
    announced,  \* requests whose PENDING record was written
    status,     \* what the record of each request shows
    serving     \* has the worker not died

vars == <<phase, announced, status, serving>>

Init ==
    /\ phase = [r \in Requests |-> "new"]
    /\ announced = {}
    /\ status = [r \in Requests |-> "absent"]
    /\ serving = TRUE

\* The gateway hands a request to the worker.
Publish(r) ==
    /\ phase[r] = "new"
    /\ phase' = [phase EXCEPT ![r] = "waiting"]
    /\ UNCHANGED <<announced, status, serving>>

\* The gateway writes PENDING over whatever the worker wrote meanwhile.
Announce(r) ==
    /\ phase[r] # "new"
    /\ r \notin announced
    /\ announced' = announced \cup {r}
    /\ status' = [status EXCEPT ![r] = "pending"]
    /\ UNCHANGED <<phase, serving>>

\* The worker may die with any step of its own.
MayDie == serving' \in {TRUE, FALSE}

Start(r) ==
    /\ serving
    /\ phase[r] = "waiting"
    /\ phase' = [phase EXCEPT ![r] = "running"]
    /\ status' = [status EXCEPT ![r] = "processing"]
    /\ MayDie
    /\ UNCHANGED announced

\* A request that was not started can only fail.
Settle(r) ==
    /\ serving
    /\ phase[r] \in {"waiting", "running"}
    /\ phase' = [phase EXCEPT ![r] = "settled"]
    /\ \E s \in {"completed", "failed"} :
          /\ s = "completed" => phase[r] = "running"
          /\ status' = [status EXCEPT ![r] = s]
    /\ MayDie
    /\ UNCHANGED announced

Die ==
    /\ serving
    /\ serving' = FALSE
    /\ UNCHANGED <<phase, announced, status>>

Next ==
    \/ \E r \in Requests : Publish(r) \/ Announce(r) \/ Start(r) \/ Settle(r)
    \/ Die

Spec ==
    /\ Init /\ [][Next]_vars
    /\ \A r \in Requests : WF_vars(Settle(r)) /\ WF_vars(Announce(r))
=============================================================================
