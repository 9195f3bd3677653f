-------------------------------- MODULE MCDemo --------------------------------
(* TLC instances of Demo: what each .cfg explores. *)
EXTENDS Demo, TLC

\* The gateway and the worker without the reconciliation thread, which only reads.
GatewaySpec == Init /\ [][(\E t \in Threads : CallStep(t)) \/ WorkerStep]_vars

\* Threads and requests are interchangeable.
Symmetry == Permutations(Threads) \cup Permutations(Requests)
=============================================================================
