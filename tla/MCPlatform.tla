------------------------------ MODULE MCPlatform ------------------------------
(* TLC instances of Platform: what each .cfg explores. *)
EXTENDS Platform, TLC

\* Threads, requests and workers are interchangeable.
Symmetry == Permutations(Threads) \cup Permutations(Requests) \cup Permutations(Workers)
=============================================================================
