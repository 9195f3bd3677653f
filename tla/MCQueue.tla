------------------------------- MODULE MCQueue -------------------------------
(* TLC instances of PriorityQueue: the constants are set in the .cfg files. *)
EXTENDS PriorityQueue
=============================================================================
