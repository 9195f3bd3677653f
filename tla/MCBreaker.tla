------------------------------ MODULE MCBreaker ------------------------------
(* TLC instances of BreakerClient: the constants are set in the .cfg files. *)
EXTENDS BreakerClient
=============================================================================
