-------------------------------- MODULE MCFleet --------------------------------
(* TLC instance of Fleet: what the .cfg explores. *)
EXTENDS Fleet, TLC
=============================================================================
