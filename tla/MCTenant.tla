------------------------------- MODULE MCTenant -------------------------------
(* TLC instance of Tenant: what the .cfg explores. *)
EXTENDS Tenant
=============================================================================
