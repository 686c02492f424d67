----------------------------- MODULE MCEndpoint -----------------------------
(***************************************************************************)
(* Endpoint for TLC: the .cfg files give the sets of messages as model     *)
(* values and the capacities as small numbers.                             *)
(***************************************************************************)
EXTENDS Endpoint
=============================================================================
