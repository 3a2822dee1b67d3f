---------------------------- MODULE MCStatestore ----------------------------
(* Statestore on small instances. *)
EXTENDS Statestore
=============================================================================
