---------------------------- MODULE MCDataStream ----------------------------
(* DataStream for model checking. *)
EXTENDS DataStream
=============================================================================
