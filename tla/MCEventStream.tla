---------------------------- MODULE MCEventStream ----------------------------
(* The event stream on small instances. *)
EXTENDS EventStream
=============================================================================
