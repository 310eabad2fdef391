---------------------------- MODULE MCOpStream ----------------------------
(* The op-stream protocol for TLC. *)
EXTENDS OpStream
=============================================================================
