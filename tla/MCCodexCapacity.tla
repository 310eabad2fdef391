-------------------------- MODULE MCCodexCapacity --------------------------
(* CodexCapacity for TLC. *)
EXTENDS CodexCapacity
=============================================================================
