--------------------------- MODULE MCSessionTurns ---------------------------
(* Instances of SessionTurns: the faults of each run. *)
EXTENDS SessionTurns, TLC

TurnFaults == FaultKinds \ {"delete", "goal", "zombie", "slowStart"}
ProgressFaults == {"delete", "goal", "preempt", "workerDeath", "zombie"}
SlotSymmetry == Permutations(Slots)
=============================================================================
