--------------------------- MODULE MCSandboxLease ---------------------------
(* Model values for SandboxLease: two turns, one viewer, two boxes, two      *)
(* captures, two builds.                                                     *)
EXTENDS SandboxLease, TLC

CONSTANTS t1, t2, v1, b1, b2

MCTurns    == {t1, t2}
MCViewers  == {v1}
MCBoxes    == {b1, b2}
MCArchives == {[at |-> 1], [at |-> 2]}
MCBuilds   == {"image1", "image2"}

MCSymmetry == Permutations(MCTurns) \cup Permutations(MCBoxes)
=============================================================================
