------------------------- MODULE MCSandboxLifecycle -------------------------
(* Instances of SandboxLifecycle.                                            *)
EXTENDS SandboxLifecycle, TLC

CONSTANTS t1, t2, v1, c1, b1, b2, b3

MCArchives  == [at : 0 .. MaxWrites, has : SUBSET (1 .. MaxWrites)]
TwoBoxes    == {b1, b2}
ThreeBoxes  == {b1, b2, b3}

OneTurn     == {t1}
TwoTurns    == {t1, t2}
OneViewer   == {v1}
OneChannel  == {c1}

\* One build for every turn, or the second turn resolves another image; viewers pass none.
SameBuild   == [w \in Holders |-> IF w \in TurnHolders THEN "image1" ELSE NoBuild]
MixedBuilds == [w \in Holders |-> IF w = t1 THEN "image1" ELSE IF w = t2 THEN "image2" ELSE NoBuild]

BoxSymmetry == Permutations(Boxes)
FullSymmetry == Permutations(Boxes) \cup Permutations(TurnHolders)
=============================================================================
