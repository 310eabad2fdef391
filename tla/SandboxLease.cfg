SPECIFICATION Spec
CONSTANTS
  t1 = t1
  t2 = t2
  v1 = v1
  b1 = b1
  b2 = b2
  TurnHolders <- MCTurns
  ViewerHolders <- MCViewers
  Boxes <- MCBoxes
  NoBox = NoBox
  Archives <- MCArchives
  NoArchive = NoArchive
  Builds <- MCBuilds
  NoBuild = NoBuild
  MaxEpoch = 2
  SnapshotInterval = 1
SYMMETRY MCSymmetry
INVARIANTS TypeOK CountsExact ColdNamesNoBox WarmNamesABox
PROPERTIES PaidTurnKeepsItsBox EpochFence 
