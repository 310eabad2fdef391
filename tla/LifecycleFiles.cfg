SPECIFICATION LSpec
CONSTANTS
  t1 = t1
  t2 = t2
  v1 = v1
  c1 = c1
  b1 = b1
  b2 = b2
  b3 = b3
  TurnHolders <- TwoTurns
  ViewerHolders <- OneViewer
  ChannelOps = {}
  Boxes <- TwoBoxes
  NoBox = NoBox
  Archives <- MCArchives
  NoArchive = NoArchive
  Builds = {"image1", "image2"}
  NoBuild = NoBuild
  BuildOf <- SameBuild
  MaxEpoch = 2
  SnapshotInterval = 1
  MaxWrites = 2
  Faults = {"captureFails"}
SYMMETRY FullSymmetry
INVARIANTS SavedFilesRecoverable OneBoxPerGroup
