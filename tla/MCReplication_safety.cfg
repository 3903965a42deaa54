CONSTANTS
  Servers = {s1, s2, s3}
  NoServer = NoServer
  MaxOps = 2
  MaxLog = 3
SPECIFICATION Spec
SYMMETRY ServerSymmetry
CHECK_DEADLOCK FALSE
INVARIANTS
  OrderInv
  BackupFollows
  VerifyTruthfulInPair
  ReadsVerifiedWrites
  QueuedOnce
