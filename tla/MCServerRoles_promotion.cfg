CONSTANTS
  Servers = {s1, s2}
  NoNode = NoNode
SPECIFICATION FairSpec
CHECK_DEADLOCK FALSE
PROPERTIES
  BackupPromoted
