CONSTANTS
  Servers = {s1, s2, s3}
  NoNode = NoNode
SPECIFICATION FairSpec
CHECK_DEADLOCK FALSE
INVARIANTS
  AtMostOnePrimary
  RolesVisible
PROPERTIES
  PrimaryRestored
