CONSTANTS
  Conns = {c1, c2, c3}
  NoFd = NoFd
  MAX_CLIENT_SOCKETS = 3
SPECIFICATION FairSpec
CHECK_DEADLOCK FALSE
INVARIANTS
  IInv
  EveryConnectionPolled
  ReadsOnlyWithInput
  AtMostOnePlaceLost
PROPERTIES
  AcceptanceOrderKept
  RequestsServed
  ClientsAccepted
