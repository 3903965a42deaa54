CONSTANTS
  Servers = {s1, s2, s3}
  NoServer = NoServer
  Fds = {3, 4, 5}
SPECIFICATION Spec
SYMMETRY ServerSymmetry
CHECK_DEADLOCK FALSE
INVARIANTS
  IInv
  ConnectionSound
  StaleNoticed
  RequestRouted
  RtreeAlive
PROPERTIES
  LeakOnlyWithoutBackup
