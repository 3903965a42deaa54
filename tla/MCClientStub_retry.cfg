CONSTANTS
  Servers = {s1, s2}
  NoServer = NoServer
  Fds = {3, 4, 5}
SPECIFICATION Spec
CHECK_DEADLOCK FALSE
PROPERTIES
  RetrySafe
