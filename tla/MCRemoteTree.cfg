CONSTANTS
  NULL = NULL
  Strings <- MCStrings
  Bytes <- MCBytes
  Texts <- MCTexts
  Nodes = {n1, n2, n3, n4, n5}
SPECIFICATION Spec
SYMMETRY NodeSymmetry
CHECK_DEADLOCK FALSE
INVARIANTS
  WellFormed
  ToldTrue
  MessagesKept
  TreeRoundTrip
PROPERTIES
  WritesAreMapWrites
