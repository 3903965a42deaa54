CONSTANTS
  NULL = NULL
  Strings <- MCStrings
  Bytes <- MCBytes
  Texts <- MCTexts
  Nodes = {n1, n2}
SPECIFICATION Spec
CHECK_DEADLOCK FALSE
PROPERTIES
  MissingKeyTold
