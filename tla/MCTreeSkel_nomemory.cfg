CONSTANTS
  Keys = {k1, k2}
  Values = {v1, v2}
  NoValue = NoValue
  MaxTasks = 3
  MaxSends = 3
  AllocMayFail = TRUE
SPECIFICATION Spec
SYMMETRY DataSymmetry
INVARIANTS
  IInv
  SentInOrder
PROPERTIES
  NoTaskForgotten
