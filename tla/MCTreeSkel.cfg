CONSTANTS
  Keys = {k1, k2}
  Values = {v1, v2}
  NoValue = NoValue
  MaxTasks = 3
  MaxSends = 3
  AllocMayFail = FALSE
SPECIFICATION FairSpec
INVARIANTS
  ProcessorTaskAlive
  ReturnedTaskAlive
  IdsOrdered
  NoLostWakeup
PROPERTIES
  ResultsStable
  ImplementsAsyncStore
  RequestsAnswered
  TasksExecuted
