SPECIFICATION FairSpec
CONSTANTS
  Workers = {w1, w2, w3}
  Entries = {1, 2, 3, 4}
  NoTask = NoTask
  MayCancel = TRUE
INVARIANTS
  TypeOK
  SuccessIsComplete
  NoWorkerOutlives
PROPERTIES
  CallReturns
CHECK_DEADLOCK FALSE
