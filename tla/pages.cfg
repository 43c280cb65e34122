SPECIFICATION Spec
CONSTANTS
  NotFound = NotFound
  Clients = {c1}
  MaxLength = 4
  Limits = {1, 2}
  MaxGenerations = 3
  MaxRestarts = 1
INVARIANTS
  OnlyLastPageMayMix
  FinishedSessionIsWhole
CHECK_DEADLOCK FALSE
