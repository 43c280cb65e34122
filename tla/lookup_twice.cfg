SPECIFICATION Spec
CONSTANTS
  Langs = {py, go}
  Roots <- MCRoots
  CommandLines <- MCCommandLines
  Verdicts <- ReadyOnly
  MaxIndexes = 2
  MaxEdits = 1
INVARIANTS
  EveryAnswerIsAnAnswer
CHECK_DEADLOCK FALSE
