SPECIFICATION FairSpec
CONSTANTS
  Langs = {py, go}
  Roots <- MCRoots
  CommandLines <- MCCommandLines
  Verdicts <- ReadyOnly
  MaxIndexes = 2
  MaxEdits = 1
INVARIANTS
  OneRefreshPerIndex
  FitsLanguages
  EveryIndexIsReachable
  AnswersFromInnermost
PROPERTIES
  DroppedGoQuiet
  LastIndexServes
CHECK_DEADLOCK FALSE
