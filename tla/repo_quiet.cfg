SPECIFICATION Spec
CONSTANTS
  Paths <- TwoPaths
  Facts = {f1, f2}
  Refs = {f1, f2, shared}
  RefsOf <- MCRefsOf
  NoEntry = NoEntry
  VersionWidth = 2
  Absent = Absent
  Watch = Watch
  Restore = Restore
  Queries = {q1}
  MaxBuilders = 2
  FullRebuildFloor = 1
  RebuildShare = 5
  Verdicts <- AnyVerdict
  MaxEdits = 3
  MaxCrashes = 1
  QuietBuilds = TRUE
INVARIANTS
  LooksCurrentIsCurrent
  FreshAnswer
  IndexPathIsConsistent
CONSTRAINT Bounded
