SPECIFICATION FairSpec
CONSTANTS
  Paths <- TwoPaths
  Facts = {f1, f2}
  Refs = {f1, f2, shared}
  RefsOf <- MCRefsOf
  NoEntry = NoEntry
  VersionWidth = 2
  Absent = Absent
  Watch = Watch
  Restore = Restore
  Queries = {}
  MaxBuilders = 2
  FullRebuildFloor = 1
  RebuildShare = 1
  Verdicts <- ReadyOnly
  MaxEdits = 3
  MaxCrashes = 1
  QuietBuilds = TRUE
PROPERTIES
  EventuallyConverges
  ServesAgain
CONSTRAINT BoundedLive
