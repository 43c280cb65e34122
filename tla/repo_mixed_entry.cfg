SPECIFICATION Spec
CONSTANTS
  Paths <- OnePath
  Facts = {f1, f2}
  Refs = {f1, f2, shared}
  RefsOf <- MCRefsOf
  NoEntry = NoEntry
  VersionWidth = 2
  Absent = Absent
  Watch = Watch
  Restore = Restore
  Queries = {}
  MaxBuilders = 1
  FullRebuildFloor = 1
  RebuildShare = 5
  Verdicts <- ReadyOnly
  MaxEdits = 1
  MaxCrashes = 0
  QuietBuilds = FALSE
INVARIANTS
  NoMixedEntry
