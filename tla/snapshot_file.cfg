SPECIFICATION Spec
CONSTANTS
  Servers = {s1}
  Parts = {1, 2}
  MaxSaves = 4
  NoFile = NoFile
  Blank = Blank
  Torn = Torn
INVARIANTS
  SnapshotIsWhole
PROPERTIES
  SavesAreAtomic
CHECK_DEADLOCK FALSE
