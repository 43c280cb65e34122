SPECIFICATION ServedSpec
CONSTANTS
  a = a
  b = b
  f1 = f1
  f2 = f2
  Paths <- MCPaths
  Names = {a, b}
  Facts = {f1, f2}
  UsagesOf <- MCUsagesOf
  DeclsOf <- MCDeclsOf
  ComplexityOf <- MCComplexityOf
  MemoryOf <- MCMemoryOf
  NoFacts = NoFacts
  MemoryLimit = 6
  MaxFileIDs = 2
  MaxNameIDs = 6
  MaxJobs = 3
  VersionWidth = 4
  NoCall = NoCall
INVARIANTS
  TypeOK
  InterningIsBijective
  InverseIsExact
  ComplexityIsIndexed
  CanonicalIsSole
  ServesTheirPostings
PROPERTIES
  ImplementsIndexStore
CHECK_DEADLOCK FALSE
