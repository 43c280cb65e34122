SPECIFICATION Spec
CONSTANTS
  a = a
  b = b
  go = go
  p1 = p1
  AnyName = AnyName
  Paths = {p1}
  Names = {a, b}
  Languages = {go}
  LanguageOf <- OneLanguage
  Kinds <- TwoKinds
  Contents = {1, 2}
  Declares <- TwoContents
  Scans = {"s1"}
  Queries <- FilteringQueries
  MaxFacts = 2
INVARIANTS
  ScanIsExact
