SPECIFICATION QueriesSpec
CONSTANTS
  Nodes <- FourNodes
  Graphs <- SmallGraphs
  Targets = {2}
  Depths = {0, 1, 2}
  Limits = {0, 2}
  Offsets = {0, 1, 3}
  NotSeen = NotSeen
  ImportFiles = {"f1", "f2", "f3"}
  Specs = {"s1", "s2"}
  Unresolved = Unresolved
  Resolutions <- OneDirectory
  Files = {1, 2}
  Codes <- MCCodes
  Target = 1
  Limit = 1
  Positions = {1, 2, 3, 4}
  Labels <- MCLabels
  MaxSymbols = 4
  Root = Root
  Sources <- TwoSources
  Inside <- MCInside
  Texts <- TwoTexts
INVARIANTS
  PoppedAreComponents
  CyclesAreTheNodesOnCycles
  LayersAreEarliest
  ImpactIsExact
  FilesAreConverse
  NeighboursAreNodes
  FlowsCountAlike
  PlainCallersMatch
  CallsAreOfTheInnermost
  ParentIsInnermost
  UnusedIsUnreferenced
CHECK_DEADLOCK FALSE
