SPECIFICATION Spec
CONSTANTS
  BadNames = {"fn"}
  MaxId = 9
  Schemas <- SomeSchemas
  EntryLists <- SomeEntries
  Contracts = {c1, c2}
  Abis = {1, 2}
  Configs <- SomeConfigs
  Torn = Torn
  Missing = Missing
  MaxEdits = 1
  MaxRuns = 2
  MaxStarts = 2
INVARIANTS
  SameKernel
  AgreedRuns
  BuildCoherent
  CheckTrue
SYMMETRY Symmetry
CHECK_DEADLOCK FALSE
