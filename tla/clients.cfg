SPECIFICATION FairSpec
CONSTANTS
  Clients = {"arena", "json", "scope"}
  MaxInt = 31
  Words = 14
  Schema <- TwoSlices
  Lengths <- SomeLengths
  Dimensions <- SomeDimensions
  Arguments <- SomeArguments
  Bases = {0, 3}
  Payloads <- SomePayloads
  MaxAllocations = 3
  Requests = {"a", "b", "c", "e", "h"}
  Response <- SomeResponses
  Size <- SomeSizes
  MailboxBytes = 5
  MaxCalls = 4
  MaxLost = 1
  Scopes = {1, 2}
  MaxTasks = 4
INVARIANTS
  AllocationsDisjoint
  LoadAgrees
  LoadedInside
  
  ScopeOrder
PROPERTIES
  ScopeEnds
CHECK_DEADLOCK FALSE
