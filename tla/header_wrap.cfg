SPECIFICATION Spec
CONSTANTS
  Clients = {"arena"}
  MaxInt = 15
  Words = 14
  Schema <- TwoSlices
  Lengths <- SomeLengths
  Dimensions <- SomeDimensions
  Arguments <- SomeArguments
  Bases = {14}
  Payloads <- SomePayloads
  MaxAllocations = 3
  Requests = {"a", "b", "c", "e", "h"}
  Response <- SomeResponses
  Size <- SomeSizes
  MailboxBytes = 5
  MaxCalls = 4
  MaxLost = 1
  Scopes = {1, 2}
  MaxTasks = 4
INVARIANTS
  LoadAgrees
CHECK_DEADLOCK FALSE
