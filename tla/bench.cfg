SPECIFICATION FairSpec
CONSTANTS
  N = 3
  Iterations = 2
  Elements = 3
  Counts = {2, 3}
  MaxBatches = 2
  MaxTimeouts = 1
INVARIANTS
  MutualExclusion
  CounterExact
  BatchExact
  NoLostUpdate
PROPERTIES
  CounterEnds
  BatchEnds
CHECK_DEADLOCK FALSE
