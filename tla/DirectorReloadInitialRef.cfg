SPECIFICATION Spec
CONSTANTS
  NSlaves = 2
  Workers <- MCWorkers
  Distributors <- MCDistributors
  Source <- MCSource
  PoolSize = 4
  RingSize = 2
  ReuseStale = FALSE
  MaxSignals = 1
  MaxVersion = 1
INVARIANT
  FreedHasNoUser
