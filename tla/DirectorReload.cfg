SPECIFICATION FairSpec
CONSTANTS
  NSlaves = 3
  Workers <- MCWorkers
  Distributors <- MCDistributors
  Source <- MCSource
  PoolSize = 4
  RingSize = 2
  ReuseStale = FALSE
  MaxSignals = 3
  MaxVersion = 1
INVARIANTS
  RefCountExact
  LiveWhileReachable
  FreedWhenUnreachable
  MessageConservation
  NoLostRequest
PROPERTIES
  NeverBackwards
  ReloadDelivered
