SPECIFICATION FairSpec
CONSTANTS
  Backends = {b1}
  MaxSignals = 1
  MaxRounds = 1
INVARIANTS LoadHandedOn RoundsPublished
PROPERTY DirtyStored
