SPECIFICATION FairSpec
CONSTANTS
  b1 = b1
  b2 = b2
  Backends <- TwoBackends
  Tables <- Retargeting
  CountBeforeHealthy = 2
  CountBeforeFailed = 1
  Gens = {0}
  Ids = {1, 2}
  NoId = NoId
INVARIANTS OneResultPerCheck ClosedStreamsQuiet
PROPERTIES Dampened RoundsGoOn TargetsGetResults DampenersEnd
