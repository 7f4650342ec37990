SPECIFICATION Spec
CONSTANTS
  Backends = {b1}
  MaxSignals = 1
  MaxRounds = 1
INVARIANT ChangesPublished
