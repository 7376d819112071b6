SPECIFICATION Spec
CONSTANTS
  Workers = {w1, w2}
  Stocks = {s1, s2}
  Versions = {1, 2}
  Prices = {10}
  PriceRetries = 0
  MaxBatches = 2
  MaxFaults = 1
  MaxStalls = 1
  MaxCrashes = 0
SYMMETRY Symmetry
INVARIANT NoRollbackWithoutStall
PROPERTY ImplementsRegister
PROPERTY LockLostOnlyByOwnStep
CHECK_DEADLOCK FALSE
