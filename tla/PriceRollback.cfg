SPECIFICATION Spec
CONSTANTS
  Workers = {w1, w2}
  Stocks = {s1}
  Versions = {1, 2}
  Prices = {10}
  PriceRetries = 1
  MaxBatches = 3
  MaxFaults = 1
  MaxStalls = 1
  MaxCrashes = 1
SYMMETRY Symmetry
CHECK_DEADLOCK FALSE
INVARIANT ValueNeverBehindApplied
