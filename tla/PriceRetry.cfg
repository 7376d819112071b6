SPECIFICATION FairSpec
CONSTANTS
  Workers = {w1, w2}
  Stocks = {s1}
  Versions = {1, 2}
  Prices = {10}
  PriceRetries = 1
  MaxBatches = 2
  MaxFaults = 1
  MaxStalls = 1
  MaxCrashes = 1
INVARIANT TypeOK
INVARIANT LockInv
PROPERTY EveryBatchEnds
PROPERTY LocksAreFreed
CHECK_DEADLOCK FALSE
