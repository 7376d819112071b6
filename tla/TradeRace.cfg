SPECIFICATION Spec
CONSTANTS
  Portfolios <- MCPortfolios
  Partitions <- MCPartitions
  Stocks <- MCStocks
  Users <- MCUsers
  Trades <- OneHolding
  Workers = {w1, w2}
  NoTrade = NoTrade
  Nobody = Nobody
  Missing = Missing
  CasAttempts = 2
  MaxFaults = 0
  MaxMisreads = 1
  MaxZombies = 1
  MaxRedeliveries = 0
  MaxCrashes = 0
INVARIANT TypeOK
PROPERTY ImplementsLedger
CHECK_DEADLOCK FALSE
