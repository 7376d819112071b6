SPECIFICATION Spec
CONSTANTS
  Portfolios <- MCPortfolios
  Partitions <- MCPartitions
  Stocks <- MCStocks
  Users <- MCUsers
  Trades <- TwoPortfolios
  Workers = {w1, w2}
  NoTrade = NoTrade
  Nobody = Nobody
  Missing = Missing
  CasAttempts = 2
  MaxFaults = 0
  MaxMisreads = 0
  MaxZombies = 0
  MaxRedeliveries = 0
  MaxCrashes = 0
INVARIANT UserPurchased
CHECK_DEADLOCK FALSE
