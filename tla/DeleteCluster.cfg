SPECIFICATION ValuationSpec
CONSTANTS
  Portfolios <- MCPortfolios
  Partitions <- MCPartitions
  Stocks <- MCStocks
  Users <- MCUsers
  Trades <- OneBought
  Events <- CreatedAndDeleted
  Prices <- OnePrice
  Workers = {w1}
  Keepers = {k1}
  Pricers = {r1}
  NoTrade = NoTrade
  NoEvent = NoEvent
  Nobody = Nobody
  Missing = Missing
  Cluster = TRUE
  CasAttempts = 2
  MaxFaults = 0
  MaxMisreads = 0
  MaxZombies = 0
  MaxRedeliveries = 0
  MaxCrashes = 0
  MaxPrices = 1
  MaxOverlaps = 0
  MaxTroubles = 1
INVARIANT DeletedLeavesNothing
CHECK_DEADLOCK FALSE
