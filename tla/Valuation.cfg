SPECIFICATION ValuationSpec
CONSTANTS
  Portfolios <- MCPortfolios
  Partitions <- MCPartitions
  Stocks <- MCStocks
  Users <- MCUsers
  Trades <- BoughtAndSold
  Events <- CreatedAndDeleted
  Prices <- OnePrice
  Workers = {w1}
  Keepers = {k1}
  Pricers = {r1}
  NoTrade = NoTrade
  NoEvent = NoEvent
  Nobody = Nobody
  Missing = Missing
  Cluster = FALSE
  CasAttempts = 2
  MaxFaults = 3
  MaxMisreads = 1
  MaxZombies = 0
  MaxRedeliveries = 2
  MaxCrashes = 1
  MaxPrices = 1
  MaxOverlaps = 1
  MaxTroubles = 3
INVARIANT ValuationTypeOK
INVARIANT StocksAddUp
INVARIANT PurchasedOnce
INVARIANT UserSettled
INVARIANT DeletedLeavesNothing
PROPERTY FanOutSettles
CHECK_DEADLOCK FALSE
