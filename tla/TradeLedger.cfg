SPECIFICATION FairSpec
CONSTANTS
  Portfolios <- MCPortfolios
  Partitions <- MCPartitions
  Stocks <- MCStocks
  Users <- MCUsers
  Trades <- TwoPortfolios
  Workers = {w1, w2}
  NoTrade = NoTrade
  Nobody = Nobody
  Missing = Missing
  CasAttempts = 2
  MaxFaults = 1
  MaxMisreads = 0
  MaxZombies = 0
  MaxRedeliveries = 1
  MaxCrashes = 1
INVARIANT PortfolioPurchased
INVARIANT PortfolioSettled
PROPERTY ImplementsLedger
PROPERTY AllTradesReturn
CHECK_DEADLOCK FALSE
