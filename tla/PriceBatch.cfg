SPECIFICATION Spec
CONSTANTS
  Stocks <- MCStocks
  Messages <- MCMessages
  MaxPollRecords = 4
  KST = 9
  PerSecond = 2
  Fraction = 2
  None = None
INVARIANT TypeOK
INVARIANT NewestIsKept
INVARIANT OneRequestPerStock
INVARIANT EveryMessageCounted
INVARIANT LatestSecondIsKept
INVARIANT ConflictNeedsOldEvent
CHECK_DEADLOCK FALSE
