SPECIFICATION FairSpec
CONSTANTS
  Workers = {w1, w2}
  Nobody = Nobody
  Partitions = {p1}
  LogEnd = 3
  Broken <- SecondBroken
  MaxPollRecords = 2
  MaxFailures = 1
  MaxErrors = 0
  MaxRebalances = 1
  MaxExpels = 1
  MaxCrashes = 1
INVARIANT TypeOK
INVARIANT NoRecordLost
INVARIANT AppliedInOrder
PROPERTY AllRecordsDone
CHECK_DEADLOCK FALSE
