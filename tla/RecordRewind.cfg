SPECIFICATION Spec
CONSTANTS
  Workers = {w1, w2}
  Nobody = Nobody
  Partitions = {p1, p2}
  LogEnd = 2
  Broken <- SecondBroken
  MaxPollRecords = 2
  MaxFailures = 1
  MaxErrors = 0
  MaxRebalances = 1
  MaxExpels = 0
  MaxCrashes = 0
SYMMETRY Symmetry
INVARIANT NoRecordLost
CHECK_DEADLOCK FALSE
