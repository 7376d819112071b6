SPECIFICATION Spec
CONSTANTS
  Workers = {w1, w2}
  Nobody = Nobody
  Partitions = {p1, p2}
  LogEnd = 2
  Broken <- SecondBroken
  MaxPollRecords = 2
  MaxFailures = 1
  MaxErrors = 1
  MaxRebalances = 0
  MaxExpels = 1
  MaxCrashes = 0
SYMMETRY Symmetry
INVARIANT NoRecordLostWithoutErrors
CHECK_DEADLOCK FALSE
