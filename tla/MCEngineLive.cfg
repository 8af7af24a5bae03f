CONSTANTS
  w1 = w1
  Goroutine = {w1}
  Reader = Reader
  NoOne = NoOne
  MaxThreads = 1
  Lanes = 1
  MaxDiff = 1
  MaxJobs = 3
  MaxConns = 2
  MaxHashes = 1
  MaxShares = 1
SPECIFICATION FairSpec
PROPERTIES
  ToldWorkersLeave
  NewCounterReachesWorkers
  LostConnIsRedialled
CHECK_DEADLOCK FALSE
