CONSTANTS
  w1 = w1
  w2 = w2
  Goroutine = {w1, w2}
  Reader = Reader
  NoOne = NoOne
  MaxThreads = 1
  Lanes = 1
  MaxDiff = 1
  MaxJobs = 1
  MaxConns = 1
  MaxHashes = 3
  MaxShares = 1
SPECIFICATION Spec
PROPERTIES
  CountersNeverFall
CHECK_DEADLOCK FALSE
