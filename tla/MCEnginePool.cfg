CONSTANTS
  w1 = w1
  w2 = w2
  w3 = w3
  Goroutine = {w1, w2, w3}
  Reader = Reader
  NoOne = NoOne
  MaxThreads = 2
  Lanes = 1
  MaxDiff = 1
  MaxJobs = 1
  MaxConns = 1
  MaxHashes = 1
  MaxShares = 1
SPECIFICATION Spec
SYMMETRY Interchangeable
CHECK_DEADLOCK FALSE
INVARIANTS
  TypeOK
  PoolMatchesWorkers
  OneWriter
  NoShareWithoutConn
