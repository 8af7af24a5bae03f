CONSTANTS
  w1 = w1
  w2 = w2
  Goroutine = {w1, w2}
  Reader = Reader
  NoOne = NoOne
  MaxThreads = 2
  Lanes = 2
  MaxDiff = 1
  MaxJobs = 2
  MaxConns = 2
  MaxHashes = 1
  MaxShares = 2
SPECIFICATION Spec
SYMMETRY Interchangeable
CHECK_DEADLOCK FALSE
INVARIANTS
  CountsAreReal
  NeverAheadOfCounter
PROPERTIES
  ConnStableWhileWriting
