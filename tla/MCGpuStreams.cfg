CONSTANTS
  Batch <- MCBatch
  NoBatch = NoBatch
  DSG_SLOTS = 2
  DSG_BANKS = 2
  Chunks = 3
  MaxBatches = 3
CHECK_DEADLOCK FALSE
SPECIFICATION Spec
INVARIANTS
  KeptApart
  BatchesWhole
