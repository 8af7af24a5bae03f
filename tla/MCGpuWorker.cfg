CONSTANTS
  Batch <- MCBatch
  NoBatch = NoBatch
  DSG_SLOTS = 2
  gpuPipelineDepth = 2
  Unfit = {2}
  MaxJobs = 3
  Ranges = 3
CHECK_DEADLOCK FALSE
SPECIFICATION FairSpec
INVARIANTS
  HeadFollowsTail
  MinesThisJob
  NothingSkipped
PROPERTIES
  ImplementsQueue
  ToldWorkerLeaves
  NewCounterTaken
