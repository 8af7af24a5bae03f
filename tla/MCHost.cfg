CONSTANTS
  statsInterval = 1
  StaleAfter = 1
  MaxNow = 4
  MaxKills = 1
  LibProc = {1, 2, 3}
  SaProc = {3}
  Candidates <- MCCandidates
  amd = amd
  sa = sa
  Embedded = {sa}
  None = None
  Part = Part
  Whole = Whole
  endpoints <- MCEndpoints
  nodeInfoRetry = 2
  MaxNodeNow = 6
  NoNode = NoNode
  NvidiaCards = 2
  AmdCards = 1
  maxGPUs = 4
  GPULists <- MCGPULists
  RateTicks = 2
  maxThreads = 2
  DefaultThreads = 1
  GPUCount = 1
  Late = {0, 1, 2}
  RecentTicks = 3
  InstTicks = 2
  SlotTime = 2
  SlotCount = 1
  GpuBatch = 2
  Unit = 4
  MaxTicks = 4
  MaxCounted = 1
  ByteBase = 2
  WordBytes = 2
  WordBase = 4
  Difficulty <- MCDifficulty
  TagSize = 8
  GpuTag = 6
  NonceSize = 4
  ThreadIds = {0, 6}
  GpuIds = {0, 1}
  PassNonces = 2
  BatchNonces = 3
  MaxPublished = 2
  MaxStarts = 3
  MaxTried = 7
SPECIFICATION HostSpec
CHECK_DEADLOCK FALSE
INVARIANTS
  DocumentTrue
  LibrariesSound
  NoteIsTrue
  RowsAreTrue
  RunsCanBegin
  SamplesAccount
  AcceptsAsReference
  CreditCoversDifficulty
  NoInputTwice
PROPERTIES
  FailuresTakeNothing
  WatcherEnds
