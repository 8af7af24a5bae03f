CONSTANTS
  Window <- MCWindow
  Snapshot <- MCSnapshot
  Sends <- MCSends
  Means <- MCMeans
  Chunk <- MCChunk
  LogEntry <- MCLogEntry
  ViewRows = 1
  LogRoom = 3
  LogKeep = 2
  CmdRoom = 2
  Page = 1
  FarBack = 4
  MaxInputs = 4
  MaxArrivals = 3
SPECIFICATION FrameSpec
CHECK_DEADLOCK FALSE
PROPERTIES
  ReadingStays
