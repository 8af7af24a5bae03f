CONSTANTS
  Console = 0
  Zero = Zero
  Entry <- MCEntry
  Address = {1, 2, 3}
  logRingSize = 1
  logRingKeep = 0
  EventRoom = 1
  KeyRoom = 1
  RefreshRoom = 1
  MaxPosts = 0
  MaxKeys = 2
CHECK_DEADLOCK FALSE
SPECIFICATION FairSpec
PROPERTIES
  ShutdownCompletes
