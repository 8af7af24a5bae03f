CONSTANTS
  Console = 0
  Zero = Zero
  Entry <- MCEntry
  Address = {1, 2, 3}
  logRingSize = 4
  logRingKeep = 2
  EventRoom = 1
  KeyRoom = 1
  RefreshRoom = 1
  MaxPosts = 2
  MaxKeys = 2
CHECK_DEADLOCK FALSE
SPECIFICATION ConsoleSpec
INVARIANTS
  EndsOnce
  LeavesCleanly
PROPERTIES
  ImplementsEventLog
