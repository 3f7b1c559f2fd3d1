CONSTANTS
  Ids = {1}
  MaxPending = 4
  MaxCached = 4
  None = None
  LastConn = 1
  LastLease = 1
  MaxOutput = 1
  MaxRead = 2
  HistoryLimit = 2
  ChunkBytes = 1
SPECIFICATION Spec
INVARIANT UnreconciledQueued
CHECK_DEADLOCK FALSE
