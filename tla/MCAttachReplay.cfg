CONSTANTS
  Ids = {1, 2}
  MaxPending = 4
  MaxCached = 4
  None = None
  LastConn = 2
  LastLease = 3
  MaxOutput = 3
  MaxRead = 2
  HistoryLimit = 2
  ChunkBytes = 1
SPECIFICATION Spec
INVARIANTS TypeOK Contiguous CaughtUp BeliefTrue
PROPERTY ImplementsTerminalView
CHECK_DEADLOCK FALSE
