CONSTANTS
  p1 = p1
  p2 = p2
  p3 = p3
  f1 = f1
  f2 = f2
  f3 = f3
  f4 = f4
  None = None
  Procs <- MCPair
  Files <- MCPairFiles
SPECIFICATION LiveSpec
INVARIANTS TypeOK AloneUntilUnlinked
PROPERTY TicksKeepRunning
