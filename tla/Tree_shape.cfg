CONSTANTS
  p = p
  Ids <- MCIds
  Lists <- MCLists
  Procs <- MCProcs
  RewriteScope = 2
  MaxEdited = 1
  MaxRunning = 1
  MaxLost = 1
SPECIFICATION OSpec
INVARIANTS TypeOK CirclesAreRefused DanglingIsExplained DeepIsEdited OnlyLateIsReplaced
PROPERTY EarlyWorkersAreLeftAlone
