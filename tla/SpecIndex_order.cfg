SPECIFICATION Spec
CONSTANTS
  Pairs <- MCPairs
  Key <- CrossedKey
  Batch = 2
  MaxTick = 4
  MaxRuns = 3
  HooksFail = TRUE
INVARIANT RebuildCovers
CHECK_DEADLOCK FALSE
