SPECIFICATION FairSpec
CONSTANTS
  a = a
  b = b
  d = d
  Batches <- MCBatches
  SyncBatches <- MCSync
  DirectBatches <- MCDirect
  Size <- MCSize
  MaxCalls = 2
  PrepareWorkers = 1
  Limit = 1
INVARIANTS
  PermitConservation
  DrainedAtEnd
  HonestReport
PROPERTIES
  StoppedBeginsNothing
  BatchesEnd
CHECK_DEADLOCK FALSE
