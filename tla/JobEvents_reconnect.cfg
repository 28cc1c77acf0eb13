SPECIFICATION FairSpec
CONSTANTS
  c1 = c1
  c2 = c2
  Clients <- MCOneClient
  QueueSize = 2
  MaxLogs = 1
  MaxConnects = 2
PROPERTY StreamEnds
CHECK_DEADLOCK FALSE
