SPECIFICATION FairSpec
CONSTANTS
  c1 = c1
  c2 = c2
  Clients <- MCTwoClients
  QueueSize = 2
  MaxLogs = 3
  MaxConnects = 4
INVARIANT EndIsTold
PROPERTY UndisturbedStreamEnds
CHECK_DEADLOCK FALSE
