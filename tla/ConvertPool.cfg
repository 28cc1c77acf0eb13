SPECIFICATION FairSpec
CONSTANTS
  c1 = c1
  c2 = c2
  closer = closer
  None = None
  Callers <- MCCallers
  Closer = closer
  Count <- MCCount
  Workers = 2
  MaxBreaks = 1
INVARIANT RetiredOnce
PROPERTIES
  FreshAfterBreak
  CallsEnd
CHECK_DEADLOCK FALSE
