SPECIFICATION Spec
CONSTANTS
  Terminals = {1, 2}
  Terminal = 1
  Columns = {c1, c2}
  Tolerant = {c2}
  Optional = {c2}
  CountRows = 3
  Undecodable = {1, 2}
  ChunkRows = 2
  Docs = {d1, d2}
  Tdocs = {1, 2, 3}
  Jobs = {2}
  MaxBatch = 2
  Inputs = {1, 2, 3}
  Stem <- MCStem
  Keys = {secret, a, b}
  Secret = secret
  Allowed = {secret, a}
  Pids = {1, 2, 3}
  MaxRuns = 3
  MaxCrashes = 2
  MaxCalls = 2
  MaxChanges = 1
  MaxBatches = 2
  MaxKills = 1
  MaxSteps = 5
  MaxServerCommands = 4
  MaxCommands = 2
INVARIANTS
  EndsCurrent
  FileStaysInOrder
  ServerIsNamed
  NoMeansNothing
PROPERTIES
  CoverPagesKept
  
  BatchIsTrue
CHECK_DEADLOCK FALSE
