SPECIFICATION Spec
CONSTANTS
  N = 3
  Batch = 2
  NoRow = NoRow
  Slides = {2}
  Models = {m1, m2}
  Pairs <- MCPairs
  Key <- MCKey
  MaxDate = 2
  MaxTitle = 2
  MaxHash = 2
  MaxTick = 4
  MaxTextEdits = 2
  MaxVectorEdits = 2
  MaxCrashes = 1
  MaxRuns = 2
SYMMETRY Symmetry
INVARIANTS
  LateUploadsSeen
  OneModel
PROPERTIES
  RebuildCovers
  RunEndsFresh
CHECK_DEADLOCK FALSE
