SPECIFICATION Spec
CONSTANTS
  Tdocs = {1, 2, 3}
  Clients = {1}
  Jobs = {}
  MaxBatch = 2
  MaxCalls = 2
  MaxChanges = 0
PROPERTY SecondRunContinues
CHECK_DEADLOCK FALSE
