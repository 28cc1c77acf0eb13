SPECIFICATION ServerSpec
CONSTANTS
  j1 = j1
  j2 = j2
  w1 = w1
  w2 = w2
  Jobs <- MCJobs
  Cooperative <- MCCooperative
  Workers <- MCWorkers
  MaxConcurrent = 1
  MaxHalts = 1
  N = 4
  Tied = {2, 3}
  Cap = 2
  Paths = {"u"}
  Template = "t"
  Nothing = Nothing
  Tdocs = {1, 2}
  Limit = 2
  Fanout = 1
  MaxK = 3
  Handled = {1, 2}
  MaxVersion = 2
  MaxChunks = 4
  MaxItems = 2
  MaxRows = 1
  MaxStores = 2
  MaxTurns = 1
  MaxFacts = 3
INVARIANTS
  NothingMissed
  AnswerIsWhole
  DoorsAgree
  HonestVerdict
  RunAtMostOnce
PROPERTY SearchAnswers
CHECK_DEADLOCK FALSE
