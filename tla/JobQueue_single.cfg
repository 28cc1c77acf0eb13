SPECIFICATION FairSpec
CONSTANTS
  j1 = j1
  j2 = j2
  j3 = j3
  w1 = w1
  Jobs <- MCJobs
  Cooperative <- MCCooperative
  Workers <- MCWorkers
  MaxConcurrent = 2
  MaxHalts = 2
INVARIANTS
  RunningIsOwned
  InFlightBounded
PROPERTIES
  LifecycleSpec
  EverythingEnds
CHECK_DEADLOCK FALSE
