SPECIFICATION Spec
CONSTANTS
  v1 = v1
  v2 = v2
  r1 = r1
  r2 = r2
  look = look
  none = none
  NoAddress = none
  Rows <- MCRows
  HashOf <- MCHashOf
  Resembles <- MCResembles
  Hidden <- MCHidden
  Args <- MCArgs
  BenchmarkRuns = 1
  Delays <- MCDelays
  FixedTau = 1
  TauGrid <- MCTauGrid
  BatchShards = 1
  Workers = 2
  MaxRuns = 3
  MaxFaults = 1
CHECK_DEADLOCK FALSE
INVARIANTS
  CountsAreExact
  JobsFindReplays
PROPERTIES
  ResumeFinishes
