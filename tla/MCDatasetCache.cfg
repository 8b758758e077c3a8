SPECIFICATION CacheSpec
CONSTANTS
  Dumps <- MCDumps
  Requests <- MCRequests
  BatchSize = 2
  MaxStarts = 3
INVARIANTS
  CoveredIsServed
  CacheIsWhole
