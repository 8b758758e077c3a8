SPECIFICATION Spec
CONSTANTS
  NoAddress <- MCNoAddress
  ZeroAddress = 0
  Accounts = {1, 2, 3, 4, 5}
  Tokens = {7, 8}
  Contracts = {3}
  Chains <- MCChains
  Retries = 2
  BatchSize = 2
  Confirmations = 1
  Lookback = 3
  MaxVictims = 2
  MinCounterparties = 2
  MaxPerVictim = 2
  RowCap = 3
  MetadataLimit = 1
  ProbeLimit = 3
  Options <- MCOptions
INVARIANTS
  RangeAccounted
  CallsCounted
  OutputIsBest
PROPERTIES
  ScriptEnds
CHECK_DEADLOCK FALSE
