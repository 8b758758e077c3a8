SPECIFICATION Spec
CONSTANTS
  NoAddress = NoAddress
  V = V
  W = W
  Attacker = Attacker
  Friend = Friend
  Shop = Shop
  H1 = H1
  H2 = H2
  H3 = H3
  H4 = H4
  H5 = H5
  H6 = H6
  Labels <- MCLabels
  Logs <- MCLogs
  Calls <- MCCalls
  Window = 2
  MaxVictims = 1
  MaxEvents = 2
  PoolSize = 1
  BenignCount = 1
  Jobs <- MCJobs
  WindowDays = 1
  DaySeconds = 12
  WriteEvery = 2
  MaxFailed = 1
  MaxRuns = 2
INVARIANTS
  TrustedIsClean
  NoLookahead
  MetadataKept
  DailyAddsUp
CHECK_DEADLOCK FALSE
