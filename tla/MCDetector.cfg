SPECIFICATION Spec
CONSTANTS
  AddrLen = 5
  KP = 3
  KS = 3
  MinPrefixDepth = 2
  MinSuffixDepth = 1
  MaxCandidatesPerSide = 2
  WindowDays = 30
  AddressWeight <- MCAddressWeight
  TypeWeight = 20659
  TokenWeight = 22441
  Cut = 537000
  NoToken = NoToken
  Dai = Dai
  DaiFake = DaiFake
  Usdc = Usdc
  Counterfeits <- MCCounterfeits
  Rows <- MCRows
  Pendings <- MCPendings
  MaxRows = 4
  DisplayNibbles = 3
  DefaultLimit = 4
INVARIANTS
  TrieIndexes
  TrieIsScanCut
  SidesAreExact
  DBAgreesWithTrie
  ExportSeesCandidates
CHECK_DEADLOCK FALSE
