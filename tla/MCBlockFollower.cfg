SPECIFICATION Spec
CONSTANTS
  Txs = {t1}
  WarmupBlocks = 1
  MaxMade = 4
  MaxErrors = 2
INVARIANTS
  Contiguous
  BlocksAccounted
PROPERTIES
  WarmupIsPrefix
  CatchesUp
