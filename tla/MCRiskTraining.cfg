SPECIFICATION Spec
CONSTANTS
  Shards = {0, 1, 3}
  WithCounterparties = {0, 1}
  Events = {1, 2, 3, 4, 5, 6, 7}
  ShardOf <- MCShardOf
  DayOf <- MCDayOf
  Bucket <- MCBucket
  Positives = {3, 4, 7}
  Selections <- MCSelections
  NoSelection = NoSelection
  Workers = 2
  MaxExports = 2
  GridSize = 3
  Scorings <- MCScorings
  Families <- MCFamilies
  Columns <- MCColumns
INVARIANTS
  SplitIsChronological
  FullExportHeals
  ThresholdIsBest
  CopyHeals
CHECK_DEADLOCK FALSE
