SPECIFICATION FairSpec
CONSTANTS
  t1 = t1
  r1 = r1
  r2 = r2
  Partitions <- MCPartitions
  Tokens = {t1}
  NoToken = NoToken
  Records <- MCRecords
  Queries <- MCQueries
  Filters <- MCFilters
  Rebuilders = {r1, r2}
  MaxKeys = 2
  OrphansAtLoss = TRUE
PROPERTIES
  RebuildEnds
CHECK_DEADLOCK FALSE
