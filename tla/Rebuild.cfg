SPECIFICATION FairSpec
CONSTANTS
  t1 = t1
  r1 = r1
  r2 = r2
  Partitions <- MCPartitions
  Tokens = {t1}
  NoToken = NoToken
  Records <- MCRecords
  Queries <- MCQueries
  Filters <- MCFilters
  Rebuilders = {r1, r2}
  MaxKeys = 3
  OrphansAtLoss = FALSE
INVARIANTS
  CatalogRecovered
  OccContinues
  ReadsSurvive
  LatestWins
  HistoryKept
PROPERTIES
  RebuildEnds
CHECK_DEADLOCK FALSE
