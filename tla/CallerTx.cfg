SPECIFICATION FairSpec
CONSTANTS
  c1 = c1
  c2 = c2
  Callers = {c1, c2}
  Partitions <- MCPartitions
  Batch <- MCBatch
  PoolSize = 2
  Slots = 2
  Struck = {c1}
  LockKey <- MCLockKey
  MvOf <- MCMvOf
INVARIANTS
  VersionsDense
  NoLostUpdate
  SlotsTellCommits
  ViewsFollowFiles
  RowsObjectsTracked
PROPERTIES
  EveryCallReturns
CHECK_DEADLOCK FALSE
