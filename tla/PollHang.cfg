SPECIFICATION FairSpec
CONSTANTS
  Kinds = {"poll"}
  Units = 3
  MaxFiles = 1
  AllFiles = 3
  MaxWorkers = 1
  QueueCap = 1
  ReadAhead = 0
  PollAhead = 0
  PoolSlots = 1
  ByteCap = 1
  CtxLikeErrors = TRUE
PROPERTY
  CallReturns
CHECK_DEADLOCK FALSE
