SPECIFICATION Spec
CONSTANTS
  Kinds = {"read"}
  Units = 2
  MaxFiles = 2
  AllFiles = 3
  MaxWorkers = 1
  QueueCap = 1
  ReadAhead = 0
  PollAhead = 0
  PoolSlots = 2
  ByteCap = 0
  CtxLikeErrors = TRUE
INVARIANT
  NoPartialUnit
CHECK_DEADLOCK FALSE
