SPECIFICATION FairSpec
CONSTANTS
  Kinds = {"read", "poll"}
  Units = 3
  MaxFiles = 2
  AllFiles = 4
  MaxWorkers = 2
  QueueCap = 1
  ReadAhead = 1
  PollAhead = 0
  PoolSlots = 2
  ByteCap = 1
  CtxLikeErrors = FALSE
INVARIANTS
  TypeOK
  BodiesBounded
  BudgetHolds
PROPERTIES
  StreamsWhole
  CallReturns
CHECK_DEADLOCK FALSE
