SPECIFICATION FairReaderSpec
CONSTANTS
  FileIds = {f1, f2, f3}
  PageSizes = {1, 2}
  Starts = {0, 1}
INVARIANTS
  ConsumedInOrder
  RangeComplete
PROPERTIES
  EventuallyConsumed
CHECK_DEADLOCK FALSE
