SPECIFICATION Spec
CONSTANTS
  p1 = p1
  t1 = t1
  w1 = w1
  w2 = w2
  NoToken = NoToken
  NoExpect = NoExpect
  Partitions = {p1}
  Tokens = {t1}
  Writers = {w1, w2}
  Expected = {0}
  MaxKeys = 2
  MaxTime = 0
INVARIANT
  RetryNeverConflicts
CHECK_DEADLOCK FALSE
