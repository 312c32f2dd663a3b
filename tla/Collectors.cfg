SPECIFICATION GcFairSpec
CONSTANTS
  p1 = p1
  w1 = w1
  g1 = g1
  g2 = g2
  NoToken = NoToken
  NoExpect = NoExpect
  Partitions = {p1}
  Tokens = {}
  Writers = {w1}
  Expected = {}
  Collectors = {g1, g2}
  MaxKeys = 2
  MaxTime = 4
  Grace = 2
  GcBatch = 1
  MaxSkew = 1
  WriteBound = 1
  CommitBound = 1
INVARIANTS
  SweepHarmless
  CommittedHasObject
  OrphansTracked
PROPERTY
  OrphansReclaimed
CHECK_DEADLOCK FALSE
