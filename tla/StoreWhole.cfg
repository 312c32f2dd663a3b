SPECIFICATION StoreSpec
CONSTANTS
  p1 = p1
  w1 = w1
  w2 = w2
  g1 = g1
  s1 = s1
  NoToken = NoToken
  NoExpect = NoExpect
  Partitions = {p1}
  Tokens = {}
  Writers = {w1, w2}
  Expected = {}
  Collectors = {g1}
  MaxKeys = 2
  MaxTime = 2
  Grace = 1
  GcBatch = 1
  MaxSkew = 0
  WriteBound = 1
  CommitBound = 1
  Sequencers = {s1}
  SeqBatch = 2
SYMMETRY ActorSymmetry
INVARIANTS
  FeedHasObjects
PROPERTIES
  RunsSequencer
CHECK_DEADLOCK FALSE
