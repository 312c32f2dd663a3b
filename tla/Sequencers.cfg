SPECIFICATION FairSpec
CONSTANTS
  w1 = w1
  w2 = w2
  s1 = s1
  s2 = s2
  Writers = {w1, w2}
  Sequencers = {s1, s2}
  BatchSize = 1
  MaxFiles = 2
  MaxTime = 1
INVARIANTS
  TypeOK
  GapFree
PROPERTIES
  EventuallySequenced
  NothingBehindReaders
  FeedIsALog
CHECK_DEADLOCK FALSE
