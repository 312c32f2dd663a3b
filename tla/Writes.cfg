SPECIFICATION FairSpec
CONSTANTS
  p1 = p1
  p2 = p2
  t1 = t1
  w1 = w1
  w2 = w2
  NoToken = NoToken
  NoExpect = NoExpect
  Partitions = {p1, p2}
  Tokens = {t1}
  Writers = {w1, w2}
  Expected = {1}
  MaxKeys = 2
  MaxTime = 0
INVARIANTS
  TypeOK
  VersionsDense
  AnswersDurable
  RelookupHits
  ExpectedVersionWins
  CommittedNotTracked
PROPERTIES
  WritesAreAtomic
  CallsReturn
CHECK_DEADLOCK FALSE
