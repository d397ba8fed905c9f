CONSTANTS
  Threads = {t1, t2, t3}
  NoThread = NoThread
  Segs = {s1, s2, s3}
  Start = s1
  Null = Null
  Wild = Wild
SPECIFICATION FairSpec
INVARIANTS
  ListsWellFormed
  RollbackSeesAll
PROPERTIES
  BatchBeginsClean
  WalkReturns
  DestroyFreesAll
CHECK_DEADLOCK FALSE
