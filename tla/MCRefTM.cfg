CONSTANTS
  Threads = {t1, t2, t3}
  Kinds = {"mutex", "ticket", "rw", "ttas"}
  TicketModulus = 4
  Segs = {s1, s2, s3}
  Start = s1
  Values = {0, 1}
  NoSegment = NoSegment
SPECIFICATION FairSpec
INVARIANTS
  Isolated
  TicketsInUse
PROPERTIES
  TicketIsServed
  DestroyFreesAll
\* Nobody has to begin again after tm_destroy.
CHECK_DEADLOCK FALSE
