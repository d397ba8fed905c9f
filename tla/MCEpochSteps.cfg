\* Three transactions on one segment of two words: every way in which calls
\* can overlap on the words of a segment.
CONSTANTS
  Threads = {t1, t2, t3}
  NoTx = NoTx
  Segs = {s0}
  WordsPerSeg = 2
  Kinds = {"read", "write"}
SPECIFICATION Spec
SYMMETRY Symmetry
INVARIANTS
  TypeOK
  Published
  NoRace
  ConflictFree
  RefusedForConflict
  SnapshotReads
  CleanSlate
\* Transactions may stop at any time, and the epoch is the last one.
CHECK_DEADLOCK FALSE
