\* Two segments of one word: allocation, free and reuse.
CONSTANTS
  Threads = {t1, t2, t3}
  Segs = {s0, s1}
  Start = s0
  WordsPerSeg = 1
  Values = {0, 1}
  MaxTx = 4
  CounterModulus = 3
SPECIFICATION Spec
SYMMETRY Symmetry
INVARIANTS
  TypeOK
  MarksAreDirty
PROPERTIES
  NoLostSegment
  Implements
\* Clients may stop at any time; MaxTx makes all of them stop.
CHECK_DEADLOCK FALSE
