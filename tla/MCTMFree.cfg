\* Three transactions side by side, two segments; what the words hold does
\* not matter here.
CONSTANTS
  Threads = {t1, t2, t3, t4}
  Segs = {s0, s1}
  Start = s0
  WordsPerSeg = 1
  Values = {0}
  MaxTx = 4
  CounterModulus = 3
SPECIFICATION Spec
SYMMETRY Symmetry
PROPERTIES
  FreeIsCommitted
CHECK_DEADLOCK FALSE
