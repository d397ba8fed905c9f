\* One segment of two words, three transactions side by side: reads and
\* writes of several words that fail half-way.
CONSTANTS
  Threads = {t1, t2, t3, t4}
  Segs = {s0}
  Start = s0
  WordsPerSeg = 2
  Values = {0, 1}
  MaxTx = 4
  CounterModulus = 3
SPECIFICATION Spec
SYMMETRY Symmetry
INVARIANTS
  ConflictFree
PROPERTIES
  Implements
CHECK_DEADLOCK FALSE
