\* The smallest instance: two transactions, two words.
CONSTANTS
  Threads = {t1, t2}
  NoTx = NoTx
  Segs = {s0}
  WordsPerSeg = 2
  Kinds = {"read", "write"}
SPECIFICATION Spec
INVARIANTS
  AbortedWritesVanish
CHECK_DEADLOCK FALSE
