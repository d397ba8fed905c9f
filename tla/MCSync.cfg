CONSTANTS
  Workers = {w1, w2, w3}
  Rounds = 3
  Libraries = 2
SPECIFICATION BenchSpec
INVARIANTS
  RoundsDoNotOverlap
  VerdictOfTheRound
  NothingUnexpected
  NothingPulledAway
  ExitTells
PROPERTIES
  BenchEnds
CHECK_DEADLOCK FALSE
