CONSTANTS
  Workers = {w1, w2, w3}
  Zero = w1
  nbtxperwrk = 2
  RunWorkers = {w1, w2}
  RunTxs = 3
  nbaccounts = 2
  init_balance = 1
  PointerBits = 16
  Blocks = {256, 512, 1024, 1536, 2048}
  Start = 1024
SPECIFICATION WorkloadSpec
INVARIANTS
  BarrierSeparates
  NoFalseAlarm
  NothingWrong
  PointersLead
PROPERTIES
  EveryCheckReturns
  RefinesBank
\* run and check return.
CHECK_DEADLOCK FALSE
