CONSTANTS
  Threads = {t1, t2, t3, t4}
  NoThread = NoThread
  CounterModulus = 2
SPECIFICATION ClientSpec
INVARIANTS
  Accounting
  QuiescentCleanup
  WrapperInStep
PROPERTIES
  RefinesGate
  WaiterEnters
