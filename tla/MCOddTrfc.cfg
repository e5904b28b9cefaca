CONSTANTS
  WAIT_MOD = 32
  Programs <- OddTrfc
  FifoDepth = 8
  MayReset = FALSE
  FifoLatency = 0
  DEF_TRP = 6
  DEF_TRCD = 6
  DEF_TRAS = 14
  DEF_TZQCS = 8
  MAINT_PRESCALER_DIV = 8
  PERIODIC_RD_TIMER_DIV = 2
  ZQ_TIMER_DIV = 4
SPECIFICATION Spec
INVARIANTS
  AccessAfterBusdir
