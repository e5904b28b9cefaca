CONSTANTS
  WAIT_MOD = 8
  Programs <- Refreshing
  FifoDepth = 8
  MayReset = TRUE
  FifoLatency = 0
  DEF_TRP = 2
  DEF_TRCD = 2
  DEF_TRAS = 4
  DEF_TZQCS = 2
  MAINT_PRESCALER_DIV = 6
  PERIODIC_RD_TIMER_DIV = 2
  ZQ_TIMER_DIV = 4
SPECIFICATION Spec
PROPERTIES
  MaintenanceServed
