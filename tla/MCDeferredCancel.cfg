CONSTANTS
  MaxNumScatterGatherElems = 2
  MapRegs = 3
  SgRoom = 4
  Lengths = {5}
  Capacities = {4}
  Lasts = {TRUE}
  MaxCalls = 3
  MayCancel = TRUE
  MayTimeOut = TRUE
  DmaMayFail = FALSE
  QuickCall = TRUE
  CallsWhenIdle = TRUE
  OnlyResetWhenStale = TRUE
SPECIFICATION WinSpec
INVARIANT DeferredCancelServed
CHECK_DEADLOCK FALSE
