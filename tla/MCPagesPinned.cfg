CONSTANTS
  NumSg = 2
  SgRoom = 4
  RecvPlaces = 4
  SendPlaces = 3
  TxnLens = {1, 3}
  BufLens = {2}
  MaxCalls = 3
  OnlyResetWhenStale = TRUE
  MayAbandon = TRUE
  QuietInReset = TRUE
SPECIFICATION ChannelSpec
INVARIANTS
  PagesPinned
CHECK_DEADLOCK FALSE
