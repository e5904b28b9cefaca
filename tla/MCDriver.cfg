CONSTANTS
  NumSg = 2
  SgRoom = 4
  RecvPlaces = 4
  SendPlaces = 3
  TxnLens = {1, 3}
  BufLens = {2}
  MaxCalls = 3
  OnlyResetWhenStale = TRUE
  MayAbandon = TRUE
  QuietInReset = TRUE
  NUM_ROWS = 3
  NUM_BANKS = 2
  NUM_BURSTS = 2
  init_cap = 4
  GroupMs = 5
  Retentions = {0, 3, 9, 20, 40}
  RowTimes = {2, 5, 7}
SPECIFICATION MCSpec
INVARIANTS
  NoEventLost
  Delivered
  OneListPinned
  ReportedWhereRead
  CompletedMeansCovered
  
  OneEnd
PROPERTIES
  TransferEnds
  TestEnds
CHECK_DEADLOCK FALSE
