CONSTANTS
  Banks <- AllBanks
  Rows <- SomeRows
  Cols <- SomeCols
  Patterns <- SomePatterns
  Cycles <- SomeCycles
  Vals <- SomeVals
  Data = {d1, d2, d3, d4}
  NoData = none
  QLen = 3
  Consumers = {c1, c2}
  MaxPush = 7
  Devs = {b1, b2}
  NUM_FPGAS = 1
  NumChnls = 2
  SpillMayFail = FALSE
SPECIFICATION PartsSpec
INVARIANTS
  DecodesAsWritten
  StageInv
  HandlerMemory
  
  UsedIsComplete
PROPERTIES
  ImplementsFifo
  ImplementsQueue
  RefusalsHonest
