CONSTANTS
  WAIT_MOD = 1024
  Commands = {"ACT"}
  Waits <- ShortWaits
  MaxLen = 5
  FifoDepth = 3
  FifoLatency = 1
  DfiReadies <- Sometimes
SPECIFICATION HostSpec
INVARIANTS
  SlotsInOrder
