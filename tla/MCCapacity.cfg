CONSTANTS
  WAIT_MOD = 1024
  Commands = {"ACT"}
  Waits = {}
  MaxLen = 16
  FifoDepth = 2
  FifoLatency = 1
  DfiReadies <- Always
SPECIFICATION HostSpec
INVARIANTS
  NoInstructionDropped
