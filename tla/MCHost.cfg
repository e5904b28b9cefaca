CONSTANTS
  WAIT_MOD = 1024
  Commands = {"ACT", "RD"}
  Waits <- ShortWaits
  MaxLen = 5
  FifoDepth = 3
  FifoLatency = 1
  DfiReadies <- Always
  RdbackDepth = 3
  PhyLatency = 1
  GateDepth = 2
  WordNumbers = 4
SPECIFICATION MCSpec
INVARIANTS
  PathTypeOK
  NoInstructionDropped
  OneSequenceAtATime
  WordsInOrder
  BeatsInOrder
PROPERTIES
  IssuesInOrder
  NoBubble
  SequencesFinish
  ReadBackDrains
