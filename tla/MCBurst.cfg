CONSTANTS
  RdbackDepth = 4
  PhyLatency = 2
  GateDepth = 8
  WordNumbers = 6
SPECIFICATION ReadBackSpec
INVARIANTS
  BurstPerMessage
