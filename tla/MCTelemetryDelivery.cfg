SPECIFICATION Spec
CONSTANTS
  b1 = b1
  b2 = b2
  b3 = b3
  Batch <- MCThree
  Conforming <- MCThree
  Compressed <- MCNone
  Capacities <- MCTight
  BatchSizes <- MCPairs
  MaxId = 4
  MaxFaults = 2
  MaxStops = 1
SYMMETRY Symmetry
CHECK_DEADLOCK FALSE
INVARIANTS NoSilentLoss EveryCopyHasACause
PROPERTIES ImplementsAtLeastOnce EvictionKeepsTheUrgent
