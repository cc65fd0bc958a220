SPECIFICATION FairSpec
CONSTANTS
  b1 = b1
  b2 = b2
  b3 = b3
  Batch <- MCBatch
  Conforming <- MCBatch
  Compressed <- MCOne
  Capacities <- MCCapacity
  BatchSizes <- MCPairs
  MaxId = 4
  MaxFaults = 1
  MaxStops = 1
CHECK_DEADLOCK FALSE
PROPERTIES DeliveredWhileAuthorised
