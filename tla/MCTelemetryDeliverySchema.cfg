SPECIFICATION FairSpec
CONSTANTS
  b1 = b1
  b2 = b2
  b3 = b3
  Batch <- MCBatch
  Conforming <- MCByCode
  Compressed <- MCNone
  Capacities <- MCCapacity
  BatchSizes <- MCPairs
  MaxId = 4
  MaxFaults = 0
  MaxStops = 0
CHECK_DEADLOCK FALSE
PROPERTY UploadedWhileAuthorised
