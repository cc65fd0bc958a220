SPECIFICATION FairSpec
CONSTANTS
  d1 = d1
  r1 = r1
  r2 = r2
  Device <- MCDevice
  Request <- MCRequest
  Verdict <- MCVerdicts
  Scores <- MCScores
  MaxFaults = 1
CHECK_DEADLOCK FALSE
INVARIANTS IngestedForLiving
PROPERTIES DeletedForGood VerdictTakesEffect RequestsEnd SilentGoesOffline
