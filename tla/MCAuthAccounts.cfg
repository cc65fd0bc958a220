SPECIFICATION FairSpec
CONSTANTS
  admin = admin
  r1 = r1
  r2 = r2
  p1 = p1
  p2 = p2
  User <- MCUser
  Admin = admin
  Password <- MCPassword
  Weak <- MCNone
  Seed = p1
  Request <- MCRequest
  MaxFailures = 2
  HistoryDepth = 1

CHECK_DEADLOCK FALSE
INVARIANTS CounterIsExact PasswordIsRecorded
PROPERTIES LockHolds LockEnds
