SPECIFICATION Spec
CONSTANTS
  u1 = u1
  u2 = u2
  r1 = r1
  r2 = r2
  User <- MCUser
  Request <- MCRequest
  MaxTokens = 3
SYMMETRY Swaps
CHECK_DEADLOCK FALSE
INVARIANTS OneLivePerLogin RevokedForGood
