SPECIFICATION Spec
CONSTANTS
  seeded = seeded
  other = other
  one = one
  Ip = {one}
  Ioc <- MCIoc
  Score = {1, 2}
  NoScore = 0
  SeedOf <- MCSeedOf
  MaxRules = 2
  MaxWire = 1
CHECK_DEADLOCK FALSE
INVARIANTS BlockedIsEnforced ForgottenIsOpen
