SPECIFICATION FairSpec
CONSTANTS
  p1 = p1
  p2 = p2
  p3 = p3
  k1 = k1
  k2 = k2
  Packet <- MCPacket
  Key <- MCKey
  KeyOf <- MCKeyOf
  MaxSniffers = 3
  MaxRestarts = 2
CHECK_DEADLOCK FALSE
INVARIANTS ReportedOnce NothingVanishes CleanStopReportsAll
PROPERTIES CapturedIsReported ShutdownEnds
