CONSTANTS
  MinSamples = 3
  KeepTimes = 3
  ScanPorts = 3
  BruteForce = 2
  SmbTargets = 2
  LateralHops = 2
  DeviceRows = 3
  MaxFlows = 4
  MaxUploads = 1
  MaxClock = 200
  Flow <- MCFlow
  Batches <- MCBatches
  Models <- MCModels
  NoAnswer <- MCNoAnswer
  IocScores = {100, 200}
  LocalIps = {"d2"}
  Steps = {100}
SPECIFICATION Spec
INVARIANTS ThreatsBecomeAlerts RatingsAgree
PROPERTIES OnlyOverratedIsBlocked RegularIsFound FindingsStay
CHECK_DEADLOCK FALSE
