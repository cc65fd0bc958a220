CONSTANTS
  d1 = d1
  d2 = d2
  d3 = d3
  h1 = h1
  h2 = h2
  report1 = report1
  report2 = report2
  worker1 = worker1
  worker2 = worker2
  alert1 = alert1
  alert2 = alert2
  clerk1 = clerk1
  clerk2 = clerk2
  viewer1 = viewer1
  client1 = client1
  client2 = client2
  host1 = host1
  Dashboard <- MCDashboard
  Handler <- MCHandler
  Batches <- MCBatches
  Confidence = {20, 80}
  RawScore <- MCRawScore
  MaxAlerts = 1
  Report <- MCReport
  Worker <- MCWorker
  MaxCopies = 2
  Alert <- MCAlert
  Clerk <- MCClerk
  Viewer <- MCViewer
  Client <- MCClient
  Requests = 2
  Window = 3
  MaxSeconds = 4
  MaxBoots = 1
  Host <- MCHost
  Attempts = 2
  MaxStarts = 2
SPECIFICATION MCSpec
SYMMETRY MCSymmetry
INVARIANTS SkipsHaveCauses OneFeatureDecides ReportsAreAccountedFor AccuracyIsAShare AdmissionIsBounded StartsAreFrugal
PROPERTIES DecisionStands
CHECK_DEADLOCK FALSE
