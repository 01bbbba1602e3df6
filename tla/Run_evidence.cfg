SPECIFICATION Spec
CONSTANTS
  pg = pg
  redis = redis
  missing = missing
  Drill <- MCDrill
  Requests <- MCRequests
  Formats <- MCFormats
  Retention = 1
  MaxRuns = 3
  Faults = {"setup", "alert", "disk", "gateway", "kill"}
INVARIANTS
  ExitZeroIsAGate
  EvidenceSurvivesAlertFailure
  ReportsShowTheirRun
  SuccessIsCurrent
\* The scheduler starts MaxRuns runs.
CHECK_DEADLOCK FALSE
