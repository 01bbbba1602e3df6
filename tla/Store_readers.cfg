\* The processes and the reader end and nothing follows.
SPECIFICATION EvidenceSpec
CONSTANTS
  p0 = p0
  p1 = p1
  p2 = p2
  d1 = d1
  d2 = d2
  c1 = c1
  Process = {p0, p1, p2}
  NoFile = NoFile
  MaxAttempts = 2
  MaxTime = 1
  MaxLosses = 1
  Drill = {d1, d2}
  Check = {c1}
  Earlier = {p0}
  ReadFaults = TRUE
  Recordable <- MCRecordable
INVARIANTS
  NeverTorn
  RecordedOnce
  ReportIsTheHistory
  LastStatusIsLatest
  FailuresAreExplained
PROPERTIES
  HistoryOnlyGrows
CHECK_DEADLOCK FALSE
