SPECIFICATION Spec
CONSTANTS
  Process = {p1, p2}
  NoFile = NoFile
  MaxAttempts = 2
  MaxTime = 1
  MaxLosses = 0
PROPERTIES
  LastRunNeverGoesBack
