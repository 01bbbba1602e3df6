SPECIFICATION LatestSpec

CONSTANTS
  MaxKey = 4
  Markers = {1, 2}
  PageSize = 2
  MaxTime = 2

INVARIANTS
  LatestIsFound

\* The download happens once, and the clock of the model ends.
CHECK_DEADLOCK FALSE
