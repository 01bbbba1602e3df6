SPECIFICATION FairSpec
CONSTANTS
  N = 1
  Parallel = FALSE
  NoCleanup = FALSE
  Registered = {1}
  c1 = c1
  c2 = c2
  Check = {c1, c2}
  ChecksOf <- MCChecksOf
  ObservesContext = FALSE
  Faults = {}
PROPERTIES
  TimeoutEndsDrill
