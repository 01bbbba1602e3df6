SPECIFICATION FairSpec
CONSTANTS
  N = 2
  Parallel = FALSE
  NoCleanup = FALSE
  Registered = {1, 2}
  c1 = c1
  c2 = c2
  Check = {c1, c2}
  ChecksOf <- MCChecksOf
  ObservesContext = TRUE
  Faults = {"cleanup"}
INVARIANTS
  OnlyCutOffCreateLeaks
PROPERTIES
  TimeoutEndsDrill
  ImplementsFairLifecycle
