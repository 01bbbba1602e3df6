SPECIFICATION Spec
CONSTANTS
  N = 2
  Parallel = TRUE
  NoCleanup = FALSE
  Registered = {1, 2}
  c1 = c1
  c2 = c2
  Check = {c1, c2}
  ChecksOf <- MCChecksOf
  ObservesContext = TRUE
  Faults = {"call", "orphan", "cleanup", "destroy", "slow"}
INVARIANTS
  NoSilentLeak
  PassIsEarned
  ReportIsComplete
PROPERTIES
  ImplementsLifecycle
