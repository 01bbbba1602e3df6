SPECIFICATION Spec
CONSTANTS
  N = 3
  Parallel = FALSE
  NoCleanup = TRUE
  Registered = {1, 3}
  c1 = c1
  c2 = c2
  Check = {c1, c2}
  ChecksOf <- MCChecksOf
  ObservesContext = TRUE
  Faults = {"call", "orphan"}
INVARIANTS
  SkippedNamesKeptTarget
