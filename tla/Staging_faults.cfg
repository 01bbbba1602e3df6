SPECIFICATION FairSpec
CONSTANTS
  Entries = 3
  Runtimes = {"docker", "kubernetes"}
  Faults = {"local", "exec", "source", "target", "connection", "stall"}
INVARIANTS
  StagedIsWhole
  WriterEndsFirst
  CauseIsNamed
PROPERTIES
  StageReturns
\* Stage returns and nothing follows; that it never stops earlier is StageReturns.
CHECK_DEADLOCK FALSE
