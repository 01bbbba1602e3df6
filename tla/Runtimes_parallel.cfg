\* The calls end and nothing follows.
SPECIFICATION RuntimesSpec
CONSTANTS
  Call = {c1, c2}
  MaxClock = 2
  HasDeadline = TRUE
  APIFails = TRUE
  Modes = {"auto", "docker", "kubernetes", "podman"}
INVARIANTS
  HandedTargetSurvives
PROPERTIES
  ImplementsTargetService
  DockerImplementsTargetService
  KubernetesCreateReturns
CHECK_DEADLOCK FALSE
