SPECIFICATION Spec
CONSTANTS
  hook = hook
  slack = slack
  Dest = {hook, slack}
  Local = Local
  NoDest = NoDest
  Alerts <- MCAlerts
  MaxAttempts = 3
INVARIANTS
  EachReporterIsAsked
