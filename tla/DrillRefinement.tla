---------------------------- MODULE DrillRefinement ----------------------------
(***************************************************************************)
(* DrillEngine implements DrillLifecycle.  A drill holds its target from   *)
(* the moment it exists at the runtime until it is gone from there, and    *)
(* its verdict is the one drillPassed computes from the published result.  *)
(***************************************************************************)
EXTENDS DrillEngine

holdBar == [d \in Drills |-> CASE target[d] \in {"none", "asked"} -> "none"
                               [] target[d] = "live" -> "held"
                               [] target[d] = "gone" -> "released"]

verdictBar == [d \in Drills |-> IF pc[d] # "done" THEN "pending"
                                ELSE IF Passed(results[d]) THEN "passed"
                                ELSE "failed"]

Lifecycle == INSTANCE DrillLifecycle WITH
  Drill <- Drills, KeepTargets <- NoCleanup,
  hold <- holdBar, verdict <- verdictBar, reported <- run # "drills"

\* Every behaviour of executeDrill, Run and RunParallel is one the lifecycle
\* allows: one target per drill, released before a drill may pass, verdicts
\* given once and all before the report.
ImplementsLifecycle == Lifecycle!Spec

\* With the deadline and the returns of DrillEngine!Fairness, every drill is
\* decided and the run is reported.
ImplementsFairLifecycle == Lifecycle!FairSpec
=============================================================================
