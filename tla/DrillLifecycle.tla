---------------------------- MODULE DrillLifecycle ----------------------------
(***************************************************************************)
(* What a run promises to its operator, without saying how: each drill     *)
(* holds at most one target, for one stretch of time, and a verdict that   *)
(* is given once.  A drill may only be called passed after its target has  *)
(* been released, unless targets are kept on purpose, and the run is       *)
(* reported when every drill has its verdict.  A drill that failed may     *)
(* still come to hold a target, which nobody releases.                     *)
(***************************************************************************)
EXTENDS Naturals

CONSTANTS
  Drill,        \* the drills of the run
  KeepTargets   \* whether targets are kept on purpose

VARIABLES
  hold,      \* of each drill's target: "none", "held" or "released"
  verdict,   \* "pending", "passed" or "failed"
  reported   \* the verdicts have been handed to the reporters

vars == <<hold, verdict, reported>>

Init ==
  /\ hold = [d \in Drill |-> "none"]
  /\ verdict = [d \in Drill |-> "pending"]
  /\ reported = FALSE

\* A target is acquired at most once per drill, and never for one that passed.
Acquire(d) ==
  /\ verdict[d] # "passed"
  /\ hold[d] = "none"
  /\ hold' = [hold EXCEPT ![d] = "held"]
  /\ UNCHANGED <<verdict, reported>>

\* A target is released while its drill is still undecided.
Release(d) ==
  /\ verdict[d] = "pending"
  /\ hold[d] = "held"
  /\ hold' = [hold EXCEPT ![d] = "released"]
  /\ UNCHANGED <<verdict, reported>>

\* A drill that still holds its target may only pass if targets are kept, and
\* a drill that never had one cannot pass.
Conclude(d) ==
  /\ verdict[d] = "pending"
  /\ \E v \in {"passed", "failed"} :
       /\ v = "passed" => \/ hold[d] = "released"
                          \/ hold[d] = "held" /\ KeepTargets
       /\ verdict' = [verdict EXCEPT ![d] = v]
  /\ UNCHANGED <<hold, reported>>

Report ==
  /\ ~reported
  /\ \A d \in Drill : verdict[d] # "pending"
  /\ reported' = TRUE
  /\ UNCHANGED <<hold, verdict>>

Next == (\E d \in Drill : Acquire(d) \/ Release(d) \/ Conclude(d)) \/ Report

Spec == Init /\ [][Next]_vars

\* Every drill is decided and the run is reported.
FairSpec == Spec /\ WF_vars(Report) /\ \A d \in Drill : WF_vars(Conclude(d))
=============================================================================
