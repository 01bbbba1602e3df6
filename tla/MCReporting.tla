------------------------------ MODULE MCReporting ------------------------------
(* A small instance of the reporters for TLC.                              *)
EXTENDS Reporting

CONSTANTS hook, slack   \* two destinations

(* Three drills: they share a webhook, once for every run and once for     *)
(* failures only, a failure-only Slack alert, and a Prometheus entry,      *)
(* which makes no reporter.                                                *)
MCAlerts == << [dest |-> slack,  on |-> "failure"],
               [dest |-> hook,   on |-> "always"],
               [dest |-> NoDest, on |-> "always"],
               [dest |-> slack,  on |-> "failure"],
               [dest |-> hook,   on |-> "failure"] >>
=============================================================================
