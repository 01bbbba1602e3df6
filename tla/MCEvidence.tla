------------------------------ MODULE MCEvidence ------------------------------
(* Small instances of the state store and its readers for TLC.             *)
EXTENDS Evidence

CONSTANTS p0, p1, p2, d1, d2, c1

R(d, valid, error, failed) ==
  [name |-> d, ValidationPassed |-> valid, Error |-> error, failed |-> failed]

Passed(d) == R(d, TRUE, FALSE, {})
Unclean(d) == R(d, TRUE, TRUE, {})
Broken(d) == R(d, FALSE, TRUE, {})
Mismatch(d) == R(d, FALSE, FALSE, {c1})

\* Two drills whose verdicts change from run to run; p1 runs one of them.
MCRecordable ==
  { p0 :> <<Passed(d1), Mismatch(d2)>> @@ p1 :> <<Unclean(d1)>> @@ p2 :> <<Broken(d1), Passed(d2)>> }
=============================================================================
