---------------------------- MODULE MCDrillEngine ----------------------------
(* Small instances of the drill engine for TLC.                            *)
EXTENDS DrillRefinement

CONSTANTS c1, c2   \* validation checks

\* Drill 1 configures two checks, drill 2 one, and every later drill none.
MCChecksOf == [d \in Drills |-> CASE d = 1 -> {c1, c2}
                                  [] d = 2 -> {c1}
                                  [] OTHER -> {}]
=============================================================================
