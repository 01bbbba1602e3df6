------------------------------- MODULE Commands -------------------------------
(***************************************************************************)
(* What the commands do before and after their drills, each on its own:    *)
(* "validate" reads the configuration, "doctor" looks at the environment   *)
(* that a run will find, and a run gives its targets their limits          *)
(* ("create") and comes to its verdicts ("check").                         *)
(***************************************************************************)
EXTENDS Checks, Limits, Doctor

VARIABLE command

commands == <<configuration, drillChecks, limits, doctor, command>>

CommandsInit ==
  /\ command \in {"validate", "doctor", "create", "check"}
  /\ ConfigurationInit /\ DoctorInit /\ LimitsInit /\ ChecksInit

CommandsNext ==
  /\ UNCHANGED command
  /\ \/ /\ command = "validate" /\ ConfigurationNext
        /\ UNCHANGED <<doctor, limits, drillChecks>>
     \/ /\ command = "doctor" /\ DoctorNext
        /\ UNCHANGED <<configuration, limits, drillChecks>>
     \/ /\ command = "create" /\ LimitsNext
        /\ UNCHANGED <<configuration, doctor, drillChecks>>
     \/ /\ command = "check" /\ ChecksNext
        /\ UNCHANGED <<configuration, doctor, limits>>

CommandsSpec == CommandsInit /\ [][CommandsNext]_commands
=============================================================================
