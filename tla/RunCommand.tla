------------------------------ MODULE RunCommand ------------------------------
(***************************************************************************)
(* "restore-drill run", again and again as a scheduler starts it: the      *)
(* command of internal/cli selects drills, hands them to the engine, and   *)
(* leaves evidence in four places: the state directory, the configured     *)
(* report files, the Pushgateway and its exit code.  Any of them can fail, *)
(* and the process can be killed between any two steps.                    *)
(*                                                                         *)
(* The engine and the reporters are one step here; DrillEngine and         *)
(* Reporting have theirs, and StateStore those of the two state files.     *)
(***************************************************************************)
EXTENDS Naturals, Sequences, Functions

CONSTANTS
  Drill,       \* the drills of the configuration
  Requests,    \* what --drill may name: sequences of names, <<>> for all
  Formats,     \* reporting.format without table, each once, in its order
  Retention,   \* how many runs back reporting.retention reaches
  MaxRuns,     \* bound: runs of the command
  Faults       \* what may go wrong, see FaultKinds

(***************************************************************************)
(* "setup"   the configuration, a flag or the runtime is refused           *)
(* "alert"   a reporter returns an error                                   *)
(* "disk"    a state file or a report file cannot be written or read       *)
(* "gateway" a push fails, before or after the Pushgateway has served it   *)
(* "kill"    the process is killed                                         *)
(***************************************************************************)
FaultKinds == {"setup", "alert", "disk", "gateway", "kill"}

ASSUME CommandAssumption ==
  /\ Formats \in Seq(STRING)
  /\ Retention \in Nat
  /\ MaxRuns \in Nat
  /\ Faults \subseteq FaultKinds

Format == Range(Formats)
Runs == 1..MaxRuns

\* How a drill may end: passed, with a check that failed or an error before the
\* verdict, or valid but with an error of its clean-up.
Outcomes == {"passed", "invalid", "unclean"}
Valid(outcome) == outcome # "invalid"   \* DrillResult.ValidationPassed

\* Of one drill at the Pushgateway: validation_passed, and whether there is a
\* last_success_timestamp.  The samples of no drill are Absent.
Absent == [valid |-> FALSE, success |-> FALSE, pushed |-> FALSE]

VARIABLES
  run,        \* the run that is going on, or was the last
  step,       \* where it is
  request,    \* the names it was given
  selected,   \* the drills it runs
  outcome,    \* how they ended, "none" for a drill that was not run
  errs,       \* the errors RunE joins: "setup", "alert", "report", "drills"
  logged,     \* writes that failed and were only logged
  lastRun,    \* the run of last-run.json, 0 if there is none
  history,    \* the runs of the history
  written,    \* of Formats, how many files this run has written
  shows,      \* which runs its file of each format shows
  skipped,    \* which entries of the history could not be read for that file
  gateway,    \* the samples of each drill
  outcomeAtPush  \* how each drill ended in the run the gateway shows

vars == <<run, step, request, selected, outcome, errs, logged, lastRun, history,
          written, shows, skipped, gateway, outcomeAtPush>>
input == <<run, request, selected, outcome>>
stores == <<lastRun, history>>
files == <<written, shows, skipped>>
samples == <<gateway, outcomeAtPush>>

NotRun == [d \in Drill |-> "none"]

Init ==
  /\ run = 0
  /\ step = "ended"
  /\ request = <<>>
  /\ selected = {}
  /\ outcome = NotRun
  /\ errs = {}
  /\ logged = {}
  /\ lastRun = 0
  /\ history = {}
  /\ written = 0
  /\ shows = [f \in Format |-> {}]
  /\ skipped = [f \in Format |-> {}]
  /\ gateway = [d \in Drill |-> Absent]
  /\ outcomeAtPush = NotRun

-----------------------------------------------------------------------------
(* Before the drills                                                       *)

StartRun ==
  /\ step \in {"ended", "killed"}
  /\ run < MaxRuns
  /\ run' = run + 1
  /\ step' = "configured"
  /\ request' \in Requests
  /\ selected' = {}
  /\ outcome' = NotRun
  /\ errs' = {}
  /\ logged' = {}
  /\ written' = 0
  /\ shows' = [f \in Format |-> {}]
  /\ skipped' = [f \in Format |-> {}]
  /\ UNCHANGED <<stores, samples>>

\* selectDrills: an unknown name is an error, a repeated one runs once.
HasUnknown(names) == \E i \in DOMAIN names : names[i] \notin Drill

Named(names) == IF names = <<>> THEN Drill ELSE Drill \cap Range(names)

RefuseRun == errs' = {"setup"} /\ step' = "exiting" /\ UNCHANGED selected

\* The configuration is loaded, drills are selected, flags are parsed and the
\* runtime's client is made; nothing has been written when one of them fails.
SelectDrills ==
  /\ step = "configured"
  /\ \/ /\ ~HasUnknown(request)
        /\ selected' = Named(request)
        /\ step' = "running"
        /\ UNCHANGED errs
     \/ HasUnknown(request) /\ RefuseRun
     \/ "setup" \in Faults /\ RefuseRun
  /\ UNCHANGED <<run, request, outcome, logged, stores, files, samples>>

\* Mutant: the command returns the engine's error at once.
ReturnAlertError == step' = IF "alert" \in errs' THEN "exiting" ELSE "saving"

KeepAlertError == step' = "saving"

\* Run or RunParallel, with the report to the local writer and the alerts.
RunDrills ==
  /\ step = "running"
  /\ \E ends \in [selected -> Outcomes] :
       outcome' = [d \in Drill |-> IF d \in selected THEN ends[d] ELSE "none"]
  /\ \/ UNCHANGED errs
     \/ "alert" \in Faults /\ errs' = errs \cup {"alert"}
  /\ KeepAlertError
  /\ UNCHANGED <<run, request, selected, logged, stores, files, samples>>

-----------------------------------------------------------------------------
(* The evidence                                                            *)

LogOnly(what) == "disk" \in Faults /\ logged' = logged \cup {what}

\* state.Save; its error is logged.
SaveLastRun ==
  /\ step = "saving"
  /\ \/ lastRun' = run /\ UNCHANGED logged
     \/ LogOnly("last run") /\ UNCHANGED lastRun
  /\ step' = "appending"
  /\ UNCHANGED <<input, errs, history, files, samples>>

\* state.AppendHistory; its error is logged too.
AppendHistory ==
  /\ step = "appending"
  /\ \/ history' = history \cup {run} /\ UNCHANGED logged
     \/ LogOnly("history") /\ UNCHANGED history
  /\ step' = "reporting"
  /\ UNCHANGED <<input, errs, lastRun, files, samples>>

\* Mutant: the window is one run too long.
InLongerWindow(n) == n + Retention + 1 >= run

InWindow(n) == n + Retention >= run

\* LoadHistory without the entries that could not be read, and the current run
\* alone if nothing is left.
Evidence(gone) ==
  LET window == {n \in history \ gone : InWindow(n)}
  IN  IF window = {} THEN {run} ELSE window

\* The results of this run, or the evidence of the runs in the window.
Contents(f, gone) == IF f = "json" THEN {run} ELSE Evidence(gone)

\* LoadHistory passes over an entry it cannot read or decode, without an error
\* and without a line in the log.
MayBeSkipped(f) == IF f # "json" /\ "disk" \in Faults THEN history ELSE {}

AllWritten == written = Len(Formats)

\* writeReportFile for the next format.
WriteReport ==
  /\ step = "reporting"
  /\ ~AllWritten
  /\ written' = written + 1
  /\ LET f == Formats[written + 1]
     IN  \E gone \in SUBSET MayBeSkipped(f) :
           /\ shows' = [shows EXCEPT ![f] = Contents(f, gone)]
           /\ skipped' = [skipped EXCEPT ![f] = gone]
  /\ UNCHANGED <<input, step, errs, logged, stores, samples>>

\* Mutant: the error of writeConfiguredReports is logged only.
ReportErrorLogged == UNCHANGED errs

ReportErrorKept == errs' = errs \cup {"report"}

\* The first file that cannot be written or rendered ends the loop; the file
\* that was created for it stays empty.
ReportFails ==
  /\ step = "reporting"
  /\ ~AllWritten
  /\ "disk" \in Faults
  /\ ReportErrorKept
  /\ step' = "pushing"
  /\ UNCHANGED <<input, logged, stores, files, samples>>

FinishReports ==
  /\ step = "reporting"
  /\ AllWritten
  /\ step' = "pushing"
  /\ UNCHANGED <<input, errs, logged, stores, files, samples>>

-----------------------------------------------------------------------------
(* metrics.PushResults                                                     *)

Passed(end) == end = "passed"

SampleOf(d) == [valid   |-> Valid(outcome[d]),
                success |-> Passed(outcome[d]),
                pushed  |-> TRUE]

\* Mutant: a POST, which leaves the metrics the push does not contain.
PushAdds ==
  gateway' = [d \in Drill |->
    IF outcome[d] = "none" THEN gateway[d]
    ELSE [SampleOf(d) EXCEPT !.success = @ \/ gateway[d].success]]

\* A PUT replaces the grouping, with the drills that were not selected.
PushReplaces ==
  gateway' = [d \in Drill |-> IF outcome[d] = "none" THEN Absent ELSE SampleOf(d)]

Pushed == PushReplaces /\ outcomeAtPush' = outcome

\* Its error is logged, also when the Pushgateway has served the request.
PushResults ==
  /\ step = "pushing"
  /\ \/ Pushed /\ UNCHANGED logged
     \/ /\ "gateway" \in Faults
        /\ logged' = logged \cup {"metrics"}
        /\ Pushed \/ UNCHANGED samples
  /\ step' = "judging"
  /\ UNCHANGED <<input, errs, stores, files>>

-----------------------------------------------------------------------------
(* The exit code                                                           *)

\* Mutant: the exit code looks at the checks alone.
AnyInvalid == \E d \in Drill : outcome[d] = "invalid"

AnyFailed == \E d \in Drill : outcome[d] # "none" /\ ~Passed(outcome[d])

Judge ==
  /\ step = "judging"
  /\ errs' = IF AnyFailed THEN errs \cup {"drills"} ELSE errs
  /\ step' = "exiting"
  /\ UNCHANGED <<input, logged, stores, files, samples>>

Exit ==
  /\ step = "exiting"
  /\ step' = "ended"
  /\ UNCHANGED <<input, errs, logged, stores, files, samples>>

Kill ==
  /\ "kill" \in Faults
  /\ step \notin {"ended", "killed"}
  /\ step' = "killed"
  /\ UNCHANGED <<input, errs, logged, stores, files, samples>>

ExitCode == IF errs = {} THEN 0 ELSE 1

Next ==
  \/ StartRun \/ SelectDrills \/ RunDrills
  \/ SaveLastRun \/ AppendHistory \/ WriteReport \/ ReportFails \/ FinishReports
  \/ PushResults \/ Judge \/ Exit \/ Kill

Spec == Init /\ [][Next]_vars

-----------------------------------------------------------------------------
(* Properties                                                              *)

Errors == {"setup", "alert", "report", "drills"}
Warnings == {"last run", "history", "metrics"}

Sample == [valid: BOOLEAN, success: BOOLEAN, pushed: BOOLEAN]

\* What each variable of the command and of the places it writes to may hold.
TypeOK ==
  /\ run \in Nat
  /\ step \in {"configured", "running", "saving", "appending", "reporting",
              "pushing", "judging", "exiting", "ended", "killed"}
  /\ request \in Requests \cup {<<>>}
  /\ selected \subseteq Drill
  /\ outcome \in [Drill -> Outcomes \cup {"none"}]
  /\ errs \subseteq Errors
  /\ logged \subseteq Warnings
  /\ lastRun \in 0..run
  /\ history \subseteq 1..run
  /\ written \in 0..Len(Formats)
  /\ shows \in [Format -> SUBSET (1..run)]
  /\ skipped \in [Format -> SUBSET (1..run)]
  /\ gateway \in [Drill -> Sample]
  /\ outcomeAtPush \in [Drill -> Outcomes \cup {"none"}]

Ended == step = "ended" /\ run > 0
Ran == selected # {}

\* "run exits non-zero if any drill errors or fails validation, which makes it
\* a drop-in CI gate": exit code 0 means that every drill that was asked for,
\* and none under a name that does not exist, was run and passed, its clean-up
\* included; that the alerts were sent; and that every report file was written.
ExitZeroIsAGate ==
  Ended /\ ExitCode = 0 =>
    /\ \A d \in IF request = <<>> THEN Drill ELSE Range(request) :
         d \in Drill /\ outcome[d] = "passed"
    /\ "alert" \notin errs
    /\ AllWritten

\* A command that has run its drills and was not killed has left their evidence,
\* whatever the alerts did: the state files and the metrics except for a
\* write that failed and was logged, and the report files or a non-zero exit.
EvidenceSurvivesAlertFailure ==
  Ended /\ Ran =>
    /\ lastRun = run \/ "last run" \in logged
    /\ run \in history \/ "history" \in logged
    /\ outcomeAtPush = outcome \/ "metrics" \in logged
    /\ AllWritten \/ "report" \in errs

\* Every report of a run shows that run, unless its history entry could not be
\* written, which is logged, or not be read back, which nobody is told; and it
\* shows no run that is older than the retention.
ReportsShowTheirRun ==
  \A k \in 1..written :
    /\ \/ run \in shows[Formats[k]]
       \/ "history" \in logged
       \/ run \in skipped[Formats[k]]
    /\ \A n \in shows[Formats[k]] : n <= run /\ run - n <= Retention

\* The Pushgateway shows a last success only of drills that passed in the run
\* whose results it shows: a run that fails takes an earlier success away.
SuccessIsCurrent == \A d \in Drill : gateway[d].success => outcomeAtPush[d] = "passed"

\* The two alert expressions of the documentation: validation_passed is 0, or
\* there is a last success and it is too old.
AlertFires(d) == gateway[d].pushed /\ ~gateway[d].valid

\* "A failed run removes it, so the stale-success expression above must be used
\* alongside the failure alert": together they see every drill that failed.
FailureRaisesAlert ==
  \A d \in Drill : outcomeAtPush[d] \notin {"none", "passed"} => AlertFires(d)
=============================================================================
