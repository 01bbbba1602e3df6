--------------------------- MODULE RunCommandProofs ---------------------------
(***************************************************************************)
(* What one run of the command leaves behind, proved for any drills, any   *)
(* requests, any report formats, any retention and any faults.             *)
(*                                                                         *)
(* The command is a straight line of steps that any of them may leave, so  *)
(* the invariant says, for each place in it, what must already have        *)
(* happened: every conjunct of IInv is one store of evidence, and holds    *)
(* from the step that writes it to the end of the run.                     *)
(***************************************************************************)
EXTENDS RunCommand, TLAPS

\* The run was refused before it selected its drills.
Refused == "setup" \in errs

\* The steps from one on, for a run that was not killed.
FromJudged == {"exiting", "ended"}
FromPushed == {"judging", "exiting", "ended"}
FromReported == {"pushing", "judging", "exiting", "ended"}
FromAppended == {"reporting", "pushing", "judging", "exiting", "ended"}
FromSaved == {"appending", "reporting", "pushing", "judging", "exiting", "ended"}
FromRan == {"saving", "appending", "reporting", "pushing", "judging", "exiting", "ended"}
FromSelected ==
  {"running", "saving", "appending", "reporting", "pushing", "judging", "exiting", "ended"}

\* A run that was not refused is past a step.
Past(steps) == run > 0 /\ step \in steps /\ ~Refused

-----------------------------------------------------------------------------
(* The inductive invariant                                                 *)

\* A refused run is on its way out, with nothing selected.
RefusedInv ==
  /\ Refused => step \in {"exiting", "ended", "killed"}
  /\ Refused \/ step = "configured" => selected = {}

SelectedInv ==
  Past(FromSelected) => ~HasUnknown(request) /\ selected = Named(request)

\* A drill has an outcome exactly if it was selected.
OutcomeInv ==
  Past(FromRan) => \A d \in Drill : d \in selected <=> outcome[d] # "none"

StateInv ==
  /\ Past(FromSaved) => lastRun = run \/ "last run" \in logged
  /\ Past(FromAppended) => run \in history \/ "history" \in logged

FilesInv ==
  /\ written # 0 => Past(FromAppended) \/ step = "killed"
  /\ Past(FromReported) => AllWritten \/ "report" \in errs

PushInv == Past(FromPushed) => outcomeAtPush = outcome \/ "metrics" \in logged

JudgedInv == Past(FromJudged) /\ AnyFailed => "drills" \in errs

\* Before the first run there is nothing.
FirstInv == run = 0 => step = "ended"

IInv ==
  /\ TypeOK
  /\ FirstInv
  /\ RefusedInv
  /\ SelectedInv
  /\ OutcomeInv
  /\ StateInv
  /\ FilesInv
  /\ PushInv
  /\ JudgedInv
  /\ ReportsShowTheirRun
  /\ SuccessIsCurrent
-----------------------------------------------------------------------------
(* Types                                                                   *)

LEMMA TypeInit == Init => TypeOK /\ FirstInv
  BY CommandAssumption
  DEF Init, TypeOK, FirstInv, NotRun, Absent, Sample, Outcomes, Format, Range

LEMMA TypeStep == TypeOK /\ FirstInv /\ [Next]_vars => TypeOK' /\ FirstInv'
  <1> SUFFICES ASSUME TypeOK, FirstInv, [Next]_vars PROVE TypeOK' /\ FirstInv'
    OBVIOUS
  <1>a. /\ run \in Nat /\ lastRun \in 0..run /\ history \subseteq 1..run
        /\ run = 0 => step = "ended"
        /\ MaxRuns \in Nat
    BY CommandAssumption DEF TypeOK, FirstInv
  <1>b. /\ logged \subseteq Warnings
        /\ written \in 0..Len(Formats) /\ shows \in [Format -> SUBSET (1..run)]
        /\ skipped \in [Format -> SUBSET (1..run)]
    BY DEF TypeOK
  <1>1. CASE StartRun
    <2>1. run' \in Nat /\ 0..run \subseteq 0..run' /\ 1..run \subseteq 1..run' /\ run' # 0
      BY <1>1, <1>a DEF StartRun
    <2>2. /\ selected' \subseteq Drill /\ errs' = {} /\ logged' = {}
          /\ outcome' \in [Drill -> Outcomes \cup {"none"}]
          /\ request' \in Requests \cup {<<>>}
      BY <1>1 DEF StartRun, NotRun, TypeOK
    <2>3. /\ written' \in 0..Len(Formats) /\ shows' \in [Format -> SUBSET (1..run')]
          /\ skipped' \in [Format -> SUBSET (1..run')]
      BY <1>1, CommandAssumption DEF StartRun
    <2> QED
      BY <1>1, <2>1, <2>2, <2>3 DEF TypeOK, FirstInv, Errors, Warnings, StartRun, stores, samples
  <1>2. CASE SelectDrills
    BY <1>2 DEF TypeOK, FirstInv, Errors, Warnings, SelectDrills, RefuseRun, Named, stores, files, samples
  <1>3. CASE RunDrills
    <2>1. outcome' \in [Drill -> Outcomes \cup {"none"}]
      BY <1>3 DEF RunDrills, TypeOK, Errors
    <2>2. errs' \subseteq Errors
      BY <1>3 DEF RunDrills, TypeOK, Errors
    <2> QED
      BY <1>3, <2>1, <2>2 DEF TypeOK, FirstInv, Errors, Warnings, RunDrills, KeepAlertError, stores, files, samples
  <1>4. CASE SaveLastRun
    <2>1. logged' = logged \/ logged' = logged \cup {"last run"}
      BY <1>4 DEF SaveLastRun, LogOnly
    <2>2. logged' \subseteq Warnings
      BY <1>b, <2>1 DEF Warnings
    <2>3. run \in 0..run
      BY <1>a
    <2>4. lastRun' \in 0..run
      BY <1>4, <1>a, <2>3 DEF SaveLastRun
    <2> QED
      BY <1>4, <2>2, <2>4 DEF TypeOK, FirstInv, Errors, Warnings, SaveLastRun, input, files, samples
  <1>5. CASE AppendHistory
    <2>1. logged' = logged \/ logged' = logged \cup {"history"}
      BY <1>5 DEF AppendHistory, LogOnly
    <2>2. logged' \subseteq Warnings
      BY <1>b, <2>1 DEF Warnings
    <2>3. run \in 1..run
      BY <1>5, <1>a DEF AppendHistory
    <2>4. history' \subseteq 1..run
      BY <1>5, <1>a, <2>3 DEF AppendHistory
    <2> QED
      BY <1>5, <2>2, <2>4 DEF TypeOK, FirstInv, Errors, Warnings, AppendHistory, input, files, samples
  <1>6. CASE WriteReport
    <2>0. run \in 1..run
      BY <1>6, <1>a DEF WriteReport
    <2>1. \A f, gone : Contents(f, gone) \subseteq 1..run
      BY <1>a, <2>0 DEF Contents, Evidence
    <2>2. written' \in 0..Len(Formats) /\ Formats[written + 1] \in Format
      BY <1>6, <1>b, CommandAssumption DEF WriteReport, AllWritten, Format, Range
    <2> DEFINE f == Formats[written + 1]
    <2>3. PICK gone \in SUBSET MayBeSkipped(f) :
            /\ shows' = [shows EXCEPT ![f] = Contents(f, gone)]
            /\ skipped' = [skipped EXCEPT ![f] = gone]
      BY <1>6 DEF WriteReport
    <2>4. gone \subseteq 1..run
      BY <1>a DEF MayBeSkipped
    <2>5. /\ shows' \in [Format -> SUBSET (1..run)]
          /\ skipped' \in [Format -> SUBSET (1..run)]
      BY <1>b, <2>1, <2>2, <2>3, <2>4
    <2> QED
      BY <1>6, <2>2, <2>5 DEF TypeOK, FirstInv, Errors, Warnings, WriteReport, input, stores, samples
  <1>7. CASE ReportFails
    BY <1>7 DEF TypeOK, FirstInv, Errors, Warnings, ReportFails, ReportErrorKept, input, stores, files, samples
  <1>8. CASE FinishReports
    BY <1>8 DEF TypeOK, FirstInv, Errors, Warnings, FinishReports, input, stores, files, samples
  <1>9. CASE PushResults
    <2>1. \A d \in Drill : Absent \in Sample /\ SampleOf(d) \in Sample
      BY DEF Absent, SampleOf, Sample, Valid, Passed
    <2>2. Pushed => gateway' \in [Drill -> Sample]
      BY <2>1 DEF Pushed, PushReplaces
    <2>3. /\ gateway' \in [Drill -> Sample]
          /\ outcomeAtPush' \in [Drill -> Outcomes \cup {"none"}]
          /\ logged' \subseteq Warnings
      BY <1>9, <2>2 DEF PushResults, Pushed, samples, TypeOK, Warnings
    <2> QED
      BY <1>9, <2>3 DEF TypeOK, FirstInv, Errors, Warnings, PushResults, input, stores, files
  <1>10. CASE Judge
    BY <1>10 DEF TypeOK, FirstInv, Errors, Warnings, Judge, input, stores, files, samples
  <1>11. CASE Exit
    BY <1>11 DEF TypeOK, FirstInv, Errors, Warnings, Exit, input, stores, files, samples
  <1>12. CASE Kill
    BY <1>12 DEF TypeOK, FirstInv, Errors, Warnings, Kill, input, stores, files, samples
  <1>13. CASE UNCHANGED vars
    BY <1>13 DEF TypeOK, FirstInv, Errors, Warnings, vars
  <1> QED
    BY <1>1, <1>2, <1>3, <1>4, <1>5, <1>6, <1>7, <1>8, <1>9, <1>10, <1>11, <1>12,
       <1>13 DEF Next

-----------------------------------------------------------------------------
(* The evidence of a run, step by step                                     *)

\* Everything but the reports and the Pushgateway.
Core == RefusedInv /\ SelectedInv /\ OutcomeInv /\ StateInv /\ FilesInv /\ PushInv /\ JudgedInv

LEMMA CoreInit == Init => Core
  BY DEF Init, Core, RefusedInv, SelectedInv, OutcomeInv, StateInv, FilesInv, PushInv,
     JudgedInv, Refused, Past

LEMMA CoreStep == TypeOK /\ FirstInv /\ Core /\ [Next]_vars => Core'
  <1> SUFFICES ASSUME TypeOK, FirstInv, Core, [Next]_vars PROVE Core'
    OBVIOUS
  <1>a. run \in Nat /\ (run = 0 => step = "ended") /\ written \in Nat /\ MaxRuns \in Nat
        /\ outcome \in [Drill -> Outcomes \cup {"none"}]
    BY CommandAssumption DEF TypeOK, FirstInv
  <1>b. step # "ended" => run > 0
    BY <1>a
  <1> USE DEF Core, RefusedInv, SelectedInv, OutcomeInv, StateInv, FilesInv, PushInv,
      JudgedInv, Refused, Past, FromJudged, FromPushed, FromReported, FromAppended,
      FromSaved, FromRan, FromSelected
  <1>1. CASE StartRun
    <2>1. step' = "configured" /\ "setup" \notin errs' /\ written' = 0 /\ selected' = {}
      BY <1>1 DEF StartRun
    <2> QED
      BY <2>1
  <1>2. CASE SelectDrills
    <2>1. step = "configured" /\ ~Refused /\ written = 0 /\ run > 0 /\ selected = {}
      BY <1>2, <1>a DEF SelectDrills
    <2>2. UNCHANGED <<run, request, written>>
      BY <1>2 DEF SelectDrills, files
    <2>3. CASE RefuseRun
      BY <2>1, <2>2, <2>3 DEF RefuseRun
    <2>4. CASE ~HasUnknown(request) /\ selected' = Named(request) /\ step' = "running" /\ UNCHANGED errs
      <3>1. HasUnknown(request)' = HasUnknown(request) /\ Named(request)' = Named(request)
        BY <2>2 DEF HasUnknown, Named
      <3> QED
        BY <2>1, <2>2, <2>4, <3>1
    <2> QED
      BY <1>2, <2>3, <2>4 DEF SelectDrills
  <1>3. CASE RunDrills
    <2>1. \A d \in Drill : d \in selected <=> outcome'[d] # "none"
      BY <1>3 DEF RunDrills, Outcomes
    <2> QED
      BY <1>3, <2>1, <1>a DEF RunDrills, KeepAlertError, files, stores
  <1>4. CASE SaveLastRun
    BY <1>4, <1>a DEF SaveLastRun, LogOnly, input, files
  <1>5. CASE AppendHistory
    <2>1. step' = "reporting" /\ UNCHANGED <<input, errs, lastRun, files>> /\ logged \subseteq logged'
      BY <1>5 DEF AppendHistory, LogOnly, files
    <2>2. run \in history' \/ "history" \in logged'
      BY <1>5 DEF AppendHistory, LogOnly
    <2>3. ~Refused /\ step = "appending"
      BY <1>5 DEF AppendHistory
    <2> QED
      BY <2>1, <2>2, <2>3, <1>a DEF input, files
  <1>6. CASE WriteReport
    <2>1. /\ step = "reporting" /\ UNCHANGED <<run, request, selected, outcome>>
          /\ UNCHANGED <<step, errs, logged, lastRun, history>>
      BY <1>6 DEF WriteReport, stores, input
    <2>2. ~Refused /\ run > 0
      BY <2>1, <1>b
    <2>3. HasUnknown(request)' = HasUnknown(request) /\ Named(request)' = Named(request)
      <3>1. request' = request
        BY <2>1
      <3> QED
        BY <3>1 DEF HasUnknown, Named
    <2> QED
      BY <2>1, <2>2, <2>3
  <1>7. CASE ReportFails
    BY <1>7, <1>a DEF ReportFails, ReportErrorKept, input, stores, files
  <1>8. CASE FinishReports
    BY <1>8, <1>a DEF FinishReports, AllWritten, input, stores, files
  <1>9. CASE PushResults
    BY <1>9, <1>a DEF PushResults, Pushed, AllWritten, input, stores, files
  <1>10. CASE Judge
    <2>1. /\ step = "judging" /\ step' = "exiting" /\ errs \subseteq errs'
          /\ errs' \subseteq errs \cup {"drills"}
          /\ UNCHANGED <<input, logged, lastRun, history, written, outcomeAtPush>>
      BY <1>10 DEF Judge, stores, files, samples
    <2>2. AnyFailed' <=> AnyFailed
      BY <2>1 DEF AnyFailed, input
    <2>3. AnyFailed => "drills" \in errs'
      BY <1>10 DEF Judge
    <2> QED
      BY <2>1, <2>2, <2>3, <1>a DEF AllWritten, input
  <1>11. CASE Exit
    BY <1>11, <1>a DEF Exit, AnyFailed, AllWritten, input, stores, files, samples
  <1>12. CASE Kill
    BY <1>12, <1>a DEF Kill, AnyFailed, AllWritten, input, stores, files, samples
  <1>13. CASE UNCHANGED vars
    BY <1>13, <1>a DEF vars, AnyFailed, AllWritten, HasUnknown, Named
  <1> QED
    BY <1>1, <1>2, <1>3, <1>4, <1>5, <1>6, <1>7, <1>8, <1>9, <1>10, <1>11, <1>12,
       <1>13 DEF Next

-----------------------------------------------------------------------------
(* What the report files and the Pushgateway show                          *)

\* A file shows this run, or its history entry is missing or was passed over, and
\* nothing older than the retention, whatever the history held before.
LEMMA ContentsShowTheRun ==
  ASSUME run \in Nat \ {0}, history \subseteq 1..run,
         run \in history \/ "history" \in logged, NEW f, NEW gone
  PROVE  /\ run \in Contents(f, gone) \/ "history" \in logged \/ run \in gone
         /\ \A n \in Contents(f, gone) : n <= run /\ run - n <= Retention
<1>1. run \in history \ gone => run \in Evidence(gone)
  BY CommandAssumption DEF Evidence, InWindow
<1>2. \A n \in Evidence(gone) : n \in 1..run /\ n + Retention >= run
  BY CommandAssumption DEF Evidence, InWindow
<1>3. run \in Contents(f, gone) \/ "history" \in logged \/ run \in gone
  BY <1>1 DEF Contents
<1>4. \A n \in Contents(f, gone) : n \in 1..run /\ n + Retention >= run
  BY <1>2, CommandAssumption DEF Contents
<1>5. \A n \in Contents(f, gone) : n <= run /\ run - n <= Retention
  BY <1>4, CommandAssumption
<1> QED
  BY <1>3, <1>5

LEMMA ReportsStep ==
  TypeOK /\ FirstInv /\ Core /\ ReportsShowTheirRun /\ [Next]_vars => ReportsShowTheirRun'
<1> SUFFICES ASSUME TypeOK, FirstInv, Core, ReportsShowTheirRun, [Next]_vars
             PROVE  ReportsShowTheirRun'
  OBVIOUS
<1>1. CASE StartRun
  BY <1>1 DEF StartRun, ReportsShowTheirRun
<1>2. CASE WriteReport
  <2>1. /\ run \in Nat \ {0} /\ history \subseteq 1..run
        /\ run \in history \/ "history" \in logged
    <3>1. step = "reporting"
      BY <1>2 DEF WriteReport
    <3>2. run \in Nat \ {0} /\ history \subseteq 1..run
      BY <3>1 DEF TypeOK, FirstInv
    <3>3. Past(FromAppended)
      BY <3>1, <3>2 DEF Core, RefusedInv, Past, FromAppended
    <3> QED
      BY <3>2, <3>3 DEF Core, StateInv
  <2> DEFINE f == Formats[written + 1]
  <2>2. PICK gone \in SUBSET MayBeSkipped(f) :
          /\ shows' = [shows EXCEPT ![f] = Contents(f, gone)]
          /\ skipped' = [skipped EXCEPT ![f] = gone]
    BY <1>2 DEF WriteReport
  <2>3. /\ run \in Contents(f, gone) \/ "history" \in logged \/ run \in gone
        /\ \A n \in Contents(f, gone) : n <= run /\ run - n <= Retention
    <3> HIDE DEF f
    <3> QED
      BY <2>1, ContentsShowTheRun
  <2>4. /\ written \in 0..Len(Formats) /\ Len(Formats) \in Nat
        /\ shows \in [Format -> SUBSET (1..run)]
        /\ skipped \in [Format -> SUBSET (1..run)]
    BY CommandAssumption DEF TypeOK
  <2>5. \A k \in 1..Len(Formats) : Formats[k] \in Format
    BY CommandAssumption DEF Format, Range
  <2>6. /\ written' = written + 1 /\ written + 1 \in 1..Len(Formats)
        /\ run' = run /\ logged' = logged
    BY <1>2, <2>4 DEF WriteReport, AllWritten, input
  <2> SUFFICES ASSUME NEW k \in 1..(written + 1)
               PROVE  /\ \/ run \in shows'[Formats[k]] \/ "history" \in logged
                         \/ run \in skipped'[Formats[k]]
                      /\ \A n \in shows'[Formats[k]] : n <= run /\ run - n <= Retention
    BY <2>6 DEF ReportsShowTheirRun
  <2>7. CASE Formats[k] = f
    <3>1. shows'[Formats[k]] = Contents(f, gone) /\ skipped'[Formats[k]] = gone
      BY <2>2, <2>4, <2>5, <2>6, <2>7
    <3> QED
      BY <2>3, <3>1
  <2>8. CASE Formats[k] # f
    <3>1. k \in 1..written /\ Formats[k] \in Format
      BY <2>4, <2>5, <2>6, <2>8
    <3>2. /\ shows'[Formats[k]] = shows[Formats[k]]
          /\ skipped'[Formats[k]] = skipped[Formats[k]]
      BY <2>2, <2>4, <2>8, <3>1
    <3> QED
      BY <3>1, <3>2 DEF ReportsShowTheirRun
  <2> QED
    BY <2>7, <2>8
<1>3. CASE ~StartRun /\ ~WriteReport
  <2> DEFINE Kept == UNCHANGED <<run, written, shows, skipped>> /\ logged \subseteq logged'
  <2>1. SelectDrills \/ RunDrills => Kept
    BY DEF SelectDrills, RunDrills, files
  <2>2. SaveLastRun \/ AppendHistory => Kept
    BY DEF SaveLastRun, AppendHistory, LogOnly, input, files
  <2>3. ReportFails \/ FinishReports => Kept
    BY DEF ReportFails, FinishReports, input, files
  <2>4. PushResults \/ Judge \/ Exit \/ Kill \/ UNCHANGED vars => Kept
    BY DEF PushResults, Judge, Exit, Kill, vars, input, files
  <2>5. Kept
    BY <1>3, <2>1, <2>2, <2>3, <2>4 DEF Next
  <2> QED
    BY <2>5 DEF ReportsShowTheirRun
<1> QED
  BY <1>1, <1>2, <1>3

LEMMA SuccessStep == SuccessIsCurrent /\ [Next]_vars => SuccessIsCurrent'
<1> SUFFICES ASSUME SuccessIsCurrent, [Next]_vars PROVE SuccessIsCurrent'
  OBVIOUS
<1>1. CASE Pushed
  <2>1. \A d \in Drill : gateway'[d] = IF outcome[d] = "none" THEN Absent ELSE SampleOf(d)
    BY <1>1 DEF Pushed, PushReplaces
  <2>2. \A d \in Drill : gateway'[d].success => outcome[d] = "passed"
    <3>1. ~Absent.success
      BY DEF Absent
    <3>2. \A d \in Drill : SampleOf(d).success => outcome[d] = "passed"
      BY DEF SampleOf, Passed
    <3> QED
      BY <2>1, <3>1, <3>2
  <2> QED
    BY <1>1, <2>2 DEF Pushed, SuccessIsCurrent
<1>2. CASE UNCHANGED samples
  BY <1>2 DEF samples, SuccessIsCurrent
<1>3. Pushed \/ UNCHANGED samples
  BY DEF Next, vars, StartRun, SelectDrills, RunDrills, SaveLastRun, AppendHistory,
     WriteReport, ReportFails, FinishReports, PushResults, Judge, Exit, Kill, samples
<1> QED
  BY <1>1, <1>2, <1>3

-----------------------------------------------------------------------------
(* The theorems                                                            *)

\* The invariant holds in every state of every sequence of runs.
THEOREM Invariance == Spec => []IInv
<1>1. Init => IInv
  <2>1. Init => ReportsShowTheirRun /\ SuccessIsCurrent
    BY DEF Init, ReportsShowTheirRun, SuccessIsCurrent, Absent
  <2> QED
    BY <2>1, TypeInit, CoreInit DEF IInv, Core
<1>2. IInv /\ [Next]_vars => IInv'
  BY TypeStep, CoreStep, ReportsStep, SuccessStep DEF IInv, Core
<1> QED
  BY <1>1, <1>2, PTL DEF Spec

\* Exit code 0 is a gate: every drill that was asked for ran and passed, with
\* its clean-up, the alerts were sent and all report files are there.
THEOREM ExitZero == Spec => []ExitZeroIsAGate
<1>1. IInv => ExitZeroIsAGate
  <2> SUFFICES ASSUME IInv, Ended, errs = {}
               PROVE  /\ \A d \in IF request = <<>> THEN Drill ELSE Range(request) :
                           d \in Drill /\ outcome[d] = "passed"
                      /\ AllWritten
    BY DEF ExitZeroIsAGate, ExitCode
  <2>1. Past(FromSelected) /\ Past(FromRan) /\ Past(FromReported) /\ Past(FromJudged)
    BY DEF Ended, Past, Refused, FromSelected, FromRan, FromReported, FromJudged
  <2>2. ~HasUnknown(request) /\ selected = Named(request) /\ AllWritten /\ ~AnyFailed
    BY <2>1 DEF IInv, SelectedInv, FilesInv, JudgedInv
  <2>3. \A d \in Drill : d \in selected => outcome[d] = "passed"
    BY <2>1, <2>2 DEF IInv, OutcomeInv, AnyFailed, Passed
  <2>4. \A d \in Range(request) : d \in Drill
    BY <2>2 DEF HasUnknown, Range
  <2> QED
    BY <2>2, <2>3, <2>4 DEF Named
<1> QED
  BY <1>1, Invariance, PTL

\* The evidence of a run that ended is where it belongs, or the failure to put
\* it there was logged or is in the exit code, whatever the alerts did.
THEOREM EvidenceSurvives == Spec => []EvidenceSurvivesAlertFailure
<1>1. IInv => EvidenceSurvivesAlertFailure
  <2> SUFFICES ASSUME IInv, Ended, Ran
               PROVE  /\ lastRun = run \/ "last run" \in logged
                      /\ run \in history \/ "history" \in logged
                      /\ outcomeAtPush = outcome \/ "metrics" \in logged
                      /\ AllWritten \/ "report" \in errs
    BY DEF EvidenceSurvivesAlertFailure
  <2>1. ~Refused
    BY DEF IInv, RefusedInv, Ran
  <2>2. Past(FromSaved) /\ Past(FromAppended) /\ Past(FromReported) /\ Past(FromPushed)
    BY <2>1 DEF Ended, Past, FromSaved, FromAppended, FromReported, FromPushed
  <2> QED
    BY <2>2 DEF IInv, StateInv, FilesInv, PushInv
<1> QED
  BY <1>1, Invariance, PTL

\* Every file of a run shows that run, unless its history entry could not be
\* written or not be read back, and no run past the retention.
THEOREM ReportsShow == Spec => []ReportsShowTheirRun
  BY Invariance, PTL DEF IInv

\* A last success at the Pushgateway is one of the run that was pushed last.
THEOREM SuccessCurrent == Spec => []SuccessIsCurrent
  BY Invariance, PTL DEF IInv
===============================================================================
