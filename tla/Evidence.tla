------------------------------- MODULE Evidence -------------------------------
(***************************************************************************)
(* The readers of the state store: "restore-drill report", which loads the *)
(* history of a window (LoadHistory) and aggregates it into an evidence    *)
(* report (BuildEvidenceReport), and "restore-drill status", which shows   *)
(* last-run.json.  They run while other processes save their runs, are     *)
(* killed, and leave temporary files behind (StateStore).                  *)
(*                                                                         *)
(* An entry of the history is never changed once it has its name, so that  *)
(* reading the files one after the other is one step here; the directory   *)
(* is listed in many, since other processes add to it meanwhile.           *)
(***************************************************************************)
EXTENDS StateStore, Integers, Sequences, SequencesExt

CONSTANTS
  Drill,       \* names of drills
  Check,       \* validation checks
  Recordable,    \* what the processes may record: a set of functions
  Earlier,     \* the run that was saved before all others, if any
  ReadFaults   \* a file may be unreadable, or removed between list and read

(***************************************************************************)
(* What executeDrill can return, as far as a reader looks at it: it ends   *)
(* with an error before the verdict, or with the verdict of its checks;    *)
(* the clean-up may add an error to either.                                *)
(***************************************************************************)
EngineResult ==
  {r \in [name : Drill, ValidationPassed : BOOLEAN, Error : BOOLEAN,
          failed : SUBSET Check] :
     /\ r.ValidationPassed => r.failed = {}
     /\ ~r.ValidationPassed /\ ~r.Error => r.failed # {}}

ASSUME EvidenceAssumption ==
  /\ ReadFaults \in BOOLEAN
  /\ IsFiniteSet(Process)
  /\ Earlier \subseteq Process /\ \A p, q \in Earlier : p = q
  /\ \A f \in Recordable, p \in Process :
       /\ f[p] \in Seq(EngineResult)
       /\ f[p] # <<>>   \* a configuration without drills is refused
       /\ \A i, j \in DOMAIN f[p] : f[p][i].name = f[p][j].name => i = j

VARIABLES
  results,  \* what each process saves
  command,  \* where the reader is
  since,    \* start of its window
  known,    \* names in the history when it began to list the directory
  unread,   \* runs whose files it listed and could not read
  report    \* the EvidenceReport, or what status printed

reader == <<command, since, known, unread, report>>
evidence == <<vars, results, reader>>

NoReport == [total |-> 0, passed |-> 0, failed |-> 0, drills |-> <<>>,
             rows |-> {}, runs |-> <<>>]

EvidenceInit ==
  /\ clock = 0
  /\ pc = [p \in Process |-> IF p \in Earlier THEN "done" ELSE "start"]
  /\ stamp = [p \in Process |-> 0]
  /\ tmp = [p \in Process |-> "none"]
  /\ attempt = [p \in Process |-> 0]
  /\ outcome = [p \in Process |-> IF p \in Earlier THEN "ok" ELSE "pending"]
  /\ history = {[name |-> <<0, 0>>, run |-> p, content |-> "flushed"] : p \in Earlier}
  /\ onDisk = history
  /\ \E run \in IF Earlier = {} THEN {NoFile} ELSE Earlier :
       last = [run |-> run, content |-> "flushed"]
  /\ lastDisk = {last}
  /\ losses = 0
  /\ results \in Recordable
  /\ command = "idle"
  /\ since = 0
  /\ known = {}
  /\ unread = {}
  /\ report = NoReport

-----------------------------------------------------------------------------
(* BuildEvidenceReport                                                     *)

\* The three places that call a drill passed: the exit code of the run, the
\* report, and status.
drillPassed(r) == r.ValidationPassed /\ ~r.Error
CountedPassed(r) == r.ValidationPassed /\ ~r.Error
ShownFailed(r) == ~r.ValidationPassed \/ r.Error

\* Mutant: only the checks are listed.
CheckRows(p, r) == {<<p, r.name, c>> : c \in r.failed}

\* The rows of failureEvidenceForRun: one for the error, one for each check.
failureEvidenceForRun(p, r) ==
  (IF r.Error THEN {<<p, r.name, "restore-drill">>} ELSE {})
    \cup {<<p, r.name, c>> : c \in r.failed}

NoSummary == [runs |-> 0, pass |-> 0, fail |-> 0, last |-> -1, status |-> ""]

\* Mutant: the first run that is met settles the status of its drill.
IsFirst(time, ds) == ds.last = NoSummary.last

\* run.Timestamp.After(ds.LastRun), from the zero time on.
IsLater(time, ds) == time > ds.last

Summarize(ds, time, ok) ==
  [runs   |-> ds.runs + 1,
   pass   |-> ds.pass + (IF ok THEN 1 ELSE 0),
   fail   |-> ds.fail + (IF ok THEN 0 ELSE 1),
   last   |-> IF IsLater(time, ds) THEN time ELSE ds.last,
   status |-> IF IsLater(time, ds) THEN (IF ok THEN "PASS" ELSE "FAIL") ELSE ds.status]

\* The body of the two loops, for one result of one run.
AddResult(rep, p, r) ==
  LET ok == CountedPassed(r)
  IN [rep EXCEPT !.total  = @ + 1,
                 !.passed = @ + (IF ok THEN 1 ELSE 0),
                 !.failed = @ + (IF ok THEN 0 ELSE 1),
                 !.drills[r.name] = Summarize(@, stamp[p], ok),
                 !.rows   = IF ok THEN @ ELSE @ \cup failureEvidenceForRun(p, r)]

AddRun(rep, p) ==
  LET added[i \in 0..Len(results[p])] ==
        IF i = 0 THEN rep ELSE AddResult(added[i - 1], p, results[p][i])
  IN added[Len(results[p])]

NewReport(runs) ==
  [NoReport EXCEPT !.drills = [d \in Drill |-> NoSummary], !.runs = runs]

BuildEvidenceReport(runs) ==
  LET built[k \in 0..Len(runs)] ==
        IF k = 0 THEN NewReport(runs) ELSE AddRun(built[k - 1], runs[k].run)
  IN built[Len(runs)]

\* evaluateEvidenceChecks.
HistoryPresent(rep) == IF rep.total = 0 THEN "FAIL" ELSE "PASS"

AllDrillsPassed(rep) ==
  CASE rep.total = 0                   -> "FAIL"
    [] rep.total > 0 /\ rep.failed > 0 -> "WARN"
    [] OTHER                           -> "PASS"

FailureDetails(rep) ==
  CASE rep.failed > 0 /\ rep.rows = {} -> "FAIL"
    [] rep.failed > 0 /\ rep.rows # {} -> "WARN"
    [] OTHER                           -> "PASS"

-----------------------------------------------------------------------------
(* reportCmd: LoadHistory, then the report                                 *)

\* What a listing of history/ may hold: its entries, and temporary files of
\* AppendHistory, those of killed processes too.
DirEntry ==
  {[name |-> e.name, run |-> e.run, ext |-> ".json", content |-> e.content] :
     e \in history}
  \cup {[name |-> <<stamp[p], attempt[p]>>, run |-> p, ext |-> ".tmp", content |-> tmp[p]] :
          p \in {q \in Process : tmp[q] # "none"
                                 /\ pc[q] \in {"append", "append written", "dead"}}}

\* The window is taken, and the directory opened.
OpenHistory ==
  /\ command = "idle"
  /\ command' = "listing"
  /\ since' \in 0..clock
  /\ known' = {e.name : e \in history}
  /\ UNCHANGED <<unread, report>>

\* Mutant: every file of the directory is taken for an entry.
AnyFile(e) == TRUE

IsJSON(e) == e.ext = ".json"

\* What the list shows of the directory: all it held when it was opened, and of
\* what came later any part.
Listing(listing) ==
  /\ listing \subseteq DirEntry
  /\ \A e \in DirEntry : e.ext = ".json" /\ e.name \in known => e \in listing

\* A file that is unreadable or incomplete, or older than the window, is passed
\* over; sort.Slice leaves runs with equal times in any order.
Loaded(listing, bad) ==
  {e \in listing \ bad : IsJSON(e) /\ e.content # "torn" /\ ~(stamp[e.run] < since)}

LoadHistory(listing, bad) ==
  {s \in SetToSeqs(Loaded(listing, bad)) :
     \A j, k \in DOMAIN s : j < k => stamp[s[j].run] <= stamp[s[k].run]}

\* "no drill history found" unless a run was loaded.
ReportHistory ==
  /\ command = "listing"
  /\ \E listing \in SUBSET DirEntry :
     /\ Listing(listing)
     /\ \E bad \in SUBSET {e \in listing : IsJSON(e)} : \E runs \in LoadHistory(listing, bad) :
          /\ bad # {} => ReadFaults
          /\ unread' = {e.run : e \in bad}
          /\ \/ runs = <<>> /\ command' = "no history" /\ report' = NoReport
             \/ runs # <<>> /\ command' = "reported" /\ report' = BuildEvidenceReport(runs)
  /\ UNCHANGED <<since, known>>

\* os.ReadDir fails for another reason than a missing directory.
ListFails ==
  /\ command = "listing"
  /\ ReadFaults
  /\ command' = "failed"
  /\ UNCHANGED <<since, known, unread, report>>

\* statusCmd, for a file that holds a run.
ShowStatus ==
  /\ command = "idle"
  /\ last.run # NoFile
  /\ last.content # "torn"
  /\ command' = "shown"
  /\ report' = [NoReport EXCEPT !.runs = <<last>>,
                                !.rows = {<<last.run, r.name, "FAIL">> :
                                            r \in {x \in Range(results[last.run]) : ShownFailed(x)}}]
  /\ UNCHANGED <<since, known, unread>>

\* statusCmd: "no previous run found".
NoPreviousRun ==
  /\ command = "idle"
  /\ last.run = NoFile \/ last.content = "torn" \/ ReadFaults
  /\ command' = "no run"
  /\ UNCHANGED <<since, known, unread, report>>

-----------------------------------------------------------------------------
(* Composition                                                             *)

Read ==
  /\ OpenHistory \/ ReportHistory \/ ListFails \/ ShowStatus \/ NoPreviousRun
  /\ UNCHANGED <<vars, results>>

Write ==
  /\ Tick \/ \E p \in Process : SaveState(p) \/ Kill(p)
  /\ UNCHANGED <<results, reader>>

LosePower ==
  /\ PowerLoss
  /\ command' = IF command = "idle" THEN "idle" ELSE "dead"
  /\ UNCHANGED <<results, since, known, unread, report>>

EvidenceNext == Read \/ Write \/ LosePower

EvidenceSpec == EvidenceInit /\ [][EvidenceNext]_evidence

-----------------------------------------------------------------------------
(* Properties                                                              *)

\* The runs a report counts, and their results as <<run, index>>.
Counted == {e.run : e \in Range(report.runs)}
Lines == UNION {{<<p, i>> : i \in DOMAIN results[p]} : p \in Counted}
LinesOf(d) == {l \in Lines : results[l[1]][l[2]].name = d}
FailedLines == {l \in Lines : ~drillPassed(results[l[1]][l[2]])}

\* The runs nobody could miss: in the history before the command listed it, in
\* the window, with a file that can be read.
Due == {e.run : e \in {f \in history : f.name \in known /\ since <= stamp[f.run]}} \ unread

\* A report counts every run that was recorded when it began, no run twice and
\* none that is not in the history, whatever is saved, or left behind by killed
\* processes, while it reads; its totals are those of these runs, over all and
\* for each drill.  "No drill history found" is said only if there is none.
ReportIsTheHistory ==
  /\ command = "no history" => Due = {}
  /\ command = "reported" =>
       /\ Due \subseteq Counted
       /\ Counted \subseteq {e.run : e \in history}
       /\ Len(report.runs) = Cardinality(Counted)
       /\ report.total = Cardinality(Lines)
       /\ report.failed = Cardinality(FailedLines)
       /\ report.passed + report.failed = report.total
       /\ \A d \in Drill :
            /\ report.drills[d].runs = Cardinality(LinesOf(d))
            /\ report.drills[d].fail = Cardinality(LinesOf(d) \cap FailedLines)
            /\ report.drills[d].pass + report.drills[d].fail = report.drills[d].runs

\* The status of a drill is its verdict in a run than which no counted run of
\* it is later; of runs in the same instant it may be that of any.
LastStatusIsLatest ==
  command = "reported" =>
    \A d \in Drill : LinesOf(d) # {} =>
      \E l \in LinesOf(d) :
        /\ \A m \in LinesOf(d) : stamp[m[1]] <= stamp[l[1]]
        /\ report.drills[d].last = stamp[l[1]]
        /\ report.drills[d].status = IF l \in FailedLines THEN "FAIL" ELSE "PASS"

\* A drill that failed by the exit code of its run, be it only in its clean-up,
\* is failed for status and for the report, and the report has a line that says
\* why; "all-drills-passed" is never PASS over a failure it could read.
FailuresAreExplained ==
  /\ command = "shown" =>
       \E p \in Process :
         /\ p = Head(report.runs).run
         /\ report.rows = {<<p, r.name, "FAIL">> :
                             r \in {x \in Range(results[p]) : ~drillPassed(x)}}
  /\ command = "reported" =>
       /\ \A l \in FailedLines :
            \E row \in report.rows : row[1] = l[1] /\ row[2] = results[l[1]][l[2]].name
       /\ FailureDetails(report) # "FAIL"
       /\ HistoryPresent(report) = "PASS"
       /\ AllDrillsPassed(report) = "PASS" =>
            \A p \in Due : \A i \in DOMAIN results[p] : drillPassed(results[p][i])
=============================================================================
