-------------------------------- MODULE Doctor --------------------------------
(***************************************************************************)
(* "restore-drill doctor" (runDoctor), and then a "run" with the same      *)
(* configuration in the same environment: its set-up, the creation of its  *)
(* targets, the saving of its state and its reports, which doctor has      *)
(* checked beforehand.  A part fails also when the run only logs its       *)
(* error.  Alerts and metrics are no part here: doctor looks at neither.   *)
(*                                                                         *)
(* reporting.output names "the path"; it lies in a directory, "the         *)
(* parent".  Reports go to the path itself or to a new file below it.      *)
(***************************************************************************)
EXTENDS Naturals

CONSTANT Environments   \* what doctor may find, see Environment

Directories == {"writable", "readonly", "absent", "blocked"}

Environment ==
  [valid      : BOOLEAN,     \* the configuration loads
   mode       : {"auto", "docker", "kubernetes", "other"},
   padded     : BOOLEAN,     \* --runtime is given with blanks around it
   flags      : BOOLEAN,     \* the run's other flags are right: drills that
                             \* exist, labels and annotations with a key
   inCluster  : BOOLEAN,     \* KUBERNETES_SERVICE_HOST is set
   daemon     : {"down", "refuses", "creates"},   \* Docker
   api        : {"down", "refuses", "lists"},     \* pods of restore-drill
   creates    : SUBSET {"restore-drill", "other"},  \* namespaces for new pods
   namespace  : {"restore-drill", "other"},         \* --kube-namespace of the run
   home       : Directories, \* the state directory
   history    : Directories \cup {"unlistable"},    \* a directory in it
   parent     : Directories,
   allows     : SUBSET {"rename", "link", "state", "reports"},  \* see below
   path       : {"absent", "file", "lockedFile", "dir", "lockedDir"},
   output     : {"none", "slash", "extension", "bare"},   \* how it is written
   formats    : SUBSET {"json", "html", "markdown"},      \* those of files
   missing    : SUBSET {"required", "optional"},    \* tools not on PATH
   strict     : BOOLEAN]

\* What the file systems allow beyond a new, empty file: last-run.json to be
\* replaced, an entry of the history to be linked, and the contents of the state
\* and of the reports to be stored.

\* Nothing is in a directory that is not there.
ASSUME DoctorAssumption ==
  \A e \in Environments :
    /\ e \in Environment
    /\ e.parent \in {"absent", "blocked"} => e.path = "absent"
    /\ e.home = "absent" => e.history = "absent"
    /\ e.home = "blocked" => e.history \in {"absent", "blocked"}

VARIABLES
  env,      \* the environment
  doctorPc, \* the check doctor is at; "start", "done"
  found,    \* how many checks were added with each status
  exit,     \* exit code of doctor, and the status in its report
  runPc,    \* the part of the run that is next
  failures  \* the parts of the run that failed

doctor == <<env, doctorPc, found, exit, runPc, failures>>

Counts == [pass |-> 0, warn |-> 0, fail |-> 0]

DoctorInit ==
  /\ env = {} /\ doctorPc = "start" /\ found = Counts
  /\ exit = [code |-> 0, status |-> "none"]
  /\ runPc = "wait" /\ failures = {}

-----------------------------------------------------------------------------
(* The file system                                                         *)

InPath(e) == e.path \in {"dir", "lockedDir"}

\* os.MkdirAll of the path or the parent; the empty set if it fails.
MkdirParent(e) ==
  IF e.parent = "blocked" THEN {}
  ELSE {[e EXCEPT !.parent = IF @ = "absent" THEN "writable" ELSE @]}

MkdirPath(e) ==
  IF InPath(e) THEN {e}
  ELSE {[f EXCEPT !.path = "dir"] :
          f \in {g \in MkdirParent(e) : g.parent = "writable" /\ g.path = "absent"}}

Mkdir(e, dir) == IF dir = "path" THEN MkdirPath(e) ELSE MkdirParent(e)

\* A new file can be made in the directory.
Holds(e, dir) == IF dir = "path" THEN e.path = "dir" ELSE e.parent = "writable"

\* reportOutputIsDir: whether reports go below the path.
reportOutputIsDir(e, several) ==
  several \/ e.output = "slash" \/ InPath(e) \/ e.output = "bare"

ReportDir(e, several) == IF reportOutputIsDir(e, several) THEN "path" ELSE "parent"

-----------------------------------------------------------------------------
(* runDoctor                                                               *)

add(status) == found' = [found EXCEPT ![status] = @ + 1]

At(here, next) ==
  doctorPc = here /\ doctorPc' = next /\ UNCHANGED <<exit, runPc, failures>>

Verify(ok) == add(IF ok THEN "pass" ELSE "fail")

CheckConfig ==
  /\ At("start", "runtime")
  /\ env' \in Environments
  /\ Verify(env'.valid)

SelectRuntime ==
  /\ At("runtime", "ping")
  /\ Verify(env.mode # "other")
  /\ UNCHANGED env

\* The runtime that a mode stands for, in doctor and in newRuntime.
Resolved(e) ==
  IF e.mode # "auto" THEN e.mode ELSE IF e.inCluster THEN "kubernetes" ELSE "docker"

\* The runtime answers at all.
Responds(e) == IF Resolved(e) = "docker" THEN e.daemon # "down" ELSE e.api # "down"

\* Ping: of the daemon, or for a list of the pods in restore-drill.
Ping(e) == IF Resolved(e) = "docker" THEN Responds(e) ELSE e.api = "lists"

\* "auto" adds a check of its own, which passes.
PingRuntime ==
  /\ At("ping", "state")
  /\ LET ok == Ping(env)
         auto == IF env.mode = "auto" THEN 1 ELSE 0
     IN found' = IF env.mode = "other" THEN found
                 ELSE [found EXCEPT !.pass = @ + auto + (IF ok THEN 1 ELSE 0),
                                    !.fail = @ + (IF ok THEN 0 ELSE 1)]
  /\ UNCHANGED env

CheckStateDir ==
  /\ At("state", "report")
  /\ env' = [env EXCEPT !.home = IF @ = "absent" THEN "writable" ELSE @]
  /\ Verify(env'.home = "writable")

\* Mutant: only that the directory exists is checked.
OnlyExists(e, dir) == Mkdir(e, dir) # {}

\* checkWritableDir: the directory is made, and a temporary file in it.
checkWritableDir(e, dir) == \E f \in Mkdir(e, dir) : Holds(f, dir)

After(e, dir) == IF Mkdir(e, dir) = {} THEN e ELSE CHOOSE f \in Mkdir(e, dir) : TRUE

CheckReportDir ==
  /\ At("report", "tools")
  /\ IF ~env.valid \/ env.output = "none"
     THEN add("warn") /\ UNCHANGED env
     ELSE LET dir == ReportDir(env, FALSE) IN
          /\ Verify(checkWritableDir(env, dir))
          /\ env' = After(env, dir)

\* Two tools are required and nine are optional; which of them is missing does
\* not matter.
addToolChecks ==
  /\ At("tools", "finalize")
  /\ LET lost(kind) == IF kind \in env.missing THEN 1 ELSE 0
     IN found' = [found EXCEPT !.pass = @ + 11 - lost("required") - lost("optional"),
                               !.fail = @ + lost("required"),
                               !.warn = @ + lost("optional")]
  /\ UNCHANGED env

\* The status in the report.
Status ==
  IF found.fail > 0 \/ (env.strict /\ found.warn > 0) THEN "fail"
  ELSE IF found.warn > 0 THEN "warn" ELSE "pass"

\* The error of doctorCmd.
Code == IF found.fail > 0 \/ (env.strict /\ found.warn > 0) THEN 1 ELSE 0

finalize ==
  /\ doctorPc = "finalize" /\ doctorPc' = "done"
  /\ exit' = [code |-> Code, status |-> Status]
  /\ runPc' = "setup"
  /\ UNCHANGED <<env, found, failures>>

-----------------------------------------------------------------------------
(* run                                                                     *)

Part(here, next, ok) ==
  /\ runPc = here /\ runPc' = next
  /\ failures' = IF ok THEN failures ELSE failures \cup {here}
  /\ UNCHANGED <<doctorPc, found, exit>>

\* LoadConfig, the flags and newRuntime, which makes a client without a call of
\* it.  Without them there is no run.
SetUp ==
  \E client \in BOOLEAN :
    LET ok == env.valid /\ env.mode # "other" /\ ~env.padded /\ env.flags /\ client IN
    /\ Part("setup", IF ok THEN "target" ELSE "done", ok)
    /\ Responds(env) => client
    /\ UNCHANGED env

\* The engine asks the runtime for the targets of the drills.
CreateTargets ==
  /\ Part("target", "save",
          Responds(env) /\ IF Resolved(env) = "docker" THEN env.daemon = "creates"
                          ELSE env.namespace \in env.creates)
  /\ UNCHANGED env

\* Save writes last-run.json, and AppendHistory an entry of the history; both
\* make their directory.
Saved(e) ==
  LET h == IF e.home = "absent" THEN "writable" ELSE e.home
  IN [e EXCEPT !.home = h,
               !.history = IF @ = "absent" /\ h = "writable" THEN "writable" ELSE @]

SaveState ==
  /\ Part("save", "reports",
          /\ Saved(env).home = "writable"
          /\ Saved(env).history \in {"writable", "unlistable"}
          /\ {"rename", "link", "state"} \subseteq env.allows)
  /\ env' = Saved(env)

\* writeReportFile, the directory and then the file in it.
Writable(e, dir) ==
  \E f \in Mkdir(e, dir) :
    IF dir = "path" THEN Holds(f, dir)
    ELSE f.path = "file" \/ (f.path = "absent" /\ Holds(f, dir))

multiple(e) == \E f, g \in e.formats : f # g

\* LoadHistory can list the directory, or there is none.
HistoryOpens(e) == e.history \notin {"blocked", "unlistable"}

\* The contents of the reports, those with evidence from the history.
Rendered(e) ==
  /\ "reports" \in e.allows
  /\ e.formats \subseteq {"json"} \/ HistoryOpens(e)

WriteReports ==
  LET dir == ReportDir(env, multiple(env))
      none == env.output = "none" \/ env.formats = {}
  IN /\ Part("reports", "done", none \/ (Writable(env, dir) /\ Rendered(env)))
     /\ env' = IF none THEN env
               ELSE IF dir = "parent" /\ Writable(env, dir)
                    THEN [After(env, dir) EXCEPT !.path = "file"]
                    ELSE After(env, dir)

DoctorNext ==
  \/ CheckConfig \/ SelectRuntime \/ PingRuntime \/ CheckStateDir
  \/ CheckReportDir \/ addToolChecks \/ finalize
  \/ SetUp \/ CreateTargets \/ SaveState \/ WriteReports

-----------------------------------------------------------------------------
(* Properties                                                              *)

\* What doctor does not see of the run that follows: a --runtime with blanks,
\* which only doctor trims, and the run's other flags; what a runtime that answers
\* does not create; what it takes to store the state in a directory that accepts
\* a new file, and the directory of the history; a report file that exists and
\* cannot be written, or has no room for its contents; a history that cannot be
\* listed for the evidence; and, with several formats, an output that names a
\* file, in whose place the run wants a directory.
NotForeseen(part) ==
  \/ part = "setup" /\ (env.padded \/ ~env.flags)
  \/ part = "target" /\ Responds(env)
  \/ /\ part = "save"
     /\ \/ env.history \in {"readonly", "blocked"}
        \/ ~({"rename", "link", "state"} \subseteq env.allows)
  \/ /\ part = "reports"
     /\ \/ env.path = "lockedFile"
        \/ multiple(env) /\ env.output = "extension" /\ env.path = "file"
        \/ ~Rendered(env)

\* runDoctor and runCmd: when doctor ends with exit code 0, no part of a run in
\* the same environment fails that doctor could have seen, although the two make
\* the paths, the runtime and the directories in code of their own; doctor's own
\* directories do not change where the reports go; and its exit code says the
\* same as the status of its report.
DoctorForeseesTheRun ==
  doctorPc = "done" =>
    /\ exit.code = 0 <=> exit.status # "fail"
    /\ exit.code = 0 => \A part \in failures : NotForeseen(part)
=============================================================================
