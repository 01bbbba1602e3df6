---------------------------- MODULE ProviderRestore ----------------------------
(***************************************************************************)
(* Preflight and Restore of the four providers: what they run in the       *)
(* restore target, in which order, and what becomes of the target's files  *)
(* and of its database server meanwhile.  The server is a process of its   *)
(* own: the images of PostgreSQL and MySQL initialise a database, serve it *)
(* from a temporary server, stop that and start the final one, while the   *)
(* provider polls, connects and loads a dump.                              *)
(*                                                                         *)
(* A backup is a number of parts (the statements of a dump).  Staging it   *)
(* into the target is one step here; module Staging is about that step.    *)
(***************************************************************************)
EXTENDS Naturals, Sequences

CONSTANTS
  Tools,          \* the backup tools to look at
  Origins,        \* where backups come from, see AllOrigins
  MayLack,        \* commands that a restore image may lack
  ServingImages,  \* tools whose image may run a server whatever its command is
  Faults,         \* the failures the environment may show, see FaultKinds
  Parts           \* statements of a dump

Dumps == {"pg_dump", "pg_restore", "mysqldump"}
Postgres == {"pg_dump", "pg_restore", "pgbackrest", "wal-g"}
MySQL == {"mysqldump", "xtrabackup", "mariabackup"}
Redis == {"rdb", "aof"}
AllTools == Postgres \cup MySQL \cup Redis \cup {"snapshot"}

(***************************************************************************)
(* "local"       a file or directory beside restore-drill                  *)
(* "mounted"     a path that exists in the target already                  *)
(* "object"      one object of a bucket                                    *)
(* "prefix"      the latest object below a prefix of a bucket              *)
(* "repository"  read by pgBackRest or WAL-G themselves                    *)
(***************************************************************************)
AllOrigins == {"local", "mounted", "object", "prefix", "repository"}

(***************************************************************************)
(* "command"  a command in the target fails                                *)
(* "server"   a server does not come up                                    *)
(* "cut"      a compressed backup ends early                               *)
(* "standby"  PostgreSQL answers while it still replays its log            *)
(***************************************************************************)
FaultKinds == {"command", "server", "cut", "standby"}

ASSUME RestoreAssumption ==
  /\ Tools \subseteq AllTools
  /\ Origins \subseteq AllOrigins
  /\ ServingImages \subseteq AllTools \ Dumps
  /\ Faults \subseteq FaultKinds
  /\ Parts \in Nat \ {0}

-----------------------------------------------------------------------------
(* What the code knows of a tool                                           *)

\* The form of a backup decides how it is unpacked.
Forms(tool) ==
  CASE tool \in {"pg_dump", "mysqldump"} -> {"plain", "gz"}
    [] tool \in {"pgbackrest", "wal-g"} -> {"directory", "tar"}
    [] tool \in {"xtrabackup", "mariabackup"} ->
         {"directory", "tar", "xbstream", "xbstream.gz"}
    [] OTHER -> {"plain"}

Unpackers(form) ==
  CASE form = "gz" -> {"gzip"}
    [] form = "tar" -> {"tar"}
    [] form = "xbstream" -> {"xbstream"}
    [] form = "xbstream.gz" -> {"gzip", "xbstream"}
    [] OTHER -> {}

\* Commands of alternative names (mysql or mariadb) count as one.
Ping(tool) ==
  CASE tool \in Postgres -> "pg_isready"
    [] tool \in MySQL -> "mysqladmin"
    [] tool \in Redis -> "redis-cli"
    [] OTHER -> "etcdctl"

Launcher(tool) ==
  CASE tool \in Postgres -> "pg_ctl"
    [] tool \in MySQL -> "mysqld_safe"
    [] tool \in Redis -> "redis-server"
    [] OTHER -> "etcd"

\* What Preflight asks for.  The form is known from the configured path only,
\* which a prefix does not tell.
CheckedForm(b) == IF b.origin = "prefix" THEN {} ELSE Unpackers(b.form)

PostgresChecked(b) ==
  {"psql", "pg_isready"}
    \cup (IF b.tool = "pg_dump" THEN {} ELSE {b.tool})
    \cup (IF b.tool \in Dumps THEN {} ELSE {"pg_ctl"})
    \cup CheckedForm(b)

\* Mutant of MySQLChecked: the archive tools are forgotten.
MySQLCheckedButForm(b) ==
  {"mysql", "mysqladmin"}
    \cup (IF b.tool = "mysqldump" THEN {} ELSE {b.tool, "mysqld_safe"})

MySQLChecked(b) ==
  {"mysql", "mysqladmin"}
    \cup (IF b.tool = "mysqldump" THEN {} ELSE {b.tool, "mysqld_safe"})
    \cup CheckedForm(b)

RedisChecked(b) == {"redis-server", "redis-cli"}

EtcdChecked(b) == {"etcd", "etcdctl"}

Checked(b) ==
  CASE b.tool \in Postgres -> PostgresChecked(b)
    [] b.tool \in MySQL -> MySQLChecked(b)
    [] b.tool \in Redis -> RedisChecked(b)
    [] OTHER -> EtcdChecked(b)

\* The steps of Restore, in their order.
DumpPlan == <<"ready", "stage", "apply">>

MysqldumpPlan == <<"ready", "stage", "apply">>

PgBackRestPlan == <<"stop", "stage", "expand", "clear", "fetch", "start", "ready">>

WalGPlan == <<"stop", "stage", "expand", "clear", "fetch", "configure", "start", "ready">>

XtrabackupPlan ==
  <<"stage", "expand", "prepare", "stop", "clear", "fetch", "start", "ready">>

MariabackupPlan ==
  <<"stage", "expand", "prepare", "stop", "clear", "fetch", "start", "ready">>

RdbPlan == <<"stage", "place", "start", "ready">>

AofPlan == <<"stage", "place", "start", "ready">>

SnapshotPlan == <<"stage", "fetch", "start", "ready">>

Plan(tool) ==
  CASE tool \in {"pg_dump", "pg_restore"} -> DumpPlan
    [] tool = "mysqldump" -> MysqldumpPlan
    [] tool = "pgbackrest" -> PgBackRestPlan
    [] tool = "wal-g" -> WalGPlan
    [] tool = "xtrabackup" -> XtrabackupPlan
    [] tool = "mariabackup" -> MariabackupPlan
    [] tool = "rdb" -> RdbPlan
    [] tool = "aof" -> AofPlan
    [] tool = "snapshot" -> SnapshotPlan

\* Mutant of SleepingTools: Redis is forgotten.
SleepingButRedis == (AllTools \ Dumps) \ Redis

\* The engine gives these targets a command of its own, so that the image does
\* not start a server.
SleepingTools == AllTools \ Dumps

\* A backup and its image: the backup may end early (cut), PostgreSQL may
\* answer while it still replays (standby), and the image may run a server
\* although it was given another command (serving).
Backups ==
  {b \in [tool : Tools, form : UNION {Forms(t) : t \in Tools}, origin : Origins,
          cut : BOOLEAN, standby : BOOLEAN, serving : BOOLEAN] :
     /\ b.form \in Forms(b.tool)
     /\ b.form = "directory" => b.origin \notin {"object", "prefix"}
     /\ b.origin = "repository" => b.tool \in {"pgbackrest", "wal-g"} /\ b.form = "directory"
     /\ b.cut => "cut" \in Faults /\ b.form \in {"gz", "tar", "xbstream.gz"}
     /\ b.standby => "standby" \in Faults /\ b.tool \in {"pgbackrest", "wal-g"}
     /\ b.serving => b.tool \in ServingImages}

ASSUME ToolsArePlanned ==
  \A t \in Tools : \E b \in Backups : b.tool = t

-----------------------------------------------------------------------------
Servers == {"down", "booting", "temporary", "leaving", "switching", "stopping",
            "loading", "replaying", "serving", "dead"}

Outcomes == {"pending", "restored", "preflight", "no command", "command",
             "not ready", "refused", "shut down", "cut off", "not started",
             "not stopped"}

VARIABLES
  backup,   \* what is restored, and the image it is restored in
  lacks,    \* the command the image lacks, or "nothing"
  todo,     \* the steps still to do, the current one first
  phase,    \* within a step: "enter", "wait", "connect", "load"
  passed,   \* deadlines that have passed: "wait" (waitReady and its like),
            \* "retry" (execWhenStable), "drill" (the context)
  server,   \* the server in the target
  files,    \* the data directory: "none", "initial", "part", "backup", "mixed"
  served,   \* what the files were when the server opened them
  sent,     \* statements this connection has sent
  applied,  \* statements that were ever applied
  outcome   \* what Preflight or Restore returned

target == <<server, files, served, sent, applied>>
vars == <<backup, lacks, todo, phase, passed, target, outcome>>

tool == backup.tool

Init ==
  /\ backup \in Backups
  /\ lacks \in {"nothing"} \cup MayLack
  /\ todo = <<"preflight">> \o Plan(tool)
  /\ phase = "enter"
  /\ passed = {}
  /\ files = IF backup.serving THEN "initial" ELSE "none"
  /\ server = IF backup.serving THEN "serving"
              ELSE IF tool \in SleepingTools THEN "down" ELSE "booting"
  /\ served = files
  /\ sent = 0
  /\ applied = 0
  /\ outcome = "pending"

-----------------------------------------------------------------------------
(* The ways a step ends                                                    *)

Doing(step) == outcome = "pending" /\ Head(todo) = step

\* The step succeeded; with the last one Restore returns its result.
Advance ==
  /\ todo' = Tail(todo)
  /\ phase' = "enter"
  /\ passed' = passed \cap {"drill"}
  /\ outcome' = IF Len(todo) = 1 THEN "restored" ELSE "pending"

Fail(result) ==
  /\ outcome' = result
  /\ UNCHANGED <<todo, phase, passed>>

GoTo(next) == phase' = next /\ UNCHANGED <<todo, passed, outcome>>

\* Exec returns an error: the command failed, or the context has ended.
ExecFails == "command" \in Faults \/ "drill" \in passed

(***************************************************************************)
(* What waitReady of each provider takes for an answer: pg_isready's       *)
(* "accepting connections", which a standby says as well; any answer to    *)
(* mysqladmin ping; PONG, and not the error of a Redis that is loading; a  *)
(* healthy endpoint of etcd.                                               *)
(***************************************************************************)
PostgresAnswers == server \in {"temporary", "replaying", "serving"}

MySQLAnswers == server \in {"temporary", "serving"}

\* Mutant of RedisAnswers: the output of redis-cli PING is not compared.
RedisAnswersAnything == server \in {"loading", "serving"}

RedisAnswers == server = "serving"

EtcdAnswers == server = "serving"

Answers ==
  CASE tool \in Postgres -> PostgresAnswers
    [] tool \in MySQL -> MySQLAnswers
    [] tool \in Redis -> RedisAnswers
    [] OTHER -> EtcdAnswers

\* What a step runs in the target, for the steps that run something optional.
Needs(step) ==
  CASE step = "stage" ->
         IF backup.origin \in {"local", "object", "prefix"} THEN {"tar"} ELSE {}
    [] step \in {"expand", "apply"} ->
         Unpackers(backup.form)
           \cup (CASE step = "expand" -> {}
                   [] tool = "pg_dump" -> {"psql"}
                   [] tool = "mysqldump" -> {"mysql"}
                   [] OTHER -> {"pg_restore"})
    [] step \in {"ready", "stop"} -> {Ping(tool)}
    [] step = "start" -> {Launcher(tool)}
    [] step \in {"prepare", "fetch"} -> {IF tool = "snapshot" THEN "etcdctl" ELSE tool}
    [] OTHER -> {}

\* A step that meets a command the image lacks ends the restore.
CommandMissing ==
  /\ outcome = "pending"
  /\ lacks \in Needs(Head(todo))
  /\ Fail("no command")
  /\ UNCHANGED <<backup, lacks, target>>

\* The step that is begun, with all it runs at hand.
Runs(step) ==
  /\ Doing(step)
  /\ lacks \notin Needs(step)
  /\ UNCHANGED <<backup, lacks>>

-----------------------------------------------------------------------------
(* Steps of every provider                                                 *)

Preflight ==
  /\ Runs("preflight")
  /\ \/ lacks \notin Checked(backup) /\ Advance
     \/ (lacks \in Checked(backup) \/ ExecFails) /\ Fail("preflight")
  /\ UNCHANGED target

\* waitReady: a poll that is answered as it should be.
PollReady ==
  /\ Runs("ready")
  /\ Answers
  /\ Advance
  /\ UNCHANGED target

\* Mutant of GiveUpWaiting: only the drill's deadline ends the loop.
WaitForEver ==
  /\ Runs("ready")
  /\ "drill" \in passed
  /\ Fail("not ready")
  /\ UNCHANGED target

\* waitReady: the loop ends by its own deadline or by the context's.
GiveUpWaiting ==
  /\ Runs("ready")
  /\ passed \cap {"wait", "drill"} # {}
  /\ Fail("not ready")
  /\ UNCHANGED target

Stage ==
  /\ Runs("stage")
  /\ \/ Advance
     \/ ExecFails /\ Fail("command")
  /\ UNCHANGED target

\* MaterializeArchive.  tar notices a compressed archive that ends early; in
\* "gzip -dc | xbstream" the shell reports the status of xbstream alone.
Expand ==
  /\ Runs("expand")
  /\ \/ ~(backup.cut /\ backup.form = "tar") /\ Advance
     \/ (backup.cut \/ ExecFails) /\ Fail("command")
  /\ UNCHANGED target

-----------------------------------------------------------------------------
(* Loading a dump                                                          *)

\* execWhenStable waits for the server before every attempt of PostgreSQL;
\* MySQL connects at once.
BeginApply ==
  /\ Runs("apply")
  /\ phase = "enter"
  /\ \/ (tool \in MySQL \/ Answers) /\ GoTo("connect")
     \/ /\ tool \in Postgres
        /\ passed \cap {"wait", "drill"} # {}
        /\ Fail("not ready")
  /\ UNCHANGED target

\* Mutant of IsConnectionStartupError.
AnyFailureIsStartup(failure) == tool \in Postgres

\* isConnectionStartupError: the client could not connect to a server that is
\* not there or still starting.  The messages of a client that is told of a
\* shutdown, or loses its connection, are not among those it looks for.
IsConnectionStartupError(failure) == tool \in Postgres /\ failure = "refused"

\* The attempt failed: execWhenStable waits and tries again, or returns.
AttemptFails(failure) ==
  IF IsConnectionStartupError(failure) /\ passed \cap {"retry", "drill"} = {}
  THEN /\ phase' = "enter"
       /\ passed' = passed \ {"wait"}
       /\ UNCHANGED <<todo, outcome>>
  ELSE Fail(failure)

Connect ==
  /\ Runs("apply")
  /\ phase = "connect"
  /\ \/ Answers /\ GoTo("load") /\ sent' = 0
     \/ /\ ~Answers
        /\ AttemptFails(IF server = "leaving" THEN "shut down" ELSE "refused")
        /\ UNCHANGED sent
     \/ ExecFails /\ AttemptFails("command") /\ UNCHANGED sent
  /\ UNCHANGED <<server, files, served, applied>>

Loading(guard) == Runs("apply") /\ phase = "load" /\ guard /\ UNCHANGED <<server, files, served>>

LoadStatement ==
  /\ Loading(Answers /\ sent < Parts)
  /\ sent' = sent + 1
  /\ applied' = applied + 1
  /\ UNCHANGED <<todo, phase, passed, outcome>>

\* ON_ERROR_STOP and its like: the client exits with an error.
StatementFails ==
  /\ Loading(sent < Parts /\ ExecFails)
  /\ AttemptFails("command")
  /\ UNCHANGED <<sent, applied>>

\* The server goes away under the connection.
ConnectionLost ==
  /\ Loading(~Answers)
  /\ AttemptFails("cut off")
  /\ UNCHANGED <<sent, applied>>

\* The input ends and the client succeeds.  In "gzip -dc | client" the shell
\* reports the status of the client alone.
LoadEnds ==
  /\ Loading(sent = Parts \/ backup.cut)
  /\ Advance
  /\ UNCHANGED <<sent, applied>>

-----------------------------------------------------------------------------
(* Replacing the data directory                                            *)

\* What a command that writes to the directory leaves there: files that a
\* running server uses, too, are of no use until they are cleared.
Write(content) ==
  files' = IF server \in {"down", "dead"} /\ (files = "mixed" => content = "none")
           THEN content
           ELSE "mixed"

Prepare ==
  /\ Runs("prepare")
  /\ \/ Advance
     \/ (backup.cut \/ ExecFails) /\ Fail("command")
  /\ UNCHANGED target

\* stopPostgresIfRunning returns once the server has ended.
StopPostgres ==
  /\ Runs("stop")
  /\ tool \in Postgres
  /\ \/ (~Answers \/ ExecFails) /\ Advance /\ UNCHANGED server
     \/ Answers /\ server' = "down" /\ Advance
     \/ Answers /\ ExecFails /\ Fail("not stopped") /\ UNCHANGED server
  /\ UNCHANGED <<files, served, sent, applied>>

\* stopMySQL: a first ping, and the shutdown command, whose error alone does
\* not end the restore.
StopMySQL ==
  /\ Runs("stop")
  /\ tool \in MySQL
  /\ phase = "enter"
  /\ \/ (~Answers \/ ExecFails) /\ Advance /\ UNCHANGED server
     \/ Answers /\ server' = "stopping" /\ GoTo("wait")
     \/ Answers /\ ExecFails /\ GoTo("wait") /\ UNCHANGED server
  /\ UNCHANGED <<files, served, sent, applied>>

\* waitStopped: it goes by the pings, not by the process.
WaitStopped ==
  /\ Runs("stop")
  /\ phase = "wait"
  /\ \/ (~Answers \/ ExecFails) /\ Advance
     \/ passed \cap {"wait", "drill"} # {} /\ Fail("not stopped")
  /\ UNCHANGED target

\* MySQL goes on when the directory could not be cleared.
Clear ==
  /\ Runs("clear")
  /\ \/ Write("none") /\ Advance
     \/ /\ ExecFails
        /\ UNCHANGED files
        /\ IF tool \in MySQL THEN Advance ELSE Fail("command")
  /\ UNCHANGED <<server, served, sent, applied>>

\* pgbackrest restore, wal-g backup-fetch, copy-back with its chown, and
\* etcdctl snapshot restore.  Only pgbackrest --delta takes a directory with
\* files in it.
Fetch ==
  /\ Runs("fetch")
  /\ \/ /\ files \in {"none", "mixed"} \/ tool = "pgbackrest"
        /\ Write(IF backup.cut THEN "part" ELSE "backup")
        /\ Advance
     \/ /\ files # "none" \/ ExecFails
        /\ files' = IF files = "none" THEN "part" ELSE files
        /\ Fail("command")
  /\ UNCHANGED <<server, served, sent, applied>>

\* The recovery settings for WAL-G.
Configure ==
  /\ Runs("configure")
  /\ \/ Advance
     \/ ExecFails /\ Fail("command")
  /\ UNCHANGED target

\* Redis: mkdir and cp.
Place ==
  /\ Runs("place")
  /\ \/ Write("backup") /\ Advance
     \/ ExecFails /\ Fail("command") /\ UNCHANGED files
  /\ UNCHANGED <<server, served, sent, applied>>

\* A second server does not start.  pg_ctl says so and otherwise waits for
\* the server; the other launchers return at once.
Start ==
  /\ Runs("start")
  /\ phase = "enter"
  /\ \/ /\ server = "down"
        /\ server' = "loading"
        /\ served' = files
        /\ IF tool \in Postgres THEN GoTo("wait") ELSE Advance
     \/ /\ server # "down"
        /\ IF tool \in Postgres THEN Fail("not started") ELSE Advance
        /\ UNCHANGED <<server, served>>
     \/ ExecFails /\ Fail("not started") /\ UNCHANGED <<server, served>>
  /\ UNCHANGED <<files, sent, applied>>

PgCtlReturns ==
  /\ Runs("start")
  /\ phase = "wait"
  /\ \/ Answers /\ Advance
     \/ (server = "dead" \/ "wait" \in passed \/ ExecFails) /\ Fail("not started")
  /\ UNCHANGED target

-----------------------------------------------------------------------------
(* The environment: time and the server                                    *)

DeadlinePasses(deadline) ==
  /\ outcome = "pending"
  /\ deadline \notin passed
  /\ passed' = passed \cup {deadline}
  /\ UNCHANGED <<backup, lacks, todo, phase, target, outcome>>

ServerGoes(from, to) == server = from /\ server' = to

\* The entrypoint of an image, a server that was told to stop, and one that
\* was started on the restored files.
ServerMoves ==
  /\ \/ /\ ServerGoes("booting", IF tool \in Redis THEN "serving" ELSE "temporary")
        /\ files' = "initial"
        /\ served' = "initial"
     \/ /\ \/ ServerGoes("temporary", "leaving")
           \/ ServerGoes("leaving", "switching")
           \/ ServerGoes("switching", "serving")
           \/ ServerGoes("stopping", "down")
           \/ ServerGoes("loading", "serving")
           \/ backup.standby /\ ServerGoes("loading", "replaying")
           \/ ServerGoes("replaying", "serving")
           \/ /\ "server" \in Faults
              /\ \E s \in {"booting", "switching", "loading"} : ServerGoes(s, "dead")
        /\ UNCHANGED <<files, served>>
  /\ UNCHANGED <<backup, lacks, todo, phase, passed, sent, applied, outcome>>

Restore ==
  \/ Preflight \/ CommandMissing
  \/ PollReady \/ GiveUpWaiting \/ Stage \/ Expand
  \/ BeginApply \/ Connect \/ LoadStatement \/ StatementFails \/ ConnectionLost \/ LoadEnds
  \/ Prepare \/ StopPostgres \/ StopMySQL \/ WaitStopped
  \/ Clear \/ Fetch \/ Configure \/ Place \/ Start \/ PgCtlReturns

Next ==
  \/ Restore
  \/ \E d \in {"wait", "retry", "drill"} : DeadlinePasses(d)
  \/ ServerMoves

\* The code goes on and its own deadlines pass.  Nothing is assumed of the
\* server, nor of the deadline of the drill.
Fairness ==
  /\ WF_vars(Restore)
  /\ WF_vars(DeadlinePasses("wait"))
  /\ WF_vars(DeadlinePasses("retry"))

Spec == Init /\ [][Next]_vars
FairSpec == Spec /\ Fairness

-----------------------------------------------------------------------------
TypeOK ==
  /\ backup \in Backups
  /\ lacks \in {"nothing"} \cup MayLack
  /\ phase \in {"enter", "wait", "connect", "load"}
  /\ passed \subseteq {"wait", "retry", "drill"}
  /\ server \in Servers
  /\ {files, served} \subseteq {"none", "initial", "part", "backup", "mixed"}
  /\ sent \in 0..Parts
  /\ applied \in Nat
  /\ outcome \in Outcomes
  /\ outcome = "pending" => todo # <<>>

\* Every statement of a dump, or files that were replaced while no server had
\* them open and that the server has finished loading.
BackupInPlace ==
  IF tool \in Dumps
  THEN applied = Parts
  ELSE server = "serving" /\ served = "backup" /\ files = "backup"

\* Restores that are accepted although they may be incomplete: the status of
\* gzip is lost in a pipeline, a hot standby answers before the recovery target
\* is reached, and an image that serves on its own is only pinged, unless it is
\* one of PostgreSQL, whose pg_ctl refuses to start a second server.
Unprotected ==
  \/ backup.cut /\ backup.form \in {"gz", "xbstream.gz"}
  \/ backup.standby
  \/ backup.serving /\ tool \notin Postgres

\* A restore that returns without an error has put the whole backup in place,
\* except in the three cases that the code does not look at.
RestoredIsTheBackup ==
  outcome = "restored" /\ ~Unprotected => BackupInPlace

\* The documentation's promise, "proving that backups can be restored", has no
\* exceptions.
RestoredIsAlwaysTheBackup == outcome = "restored" => BackupInPlace

\* The retries of execWhenStable never apply a statement of the dump twice,
\* whichever of the image's two servers an attempt reached.
DumpAppliedOnce == applied <= Parts

\* A restore that has passed Preflight does not fail for a command that the
\* image lacks; except for the tar of the staging, which Preflight does not know
\* of, and for the form of an object that is chosen later.
MissingCommandStopsPreflight ==
  outcome = "no command" =>
    (lacks = "tar" /\ backup.form # "tar") \/ backup.origin = "prefix"

\* Restore returns by its own deadlines, also when the server never answers or
\* never stops and the drill has no deadline.
RestoreReturns == <>(outcome # "pending")

================================================================================
