------------------------------ MODULE StateStore ------------------------------
(***************************************************************************)
(* The local state of internal/state: ~/.restore-drill/last-run.json and   *)
(* the directory history/, as any number of restore-drill processes use    *)
(* them at the same time.  Each process saves one run: it takes the time,  *)
(* replaces last-run.json and adds a history entry (saveState of           *)
(* internal/cli/reporting.go).  A process can be killed between any two    *)
(* system calls, a system call can fail, and the host can lose power.      *)
(*                                                                         *)
(* A process is identified with the run it saves.                          *)
(***************************************************************************)
EXTENDS Naturals, FiniteSets

CONSTANTS
  Process,      \* the processes that save a run
  NoFile,       \* what last-run.json is before the first save
  MaxAttempts,  \* names AppendHistory tries before it gives up (1000)
  MaxTime,      \* bound on the clock
  MaxLosses     \* bound on the power losses

ASSUME StoreAssumption ==
  /\ NoFile \notin Process
  /\ MaxAttempts \in Nat \ {0}
  /\ MaxTime \in Nat
  /\ MaxLosses \in Nat

Time == 0..MaxTime
Attempt == 0..(MaxAttempts - 1)

\* A history entry's name: the run's timestamp and the suffix that was free.
Name == Time \X Attempt

(***************************************************************************)
(* What a file holds: "torn" while it is incomplete, "cached" when it is   *)
(* complete but not yet flushed, "flushed" after fsync.  A power loss      *)
(* tears what is only cached.                                              *)
(***************************************************************************)
Content == {"torn", "cached", "flushed"}
File == [run : Process \cup {NoFile}, content : Content]

Steps == {"start", "save", "save written", "saved", "append",
          "append written", "appended", "done", "dead"}

VARIABLES
  clock,    \* wall-clock time
  pc,       \* where each process's saveState is
  stamp,    \* the timestamp of each run
  tmp,      \* the temporary file each process has open: its content or "none"
  attempt,  \* the suffix AppendHistory tries next
  outcome,  \* what AppendHistory returned: "pending", "ok" or "error"
  last,     \* last-run.json, a File
  lastDisk, \* the values last-run.json may have after a power loss
  history,  \* the directory history/: a set of [name, run, content]
  onDisk,   \* the history entries a power loss cannot take away
  losses    \* power losses so far

vars == <<clock, pc, stamp, tmp, attempt, outcome, last, lastDisk, history,
          onDisk, losses>>
process == <<clock, stamp, losses>>
lastFile == <<last, lastDisk>>
historyDir == <<history, onDisk>>

Entry == [name : Name, run : Process, content : Content]

Taken(n) == \E e \in history : e.name = n

Init ==
  /\ clock = 0
  /\ pc = [p \in Process |-> "start"]
  /\ stamp = [p \in Process |-> 0]
  /\ tmp = [p \in Process |-> "none"]
  /\ attempt = [p \in Process |-> 0]
  /\ outcome = [p \in Process |-> "pending"]
  /\ last = [run |-> NoFile, content |-> "flushed"]
  /\ lastDisk = {last}
  /\ history = {}
  /\ onDisk = {}
  /\ losses = 0

-----------------------------------------------------------------------------
(* saveState: take the time, Save, then AppendHistory whatever Save did    *)

Goto(p, step) == pc' = [pc EXCEPT ![p] = step]
SetTmp(p, content) == tmp' = [tmp EXCEPT ![p] = content]

Tick ==
  /\ clock < MaxTime
  /\ clock' = clock + 1
  /\ UNCHANGED <<pc, stamp, tmp, attempt, outcome, lastFile, historyDir, losses>>

\* The results are complete: stateRunFromResults takes time.Now().
Stamp(p) ==
  /\ pc[p] = "start"
  /\ stamp' = [stamp EXCEPT ![p] = clock]
  /\ Goto(p, "save")
  /\ UNCHANGED <<clock, tmp, attempt, outcome, lastFile, historyDir, losses>>

\* Mutant: the data is closed without being flushed.
WrittenUnflushed == "cached"

Written == "flushed"

\* os.CreateTemp in the directory of the target file; nothing reads it there.
CreateTemp(p) ==
  /\ pc[p] \in {"save", "append"}
  /\ tmp[p] = "none"
  /\ SetTmp(p, "torn")
  /\ UNCHANGED <<process, pc, attempt, outcome, lastFile, historyDir>>

\* writeAndSync: all the data, then fsync, then close.
WriteAndSync(p) ==
  /\ pc[p] \in {"save", "append"}
  /\ tmp[p] = "torn"
  /\ SetTmp(p, Written)
  /\ Goto(p, IF pc[p] = "save" THEN "save written" ELSE "append written")
  /\ UNCHANGED <<process, attempt, outcome, lastFile, historyDir>>

\* os.Rename over last-run.json, which also takes the temporary name away.
Rename(p) ==
  /\ pc[p] = "save written"
  /\ last' = [run |-> p, content |-> tmp[p]]
  /\ lastDisk' = lastDisk \cup {last'}
  /\ SetTmp(p, "none")
  /\ Goto(p, "saved")
  /\ UNCHANGED <<process, attempt, outcome, historyDir>>

\* syncDirBestEffort after the rename, which may fail and never says so.
SyncLastDir(p) ==
  /\ pc[p] = "saved"
  /\ lastDisk' \in {lastDisk, {last}}
  /\ Goto(p, "append")
  /\ UNCHANGED <<process, tmp, attempt, outcome, last, historyDir>>

\* Any call of Save fails: the temporary file is removed, saveState warns and
\* appends to the history all the same.
SaveFails(p) ==
  /\ pc[p] \in {"save", "save written"}
  /\ SetTmp(p, "none")
  /\ Goto(p, "append")
  /\ UNCHANGED <<process, attempt, outcome, lastFile, historyDir>>

\* Mutant: the entry is renamed into place, replacing what has the name.
LinkReplaces(p, n) ==
  history' = {e \in history : e.name # n} \cup {[name |-> n, run |-> p, content |-> tmp[p]]}

\* os.Link fails when the name exists, so it adds an entry and replaces none.
LinkNew(p, n) ==
  /\ ~Taken(n)
  /\ history' = history \cup {[name |-> n, run |-> p, content |-> tmp[p]]}

\* writeFileAtomicNoReplace: the entry appears complete; then its temporary
\* name is removed.
Link(p) ==
  /\ pc[p] = "append written"
  /\ LinkNew(p, <<stamp[p], attempt[p]>>)
  /\ SetTmp(p, "none")
  /\ Goto(p, "appended")
  /\ UNCHANGED <<process, attempt, outcome, lastFile, onDisk>>

MoreNames(p) == attempt[p] + 1 < MaxAttempts

NextName(p) == attempt' = [attempt EXCEPT ![p] = @ + 1]

\* fs.ErrExist: another run has the same timestamp and suffix.  The next
\* suffix is tried with a new temporary file, until there is none left.
LinkExists(p) ==
  /\ pc[p] = "append written"
  /\ Taken(<<stamp[p], attempt[p]>>)
  /\ SetTmp(p, "none")
  /\ \/ /\ MoreNames(p)
        /\ NextName(p)
        /\ Goto(p, "append")
        /\ UNCHANGED outcome
     \/ /\ ~MoreNames(p)
        /\ outcome' = [outcome EXCEPT ![p] = "error"]
        /\ Goto(p, "done")
        /\ UNCHANGED attempt
  /\ UNCHANGED <<process, lastFile, historyDir>>

\* Any other error of AppendHistory: nothing was linked.
AppendFails(p) ==
  /\ pc[p] \in {"append", "append written"}
  /\ outcome' = [outcome EXCEPT ![p] = "error"]
  /\ SetTmp(p, "none")
  /\ Goto(p, "done")
  /\ UNCHANGED <<process, attempt, lastFile, historyDir>>

\* Mutant: a directory that cannot be flushed makes AppendHistory fail.
SyncReported == {"ok", "error"}

SyncBestEffort == {"ok"}

\* syncDirBestEffort of history/.
SyncHistoryDir(p) ==
  /\ pc[p] = "appended"
  /\ onDisk' \in {onDisk, history}
  /\ \E o \in SyncBestEffort : outcome' = [outcome EXCEPT ![p] = o]
  /\ Goto(p, "done")
  /\ UNCHANGED <<process, tmp, attempt, lastFile, history>>

-----------------------------------------------------------------------------
(* The environment                                                         *)

Running(p) == pc[p] \notin {"start", "done", "dead"}

\* SIGTERM, SIGINT or an out-of-memory kill: no deferred function runs, so a
\* temporary file stays where it is.
Kill(p) ==
  /\ Running(p)
  /\ Goto(p, "dead")
  /\ UNCHANGED <<process, tmp, attempt, outcome, lastFile, historyDir>>

AfterLoss(file) == IF file.content = "cached" THEN [file EXCEPT !.content = "torn"]
                                              ELSE file

\* Everything that runs dies.  Of the directory changes that were not flushed
\* any part may be on the disk; runs that have not started come after reboot.
PowerLoss ==
  /\ losses < MaxLosses
  /\ losses' = losses + 1
  /\ pc' = [p \in Process |-> IF Running(p) THEN "dead" ELSE pc[p]]
  /\ \E file \in lastDisk : last' = AfterLoss(file)
  /\ lastDisk' = {last'}
  /\ \E kept \in SUBSET (history \ onDisk) :
       history' = {AfterLoss(e) : e \in onDisk \cup kept}
  /\ onDisk' = history'
  /\ UNCHANGED <<clock, stamp, tmp, attempt, outcome>>

Done == (\A p \in Process : pc[p] \in {"done", "dead"}) /\ UNCHANGED vars

SaveState(p) ==
  \/ Stamp(p) \/ CreateTemp(p) \/ WriteAndSync(p) \/ Rename(p) \/ SyncLastDir(p)
  \/ SaveFails(p) \/ Link(p) \/ LinkExists(p) \/ AppendFails(p) \/ SyncHistoryDir(p)

Next == (\E p \in Process : SaveState(p) \/ Kill(p)) \/ PowerLoss \/ Tick \/ Done

Spec == Init /\ [][Next]_vars

-----------------------------------------------------------------------------
(* Properties                                                              *)

\* Every variable has its type.
TypeOK ==
  /\ clock \in Time
  /\ pc \in [Process -> Steps]
  /\ stamp \in [Process -> Time]
  /\ tmp \in [Process -> Content \cup {"none"}]
  /\ attempt \in [Process -> Attempt]
  /\ outcome \in [Process -> {"pending", "ok", "error"}]
  /\ last \in File
  /\ lastDisk \subseteq File
  /\ history \subseteq Entry
  /\ onDisk \subseteq history
  /\ losses \in Nat

\* Whatever is killed, fails or loses power, a reader of last-run.json or of
\* the history finds complete JSON, never a part of it.
NeverTorn ==
  /\ last.content # "torn"
  /\ \A e \in history : e.content # "torn"

\* A run is in the history once if AppendHistory said so and no power was lost
\* since, and not at all if it returned an error; never twice.
RecordedOnce ==
  \A p \in Process :
    /\ \A e, f \in history : e.run = p /\ f.run = p => e = f
    /\ outcome[p] = "error" => \A e \in history : e.run # p
    /\ outcome[p] = "ok" /\ losses = 0 => \E e \in history : e.run = p

\* The history is append-only: no step of any process changes or removes an
\* entry of another; only a power loss may, and never one that was flushed.
HistoryOnlyGrows ==
  [][ /\ losses' = losses => history \subseteq history'
      /\ onDisk \subseteq history' ]_vars

\* last-run.json holds "the results of the most recent drill execution": a
\* save never replaces a run by one with an earlier timestamp.
LastRunNeverGoesBack ==
  [][ last'.run # last.run /\ last.run # NoFile /\ losses' = losses =>
        stamp[last.run] <= stamp[last'.run] ]_vars
=============================================================================
