-------------------------------- MODULE Staging --------------------------------
(***************************************************************************)
(* How backup.Stage brings one backup from the host, or from an S3 bucket, *)
(* into the restore target.  Three parties run at the same time: the       *)
(* caller, in stageSource; a goroutine that writes the source as a tar     *)
(* archive into an io.Pipe; and CopyTo of the runtime, which reads that    *)
(* pipe and feeds "tar xf -" in the target.                                *)
(*                                                                         *)
(* The archive is a number of entries and a trailer.  A pipe has no        *)
(* buffer: a write returns when it has been read.                          *)
(***************************************************************************)
EXTENDS Naturals

CONSTANTS
  Entries,   \* files and directories of the source
  Runtimes,  \* the runtimes whose CopyTo is looked at
  Faults     \* the failures the environment may show, see FaultKinds

(***************************************************************************)
(* "local"       no temporary directory, stat or S3 download fails         *)
(* "exec"        a command in the target fails                             *)
(* "source"      a file of the source cannot be read to its end            *)
(* "target"      tar in the target fails, for example on a full disk       *)
(* "connection"  the stream to the target breaks                           *)
(* "stall"       the target stops reading without ending the stream        *)
(***************************************************************************)
FaultKinds == {"local", "exec", "source", "target", "connection", "stall"}

ASSUME StagingAssumption ==
  /\ Entries \in Nat
  /\ Runtimes \subseteq {"docker", "kubernetes"}
  /\ Faults \subseteq FaultKinds

Stages == {"resolve", "download", "stat", "mkdir", "copying", "copied",
           "copy failed", "reader closed", "diagnose", "returning", "returned"}

VARIABLES
  stage,      \* where Stage and stageSource are
  setup,      \* the runtime, and whether the backup comes from a bucket
  tempDir,    \* the download's directory: "none", "held" or "removed"
  writer,     \* writeTar: "none", "entries", "trailer", "bad trailer",
              \* "closing" once it has sent its error, "done"
  tarErr,     \* what it sent on tarErrCh: "pending", "nil", "source", "closed pipe"
  written,    \* entries it has written
  pipe,       \* "open", "eof", "failed" by the writer, "unread" by the reader
  pump,       \* CopyTo's reader: "off", "reading", holds "entry" or "trailer",
              \* or stopped by "eof", "read error", "write error"
  tar,        \* in the target: "none", "running", "ok", "failed"
  extracted,  \* entries that are in the target
  expired,    \* the drill's deadline has passed
  outcome     \* "pending", "mounted", "staged", or which error is returned

caller == <<stage, setup, tempDir, outcome>>
archive == <<writer, tarErr, written>>
target == <<tar, extracted>>
vars == <<caller, archive, pipe, pump, target, expired>>

s3 == setup.s3
Kubernetes == setup.runtime = "kubernetes"

Init ==
  /\ stage = "resolve"
  /\ setup \in [runtime : Runtimes, s3 : BOOLEAN]
  /\ tempDir = "none"
  /\ writer = "none"
  /\ tarErr = "pending"
  /\ written = 0
  /\ pipe = "open"
  /\ pump = "off"
  /\ tar = "none"
  /\ extracted = 0
  /\ expired = FALSE
  /\ outcome = "pending"

-----------------------------------------------------------------------------
(* Stage, stageS3 and stageSource before the copy                          *)

Go(step) == stage' = step /\ UNCHANGED outcome

\* The function that is running returns result; a download's directory is
\* removed by stageS3 on the way out.
Return(result) == stage' = "returning" /\ outcome' = result

streams == <<archive, pipe, pump, target, expired>>

\* A local source is looked up; for a bucket stageS3 makes a directory first.
Resolve ==
  /\ stage = "resolve"
  /\ \/ /\ s3
        /\ tempDir' = "held"
        /\ Go("download")
     \/ /\ ~s3
        /\ Go("stat")
        /\ UNCHANGED tempDir
     \/ /\ "local" \in Faults
        /\ Return("setup error")
        /\ UNCHANGED tempDir
  /\ UNCHANGED <<setup, streams>>

Download ==
  /\ stage = "download"
  /\ \/ Go("stat")
     \/ ("local" \in Faults \/ expired) /\ Return("setup error")
  /\ UNCHANGED <<setup, tempDir, streams>>

\* A local path that does not exist is taken for one inside the target.
Stat ==
  /\ stage = "stat"
  /\ \/ Go("mkdir")
     \/ ~s3 /\ Return("mounted")
     \/ "local" \in Faults /\ Return("setup error")
  /\ UNCHANGED <<setup, tempDir, streams>>

\* ensureStageDir, and with its success the start of writeTar and CopyTo.
MakeStageDir ==
  /\ stage = "mkdir"
  /\ \/ /\ Go("copying")
        /\ writer' = "entries"
        /\ pump' = "reading"
        /\ tar' = "running"
     \/ /\ "exec" \in Faults \/ expired
        /\ Return("setup error")
        /\ UNCHANGED <<writer, pump, tar>>
  /\ UNCHANGED <<setup, tempDir, tarErr, written, pipe, extracted, expired>>

-----------------------------------------------------------------------------
(* writeTar, in its goroutine                                              *)

Send(err) == tarErr' = err /\ writer' = "closing"

MoreEntries == written < Entries

\* The next entry has been read by CopyTo.
WriteEntry ==
  /\ writer = "entries" /\ MoreEntries
  /\ pipe = "open" /\ pump = "reading"
  /\ written' = written + 1
  /\ pump' = "entry"
  /\ UNCHANGED <<caller, writer, tarErr, pipe, target, expired>>

EndArchive ==
  /\ writer = "entries" /\ written = Entries
  /\ writer' = "trailer"
  /\ UNCHANGED <<caller, tarErr, written, pipe, pump, target, expired>>

\* A file cannot be read: within an entry the archive ends there; between two
\* entries tar.Writer.Close still writes a trailer, so that it looks complete.
SourceFails ==
  /\ "source" \in Faults
  /\ writer = "entries" /\ MoreEntries
  /\ \/ Send("source")
     \/ writer' = "bad trailer" /\ UNCHANGED tarErr
  /\ UNCHANGED <<caller, written, pipe, pump, target, expired>>

WriteTrailer ==
  /\ writer \in {"trailer", "bad trailer"}
  /\ pipe = "open" /\ pump = "reading"
  /\ pump' = "trailer"
  /\ Send(IF writer = "trailer" THEN "nil" ELSE "source")
  /\ UNCHANGED <<caller, written, pipe, target, expired>>

\* The reader has closed the pipe: the write fails with io.ErrClosedPipe,
\* unless writeTar had an error of its own already.
WriteRefused ==
  /\ writer \in {"entries", "trailer", "bad trailer"}
  /\ pipe = "unread"
  /\ Send(IF writer = "bad trailer" THEN "source" ELSE "closed pipe")
  /\ UNCHANGED <<caller, written, pipe, pump, target, expired>>

\* After the error has been sent, the pipe is closed with it.
ClosePipe ==
  /\ writer = "closing"
  /\ writer' = "done"
  /\ pipe' = IF pipe # "open" THEN pipe ELSE IF tarErr = "nil" THEN "eof" ELSE "failed"
  /\ UNCHANGED <<caller, tarErr, written, pump, target, expired>>

-----------------------------------------------------------------------------
(* CopyTo and tar in the target                                            *)

\* tar takes what the stream brings; it succeeds when it has the trailer.
Deliver ==
  /\ tar = "running"
  /\ pump \in {"entry", "trailer"}
  /\ \/ /\ pump = "entry"
        /\ extracted' = extracted + 1
        /\ UNCHANGED tar
     \/ /\ pump = "trailer"
        /\ tar' = "ok"
        /\ UNCHANGED extracted
  /\ pump' = "reading"
  /\ UNCHANGED <<caller, archive, pipe, expired>>

TarFails ==
  /\ "target" \in Faults
  /\ tar = "running"
  /\ tar' = "failed"
  /\ UNCHANGED <<caller, archive, pipe, pump, extracted, expired>>

\* tar has ended: what is sent after it is lost or refused.
DeliverTooLate ==
  /\ tar \in {"ok", "failed"}
  /\ pump \in {"entry", "trailer"}
  /\ pump' \in {"reading", "write error"}
  /\ UNCHANGED <<caller, archive, pipe, target, expired>>

\* The end of the pipe, or its error: either runtime closes tar's input, and
\* tar fails if it has had no trailer.
PumpEnds ==
  /\ pump = "reading"
  /\ pipe \in {"eof", "failed"}
  /\ pump' = IF pipe = "eof" THEN "eof" ELSE "read error"
  /\ tar' = IF tar = "running" THEN "failed" ELSE tar
  /\ UNCHANGED <<caller, archive, pipe, extracted, expired>>

\* The connection is gone, and tar with it.
ConnectionBreaks ==
  /\ "connection" \in Faults
  /\ stage = "copying"
  /\ pump' = "write error"
  /\ tar' = "failed"
  /\ UNCHANGED <<caller, archive, pipe, extracted, expired>>

\* Docker's CopyTo returns when its copy loop and the output of tar have
\* ended; the error of the loop comes before tar's exit code.
DockerErr == pump # "eof" \/ tar = "failed"

DockerCopyReturns ==
  /\ ~Kubernetes
  /\ stage = "copying"
  /\ pump \in {"eof", "read error", "write error"}
  /\ tar # "running"
  /\ Go(IF DockerErr THEN "copy failed" ELSE "copied")
  /\ UNCHANGED <<setup, tempDir, streams>>

\* StreamWithContext returns with tar, whatever happened to its input, or when
\* the context ends, which takes the connection down.
KubernetesCopyReturns ==
  /\ Kubernetes
  /\ stage = "copying"
  /\ \/ /\ tar # "running"
        /\ Go(IF tar = "ok" THEN "copied" ELSE "copy failed")
        /\ UNCHANGED target
     \/ /\ expired
        /\ Go("copy failed")
        /\ tar' = IF tar = "running" THEN "failed" ELSE tar
        /\ UNCHANGED extracted
  /\ UNCHANGED <<setup, tempDir, archive, pipe, pump, expired>>

-----------------------------------------------------------------------------
(* stageSource after the copy                                              *)

Sent == tarErr # "pending"

\* Mutant: CopyTo's nil is enough, the archive's error is not looked at.
CollectUnchecked == stage = "copied" /\ Sent /\ Return("staged") /\ UNCHANGED <<setup, tempDir, streams>>

\* CopyTo returned nil: the archive's own error decides.
Collect ==
  /\ stage = "copied"
  /\ Sent
  /\ Return(IF tarErr = "nil" THEN "staged" ELSE "archive error")
  /\ UNCHANGED <<setup, tempDir, streams>>

\* Mutant: the pipe stays open when the copy has failed.
LeaveReader ==
  /\ stage = "copy failed"
  /\ Go("reader closed")
  /\ UNCHANGED <<setup, tempDir, streams>>

\* CopyTo failed: closing the reader lets a writer that is blocked go on.
CloseReader ==
  /\ stage = "copy failed"
  /\ pipe' = IF pipe = "open" THEN "unread" ELSE pipe
  /\ Go("reader closed")
  /\ UNCHANGED <<setup, tempDir, archive, pump, target, expired>>

\* Mutants: the writer is not waited for; every archive error is the cause.
CollectAtOnce ==
  /\ stage = "reader closed"
  /\ IF tarErr = "source" THEN Return("archive error") ELSE Go("diagnose")
  /\ UNCHANGED <<setup, tempDir, streams>>
CollectAnyFailure ==
  /\ stage = "reader closed"
  /\ Sent
  /\ IF tarErr # "nil" THEN Return("archive error") ELSE Go("diagnose")
  /\ UNCHANGED <<setup, tempDir, streams>>

\* An error of the archive that is not the closed pipe is the cause.
CollectFailure ==
  /\ stage = "reader closed"
  /\ Sent
  /\ IF tarErr = "source" THEN Return("archive error") ELSE Go("diagnose")
  /\ UNCHANGED <<setup, tempDir, streams>>

\* One more command in the target, for the error's text; it may fail too.
Diagnose ==
  /\ stage = "diagnose"
  /\ Return("copy error")
  /\ UNCHANGED <<setup, tempDir, streams>>

\* The deferred os.RemoveAll of stageS3, and back in the provider.
Finish ==
  /\ stage = "returning"
  /\ stage' = "returned"
  /\ tempDir' = IF tempDir = "held" THEN "removed" ELSE tempDir
  /\ UNCHANGED <<setup, outcome, streams>>

-----------------------------------------------------------------------------
Expire ==
  /\ ~expired
  /\ stage \notin {"returning", "returned"}
  /\ expired' = TRUE
  /\ UNCHANGED <<caller, archive, pipe, pump, target>>

Caller == Resolve \/ Download \/ Stat \/ MakeStageDir \/ Collect \/ CloseReader
          \/ CollectFailure \/ Diagnose \/ Finish
Writer == WriteEntry \/ EndArchive \/ WriteTrailer \/ WriteRefused \/ ClosePipe
Copy == DeliverTooLate \/ PumpEnds \/ DockerCopyReturns \/ KubernetesCopyReturns

Next == Caller \/ Writer \/ Copy \/ Deliver \/ SourceFails \/ TarFails
        \/ ConnectionBreaks \/ Expire

Spec == Init /\ [][Next]_vars

\* Docker's CopyTo does not come back from a target that has stalled, so that
\* only the Kubernetes one is asked to.
MayStall == Kubernetes /\ "stall" \in Faults

\* Goroutines run, files can be read, and the deadline passes; a target that
\* has stalled takes nothing more.
Fairness ==
  /\ WF_vars(Caller) /\ WF_vars(Writer) /\ WF_vars(Copy) /\ WF_vars(Expire)
  /\ WF_vars(~MayStall /\ Deliver)

FairSpec == Spec /\ Fairness

-----------------------------------------------------------------------------
(* Properties                                                              *)

\* Every variable has its type.
TypeOK ==
  /\ stage \in Stages
  /\ setup \in [runtime : Runtimes, s3 : BOOLEAN]
  /\ tempDir \in {"none", "held", "removed"}
  /\ writer \in {"none", "entries", "trailer", "bad trailer", "closing", "done"}
  /\ tarErr \in {"pending", "nil", "source", "closed pipe"}
  /\ written \in 0..Entries
  /\ pipe \in {"open", "eof", "failed", "unread"}
  /\ pump \in {"off", "reading", "entry", "trailer", "eof", "read error", "write error"}
  /\ tar \in {"none", "running", "ok", "failed"}
  /\ extracted \in 0..Entries
  /\ expired \in BOOLEAN
  /\ outcome \in {"pending", "mounted", "staged", "setup error", "archive error", "copy error"}

\* What Stage hands to the provider is the whole backup: a source that could
\* be read only in part is never staged, although tar in the target may have
\* been given a valid archive and succeeded.
StagedIsWhole == outcome = "staged" => extracted = Entries /\ tar = "ok"

\* When Stage returns, and the downloaded file is removed, nothing reads the
\* source any more: no goroutine is left behind, whatever failed.
WriterEndsFirst ==
  outcome # "pending" => writer \in {"none", "closing", "done"}

\* The error names the side that failed: the source exactly if it could not be
\* read, the copy otherwise; a pipe closed because the copy failed is no
\* failure of the source.
CauseIsNamed ==
  /\ outcome = "archive error" => tarErr = "source"
  /\ outcome = "copy error" => tarErr # "source"

\* Stage comes back from a target that fails, disconnects or, where CopyTo
\* watches its context, stops reading.
StageReturns == <>(stage = "returned")
=============================================================================
