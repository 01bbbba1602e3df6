----------------------------- MODULE StagingProofs -----------------------------
(***************************************************************************)
(* What Stage returns, for sources of any length, both runtimes and every  *)
(* set of faults.  IInv ties the three parties together: the archive has   *)
(* told its error when the caller acts on it (CallerInv), a closed pipe is *)
(* the caller's doing (WriterInv), and tar has what was written less the   *)
(* entry that CopyTo holds (TargetInv).                                    *)
(*                                                                         *)
(* Which object is staged, in buckets and pages of every size: LatestIInv  *)
(* says how the best object so far compares with the stable backups up to  *)
(* the cursor, and that nothing but a deletion can take the chosen object  *)
(* away or make it older.                                                  *)
(***************************************************************************)
EXTENDS Staging, LatestObject, FiniteSetTheorems, WellFoundedInduction, TLAPS

\* TypeOK in parts, by the party that changes them.
CallerTypes ==
  /\ stage \in Stages
  /\ setup \in [runtime : Runtimes, s3 : BOOLEAN]
  /\ tempDir \in {"none", "held", "removed"}
  /\ outcome \in {"pending", "mounted", "staged", "setup error", "archive error", "copy error"}

ArchiveTypes ==
  /\ writer \in {"none", "entries", "trailer", "bad trailer", "closing", "done"}
  /\ tarErr \in {"pending", "nil", "source", "closed pipe"}
  /\ written \in 0..Entries
  /\ pipe \in {"open", "eof", "failed", "unread"}

TargetTypes ==
  /\ pump \in {"off", "reading", "entry", "trailer", "eof", "read error", "write error"}
  /\ tar \in {"none", "running", "ok", "failed"}
  /\ extracted \in 0..Entries
  /\ expired \in BOOLEAN

LEMMA TypeParts == TypeOK <=> CallerTypes /\ ArchiveTypes /\ TargetTypes
BY DEF TypeOK, CallerTypes, ArchiveTypes, TargetTypes

Preparing == {"resolve", "download", "stat", "mkdir"}
Ending == {"returning", "returned"}
Late == {"reader closed", "diagnose"} \cup Ending

CallerInv ==
  /\ outcome # "pending" <=> stage \in Ending
  /\ stage \in Preparing => writer = "none"
  /\ stage \in {"copying", "copied", "copy failed", "reader closed", "diagnose"} =>
       writer # "none"
  /\ stage = "copied" => tar = "ok"
  /\ stage = "diagnose" => Sent /\ tarErr # "source"
  /\ outcome \in {"mounted", "setup error"} => writer = "none"
  /\ outcome \in {"staged", "archive error", "copy error"} => Sent
  /\ outcome = "staged" => tarErr = "nil" /\ tar = "ok"

WriterInv ==
  /\ writer = "none" => tar = "none" /\ pump = "off" /\ written = 0 /\ extracted = 0
  /\ Sent <=> writer \in {"closing", "done"}
  /\ writer = "trailer" \/ tarErr = "nil" => written = Entries
  /\ tarErr = "closed pipe" => pipe = "unread"
  /\ pipe = "unread" => stage \in Late

TargetInv ==
  /\ pump = "trailer" \/ tar = "ok" => Sent
  /\ tar = "none" => writer = "none"
  /\ tar = "running" => /\ pump \in {"reading", "entry", "trailer"}
                        /\ extracted = IF pump = "entry" THEN written - 1 ELSE written
  /\ tar = "ok" => extracted = written

IInv ==
  /\ CallerTypes /\ ArchiveTypes /\ TargetTypes
  /\ CallerInv /\ WriterInv /\ TargetInv /\ CauseIsNamed

LEMMA EntriesOK == Entries \in Nat
BY StagingAssumption

LEMMA InitEstablishes == Init => IInv
<1> SUFFICES ASSUME Init PROVE IInv
  OBVIOUS
<1>1. CallerTypes
  BY DEF Init, CallerTypes, Stages
<1>2. ArchiveTypes /\ TargetTypes
  <2>1. expired \in BOOLEAN
    BY DEF Init
  <2>2. 0 \in 0..Entries
    BY EntriesOK
  <2> QED BY <2>1, <2>2 DEF Init, ArchiveTypes, TargetTypes
<1>3. CallerInv /\ CauseIsNamed
  BY DEF Init, CallerInv, CauseIsNamed, Preparing, Ending
<1>4. WriterInv /\ TargetInv
  BY DEF Init, WriterInv, TargetInv, Preparing, Ending, Sent
<1> QED BY <1>1, <1>2, <1>3, <1>4 DEF IInv

\* A step of the caller that leaves the streams alone.
LEMMA CallerStep ==
  ASSUME IInv, UNCHANGED streams, CallerTypes', CallerInv', CauseIsNamed',
         stage \in Late => stage' \in Late
  PROVE  IInv'
<1>1. ArchiveTypes' /\ TargetTypes'
  BY DEF IInv, streams, archive, target, ArchiveTypes, TargetTypes
<1>2. WriterInv' /\ TargetInv'
  BY DEF IInv, streams, archive, target, WriterInv, TargetInv, Sent
<1> QED BY <1>1, <1>2 DEF IInv

\* The caller.
LEMMA CallerPreserves ==
  ASSUME IInv, Resolve \/ Download \/ Stat \/ MakeStageDir \/ Collect
               \/ CloseReader \/ CollectFailure \/ Diagnose \/ Finish
  PROVE  IInv'
<1>0. /\ CallerTypes /\ ArchiveTypes /\ TargetTypes
      /\ CallerInv /\ WriterInv /\ TargetInv /\ CauseIsNamed
  BY DEF IInv
<1>1. CASE Resolve
  <2>1. CallerTypes'
    BY <1>0, <1>1 DEF Resolve, Go, Return, CallerTypes, Stages
  <2>2. CallerInv' /\ CauseIsNamed'
    BY <1>0, <1>1 DEF Resolve, Go, Return, streams, archive, CallerInv, CauseIsNamed,
         Preparing, Ending
  <2>3. UNCHANGED streams /\ (stage \in Late => stage' \in Late)
    BY <1>1 DEF Resolve, Late, Ending
  <2> QED BY <2>1, <2>2, <2>3, CallerStep
<1>2. CASE Download
  <2>1. CallerTypes'
    BY <1>0, <1>2 DEF Download, Go, Return, CallerTypes, Stages
  <2>2. CallerInv' /\ CauseIsNamed'
    BY <1>0, <1>2 DEF Download, Go, Return, streams, archive, CallerInv, CauseIsNamed,
         Preparing, Ending
  <2>3. UNCHANGED streams /\ (stage \in Late => stage' \in Late)
    BY <1>2 DEF Download, Late, Ending
  <2> QED BY <2>1, <2>2, <2>3, CallerStep
<1>3. CASE Stat
  <2>1. CallerTypes'
    BY <1>0, <1>3 DEF Stat, Go, Return, CallerTypes, Stages
  <2>2. CallerInv' /\ CauseIsNamed'
    BY <1>0, <1>3 DEF Stat, Go, Return, streams, archive, CallerInv, CauseIsNamed,
         Preparing, Ending
  <2>3. UNCHANGED streams /\ (stage \in Late => stage' \in Late)
    BY <1>3 DEF Stat, Late, Ending
  <2> QED BY <2>1, <2>2, <2>3, CallerStep
<1>4. CASE MakeStageDir
  <2>1. CallerTypes'
    BY <1>0, <1>4 DEF MakeStageDir, Go, Return, CallerTypes, Stages
  <2>2. ArchiveTypes'
    BY <1>0, <1>4 DEF MakeStageDir, ArchiveTypes
  <2>3. TargetTypes'
    BY <1>0, <1>4 DEF MakeStageDir, TargetTypes
  <2>4. CallerInv' /\ CauseIsNamed'
    BY <1>0, <1>4 DEF MakeStageDir, Go, Return, CallerInv, CauseIsNamed, Preparing,
         Ending
  <2>5. WriterInv'
    BY <1>0, <1>4 DEF MakeStageDir, WriterInv, CallerInv, Preparing, Late, Ending,
         Sent
  <2>6. TargetInv'
    BY <1>0, <1>4 DEF MakeStageDir, TargetInv, WriterInv, CallerInv, Preparing
  <2> QED BY <2>1, <2>2, <2>3, <2>4, <2>5, <2>6 DEF IInv
<1>5. CASE Collect
  <2>1. CallerTypes'
    BY <1>0, <1>5 DEF Collect, Return, CallerTypes, Stages
  <2>2. CallerInv' /\ CauseIsNamed'
    <3>1. /\ stage = "copied" /\ stage' = "returning" /\ tar = "ok" /\ Sent
          /\ writer # "none"
      BY <1>0, <1>5 DEF Collect, Return, CallerInv
    <3>2. tarErr \in {"nil", "source"}
      BY <1>0, <3>1 DEF ArchiveTypes, WriterInv, Sent, Late, Ending
    <3>3. /\ outcome' = IF tarErr = "nil" THEN "staged" ELSE "archive error"
          /\ UNCHANGED <<writer, tarErr, tar>>
      BY <1>5 DEF Collect, Return, streams, archive, target
    <3> QED BY <3>1, <3>2, <3>3 DEF CallerInv, CauseIsNamed, Preparing, Ending, Sent
  <2>3. UNCHANGED streams /\ (stage \in Late => stage' \in Late)
    BY <1>5 DEF Collect, Late, Ending
  <2> QED BY <2>1, <2>2, <2>3, CallerStep
<1>6. CASE CloseReader
  <2>1. CallerTypes'
    BY <1>0, <1>6 DEF CloseReader, Go, CallerTypes, Stages
  <2>2. ArchiveTypes'
    BY <1>0, <1>6 DEF CloseReader, archive, ArchiveTypes
  <2>3. TargetTypes'
    BY <1>0, <1>6 DEF CloseReader, target, TargetTypes
  <2>4. CallerInv' /\ CauseIsNamed'
    BY <1>0, <1>6 DEF CloseReader, Go, archive, CallerInv, CauseIsNamed, Preparing,
         Ending
  <2>5. WriterInv'
    BY <1>0, <1>6 DEF CloseReader, Go, archive, target, WriterInv, Late, Sent
  <2>6. TargetInv'
    BY <1>0, <1>6 DEF CloseReader, archive, target, TargetInv, Sent
  <2> QED BY <2>1, <2>2, <2>3, <2>4, <2>5, <2>6 DEF IInv
<1>7. CASE CollectFailure
  <2>1. CallerTypes'
    BY <1>0, <1>7 DEF CollectFailure, Go, Return, CallerTypes, Stages
  <2>2. CallerInv' /\ CauseIsNamed'
    BY <1>0, <1>7 DEF CollectFailure, Go, Return, archive, streams, Sent, CallerInv,
         CauseIsNamed, Preparing, Ending
  <2>3. UNCHANGED streams /\ (stage \in Late => stage' \in Late)
    BY <1>7 DEF CollectFailure, Go, Return, Late, Ending
  <2> QED BY <2>1, <2>2, <2>3, CallerStep
<1>8. CASE Diagnose
  <2>1. CallerTypes'
    BY <1>0, <1>8 DEF Diagnose, Return, CallerTypes, Stages
  <2>2. CallerInv' /\ CauseIsNamed'
    BY <1>0, <1>8 DEF Diagnose, Return, streams, archive, CallerInv, CauseIsNamed,
         Preparing, Ending, Sent
  <2>3. UNCHANGED streams /\ (stage \in Late => stage' \in Late)
    BY <1>8 DEF Diagnose, Return, Late, Ending
  <2> QED BY <2>1, <2>2, <2>3, CallerStep
<1>9. CASE Finish
  <2>1. CallerTypes'
    BY <1>0, <1>9 DEF Finish, CallerTypes, Stages
  <2>2. CallerInv' /\ CauseIsNamed'
    BY <1>0, <1>9 DEF Finish, streams, archive, target, CallerInv, CauseIsNamed,
         Preparing, Ending, Sent
  <2>3. UNCHANGED streams /\ (stage \in Late => stage' \in Late)
    BY <1>9 DEF Finish, Late, Ending
  <2> QED BY <2>1, <2>2, <2>3, CallerStep
<1> QED BY <1>1, <1>2, <1>3, <1>4, <1>5, <1>6, <1>7, <1>8, <1>9

\* The goroutine that writes the archive.
LEMMA WriterPreserves ==
  ASSUME IInv, WriteEntry \/ EndArchive \/ SourceFails \/ WriteTrailer \/ WriteRefused \/ ClosePipe
  PROVE  IInv'
<1>0. /\ CallerTypes /\ ArchiveTypes /\ TargetTypes
      /\ CallerInv /\ WriterInv /\ TargetInv /\ CauseIsNamed
  BY DEF IInv
<1>1. CASE WriteEntry
  <2>0. /\ written' = written + 1 /\ written \in Nat /\ written' \in 0..Entries
        /\ pump' = "entry" /\ pump = "reading" /\ ~Sent
    <3>1. /\ written' = written + 1 /\ written < Entries
          /\ pump' = "entry" /\ pump = "reading" /\ writer = "entries"
      BY <1>1 DEF WriteEntry, MoreEntries
    <3>2. written \in 0..Entries
      BY <1>0 DEF ArchiveTypes
    <3>3. ~Sent
      BY <1>0, <3>1 DEF WriterInv
    <3> QED BY <3>1, <3>2, <3>3, EntriesOK
  <2>1. CallerTypes'
    BY <1>0, <1>1 DEF WriteEntry, caller, CallerTypes
  <2>2. ArchiveTypes'
    BY <1>0, <1>1, <2>0 DEF WriteEntry, ArchiveTypes
  <2>3. TargetTypes'
    BY <1>0, <1>1 DEF WriteEntry, target, TargetTypes
  <2>4. CallerInv' /\ CauseIsNamed'
    BY <1>0, <1>1 DEF WriteEntry, caller, target, CallerInv, WriterInv, CauseIsNamed
  <2>5. WriterInv'
    BY <1>0, <1>1 DEF WriteEntry, WriterInv, Sent
  <2>6. TargetInv'
    <3>1. UNCHANGED <<tar, extracted, writer, tarErr>>
      BY <1>1 DEF WriteEntry, target
    <3>2. tar = "running" => extracted = written
      BY <1>0, <2>0 DEF TargetInv
    <3>3. tar # "ok"
      BY <1>0, <2>0 DEF TargetInv
    <3> QED BY <1>0, <2>0, <3>1, <3>2, <3>3 DEF TargetInv, Sent
  <2> QED BY <2>1, <2>2, <2>3, <2>4, <2>5, <2>6 DEF IInv
<1>2. CASE EndArchive
  <2>1. CallerTypes'
    BY <1>0, <1>2 DEF EndArchive, caller, CallerTypes
  <2>2. ArchiveTypes'
    BY <1>0, <1>2 DEF EndArchive, ArchiveTypes
  <2>3. TargetTypes'
    BY <1>0, <1>2 DEF EndArchive, target, TargetTypes
  <2>4. CallerInv' /\ CauseIsNamed'
    BY <1>0, <1>2 DEF EndArchive, caller, target, CallerInv, WriterInv, CauseIsNamed
  <2>5. WriterInv'
    BY <1>0, <1>2 DEF EndArchive, caller, WriterInv, Sent
  <2>6. TargetInv'
    BY <1>0, <1>2 DEF EndArchive, target, TargetInv, WriterInv
  <2> QED BY <2>1, <2>2, <2>3, <2>4, <2>5, <2>6 DEF IInv
<1>3. CASE SourceFails
  <2>1. CallerTypes'
    BY <1>0, <1>3 DEF SourceFails, caller, CallerTypes
  <2>2. ArchiveTypes'
    BY <1>0, <1>3 DEF SourceFails, Send, ArchiveTypes
  <2>3. TargetTypes'
    BY <1>0, <1>3 DEF SourceFails, target, TargetTypes
  <2>4. CallerInv' /\ CauseIsNamed'
    BY <1>0, <1>3 DEF SourceFails, Send, caller, target, CallerInv, WriterInv,
         CauseIsNamed
  <2>5. WriterInv'
    BY <1>0, <1>3 DEF SourceFails, Send, caller, WriterInv, Sent
  <2>6. TargetInv'
    BY <1>0, <1>3 DEF SourceFails, target, TargetInv, WriterInv
  <2> QED BY <2>1, <2>2, <2>3, <2>4, <2>5, <2>6 DEF IInv
<1>4. CASE WriteTrailer
  <2>1. CallerTypes'
    BY <1>0, <1>4 DEF WriteTrailer, caller, CallerTypes
  <2>2. ArchiveTypes'
    BY <1>0, <1>4 DEF WriteTrailer, Send, ArchiveTypes
  <2>3. TargetTypes'
    BY <1>0, <1>4 DEF WriteTrailer, target, TargetTypes
  <2>4. CallerInv' /\ CauseIsNamed'
    BY <1>0, <1>4 DEF WriteTrailer, Send, caller, target, CallerInv, WriterInv,
         CauseIsNamed
  <2>5. WriterInv'
    BY <1>0, <1>4 DEF WriteTrailer, Send, WriterInv, Sent
  <2>6. TargetInv'
    BY <1>0, <1>4 DEF WriteTrailer, Send, target, TargetInv, Sent
  <2> QED BY <2>1, <2>2, <2>3, <2>4, <2>5, <2>6 DEF IInv
<1>5. CASE WriteRefused
  <2>1. CallerTypes'
    BY <1>0, <1>5 DEF WriteRefused, caller, CallerTypes
  <2>2. ArchiveTypes'
    BY <1>0, <1>5 DEF WriteRefused, Send, ArchiveTypes
  <2>3. TargetTypes'
    BY <1>0, <1>5 DEF WriteRefused, target, TargetTypes
  <2>4. CallerInv' /\ CauseIsNamed'
    BY <1>0, <1>5 DEF WriteRefused, Send, caller, target, CallerInv, WriterInv,
         CauseIsNamed
  <2>5. WriterInv'
    BY <1>0, <1>5 DEF WriteRefused, Send, caller, WriterInv, Sent
  <2>6. TargetInv'
    BY <1>0, <1>5 DEF WriteRefused, target, TargetInv, WriterInv
  <2> QED BY <2>1, <2>2, <2>3, <2>4, <2>5, <2>6 DEF IInv
<1>6. CASE ClosePipe
  <2>1. CallerTypes'
    BY <1>0, <1>6 DEF ClosePipe, caller, CallerTypes
  <2>2. ArchiveTypes'
    BY <1>0, <1>6 DEF ClosePipe, ArchiveTypes
  <2>3. TargetTypes'
    BY <1>0, <1>6 DEF ClosePipe, target, TargetTypes
  <2>4. CallerInv' /\ CauseIsNamed'
    BY <1>0, <1>6 DEF ClosePipe, caller, target, CallerInv, CauseIsNamed, Sent
  <2>5. WriterInv'
    BY <1>0, <1>6 DEF ClosePipe, caller, WriterInv, Sent
  <2>6. TargetInv'
    BY <1>0, <1>6 DEF ClosePipe, target, TargetInv, Sent
  <2> QED BY <2>1, <2>2, <2>3, <2>4, <2>5, <2>6 DEF IInv
<1> QED BY <1>1, <1>2, <1>3, <1>4, <1>5, <1>6

\* CopyTo, and tar in the target.
LEMMA CopyPreserves ==
  ASSUME IInv, Deliver \/ TarFails \/ DeliverTooLate \/ PumpEnds \/ ConnectionBreaks
               \/ DockerCopyReturns \/ KubernetesCopyReturns
  PROVE  IInv'
<1>0. /\ CallerTypes /\ ArchiveTypes /\ TargetTypes
      /\ CallerInv /\ WriterInv /\ TargetInv /\ CauseIsNamed
  BY DEF IInv
<1>1. CASE Deliver
  <2>0. /\ written \in 0..Entries /\ extracted \in Nat
        /\ tar = "running" /\ pump' = "reading"
        /\ \/ /\ pump = "entry" /\ extracted = written - 1
              /\ extracted' = extracted + 1 /\ tar' = tar
           \/ /\ pump = "trailer" /\ extracted = written /\ Sent
              /\ extracted' = extracted /\ tar' = "ok"
    <3>1. /\ tar = "running" /\ pump' = "reading" /\ pump \in {"entry", "trailer"}
          /\ \/ pump = "entry" /\ extracted' = extracted + 1 /\ tar' = tar
             \/ pump = "trailer" /\ extracted' = extracted /\ tar' = "ok"
      BY <1>1 DEF Deliver
    <3>2. written \in 0..Entries /\ extracted \in 0..Entries
      BY <1>0 DEF ArchiveTypes, TargetTypes
    <3>3. /\ pump = "entry" => extracted = written - 1
          /\ pump = "trailer" => extracted = written /\ Sent
      BY <1>0, <3>1 DEF TargetInv
    <3>4. extracted \in Nat
      BY <3>2, EntriesOK
    <3> QED BY <3>1, <3>2, <3>3, <3>4
  <2>1. CallerTypes'
    BY <1>0, <1>1 DEF Deliver, caller, CallerTypes
  <2>2. ArchiveTypes'
    BY <1>0, <1>1 DEF Deliver, archive, ArchiveTypes
  <2>3. TargetTypes'
    <3>1. extracted' = written
      BY <2>0, EntriesOK
    <3> QED BY <1>0, <1>1, <2>0, <3>1 DEF Deliver, TargetTypes
  <2>4. CallerInv' /\ CauseIsNamed'
    BY <1>0, <1>1 DEF Deliver, caller, archive, CallerInv, CauseIsNamed, Sent
  <2>5. WriterInv'
    BY <1>0, <1>1 DEF Deliver, caller, archive, WriterInv, Sent
  <2>6. TargetInv'
    <3>1. extracted' = written /\ UNCHANGED <<writer, tarErr, written>>
      BY <1>1, <2>0 DEF Deliver, archive
    <3> QED BY <1>0, <2>0, <3>1 DEF TargetInv, Sent
  <2> QED BY <2>1, <2>2, <2>3, <2>4, <2>5, <2>6 DEF IInv
<1>2. CASE TarFails
  <2>1. CallerTypes'
    BY <1>0, <1>2 DEF TarFails, caller, CallerTypes
  <2>2. ArchiveTypes'
    BY <1>0, <1>2 DEF TarFails, archive, ArchiveTypes
  <2>3. TargetTypes'
    BY <1>0, <1>2 DEF TarFails, TargetTypes
  <2>4. CallerInv' /\ CauseIsNamed'
    BY <1>0, <1>2 DEF TarFails, caller, archive, CallerInv, CauseIsNamed, Sent
  <2>5. WriterInv'
    BY <1>0, <1>2 DEF TarFails, caller, archive, WriterInv, Sent
  <2>6. TargetInv'
    BY <1>0, <1>2 DEF TarFails, archive, TargetInv, Sent
  <2> QED BY <2>1, <2>2, <2>3, <2>4, <2>5, <2>6 DEF IInv
<1>3. CASE DeliverTooLate
  <2>1. CallerTypes'
    BY <1>0, <1>3 DEF DeliverTooLate, caller, CallerTypes
  <2>2. ArchiveTypes'
    BY <1>0, <1>3 DEF DeliverTooLate, archive, ArchiveTypes
  <2>3. TargetTypes'
    BY <1>0, <1>3 DEF DeliverTooLate, target, TargetTypes
  <2>4. CallerInv' /\ CauseIsNamed'
    BY <1>0, <1>3 DEF DeliverTooLate, caller, archive, target, CallerInv,
         CauseIsNamed, Sent
  <2>5. WriterInv'
    BY <1>0, <1>3 DEF DeliverTooLate, caller, archive, WriterInv, Sent
  <2>6. TargetInv'
    BY <1>0, <1>3 DEF DeliverTooLate, archive, target, TargetInv, Sent
  <2> QED BY <2>1, <2>2, <2>3, <2>4, <2>5, <2>6 DEF IInv
<1>4. CASE PumpEnds
  <2>1. CallerTypes'
    BY <1>0, <1>4 DEF PumpEnds, caller, CallerTypes
  <2>2. ArchiveTypes'
    BY <1>0, <1>4 DEF PumpEnds, archive, ArchiveTypes
  <2>3. TargetTypes'
    BY <1>0, <1>4 DEF PumpEnds, TargetTypes
  <2>4. CallerInv' /\ CauseIsNamed'
    BY <1>0, <1>4 DEF PumpEnds, caller, archive, CallerInv, CauseIsNamed, Sent
  <2>5. WriterInv'
    BY <1>0, <1>4 DEF PumpEnds, archive, WriterInv, Sent
  <2>6. TargetInv'
    BY <1>0, <1>4 DEF PumpEnds, archive, TargetInv, Sent
  <2> QED BY <2>1, <2>2, <2>3, <2>4, <2>5, <2>6 DEF IInv
<1>5. CASE ConnectionBreaks
  <2>1. CallerTypes'
    BY <1>0, <1>5 DEF ConnectionBreaks, caller, CallerTypes
  <2>2. ArchiveTypes'
    BY <1>0, <1>5 DEF ConnectionBreaks, archive, ArchiveTypes
  <2>3. TargetTypes'
    BY <1>0, <1>5 DEF ConnectionBreaks, TargetTypes
  <2>4. CallerInv' /\ CauseIsNamed'
    BY <1>0, <1>5 DEF ConnectionBreaks, caller, archive, CallerInv, CauseIsNamed,
         Ending
  <2>5. WriterInv'
    BY <1>0, <1>5 DEF ConnectionBreaks, caller, archive, WriterInv, CallerInv, Sent
  <2>6. TargetInv'
    BY <1>5 DEF ConnectionBreaks, TargetInv
  <2> QED BY <2>1, <2>2, <2>3, <2>4, <2>5, <2>6 DEF IInv
<1>6. CASE DockerCopyReturns
  <2>1. CallerTypes'
    BY <1>0, <1>6 DEF DockerCopyReturns, Go, CallerTypes, Stages
  <2>2. CallerInv' /\ CauseIsNamed'
    BY <1>0, <1>6 DEF DockerCopyReturns, Go, streams, DockerErr, archive, target,
         CallerInv, TargetInv, CauseIsNamed, Preparing, Ending, TargetTypes
  <2>3. UNCHANGED streams /\ (stage \in Late => stage' \in Late)
    BY <1>6 DEF DockerCopyReturns, Late, Ending
  <2> QED BY <2>1, <2>2, <2>3, CallerStep
<1>7. CASE KubernetesCopyReturns
  <2>1. CallerTypes'
    BY <1>0, <1>7 DEF KubernetesCopyReturns, Go, CallerTypes, Stages
  <2>2. ArchiveTypes'
    BY <1>0, <1>7 DEF KubernetesCopyReturns, archive, ArchiveTypes
  <2>3. TargetTypes'
    BY <1>0, <1>7 DEF KubernetesCopyReturns, target, TargetTypes
  <2>4. CallerInv' /\ CauseIsNamed'
    BY <1>0, <1>7 DEF KubernetesCopyReturns, Go, archive, target, CallerInv,
         CauseIsNamed, Preparing, Ending
  <2>5. WriterInv'
    BY <1>0, <1>7 DEF KubernetesCopyReturns, archive, target, WriterInv, Late, Ending,
         Sent
  <2>6. TargetInv'
    BY <1>0, <1>7 DEF KubernetesCopyReturns, archive, target, TargetInv, Sent
  <2> QED BY <2>1, <2>2, <2>3, <2>4, <2>5, <2>6 DEF IInv
<1> QED BY <1>1, <1>2, <1>3, <1>4, <1>5, <1>6, <1>7

LEMMA NextPreserves == IInv /\ [Next]_vars => IInv'
<1> SUFFICES ASSUME IInv, [Next]_vars PROVE IInv'
  OBVIOUS
<1>1. CASE Expire \/ UNCHANGED vars
  <2>1. UNCHANGED <<caller, archive, pipe, pump, target>> /\ (expired' = TRUE \/ expired' = expired)
    BY <1>1 DEF Expire, vars
  <2>2. CallerTypes' /\ ArchiveTypes'
    BY <2>1 DEF caller, archive, IInv, CallerTypes, ArchiveTypes
  <2>3. CallerInv' /\ WriterInv' /\ TargetInv' /\ CauseIsNamed'
    BY <2>1 DEF caller, archive, target, IInv, CallerInv, WriterInv, TargetInv,
         CauseIsNamed, Sent
  <2>4. expired' \in BOOLEAN
    BY <2>1 DEF IInv, TargetTypes
  <2>5. TargetTypes'
    BY <2>1, <2>4 DEF target, IInv, TargetTypes
  <2> QED BY <2>2, <2>3, <2>5 DEF IInv
<1> QED BY <1>1, CallerPreserves, WriterPreserves, CopyPreserves DEF Next, Caller, Writer, Copy

\* Every reachable state of the staging satisfies the inductive invariant.
THEOREM StagingInvariant == Spec => []IInv
BY InitEstablishes, NextPreserves, PTL DEF Spec

\* Every variable keeps its type.
THEOREM TypeCorrect == Spec => []TypeOK
<1>1. IInv => TypeOK
  BY TypeParts DEF IInv
<1> QED BY <1>1, StagingInvariant, PTL

\* Stage never hands a part of a backup to the provider: what it calls staged
\* was read, sent and unpacked to its last entry.
THEOREM StagedBackupsAreWhole == Spec => []StagedIsWhole
<1>1. IInv => StagedIsWhole
  BY DEF IInv, CallerInv, WriterInv, TargetInv, StagedIsWhole
<1> QED BY <1>1, StagingInvariant, PTL

\* No goroutine of stageSource reads the source any more when Stage returns and
\* stageS3 removes the downloaded file.
THEOREM WritersEndFirst == Spec => []WriterEndsFirst
<1>1. IInv => WriterEndsFirst
  BY DEF IInv, ArchiveTypes, CallerTypes, CallerInv, WriterInv, WriterEndsFirst
<1> QED BY <1>1, StagingInvariant, PTL

\* The error of Stage names the side that failed, whichever of the archive and
\* the copy noticed it first.
THEOREM CausesAreNamed == Spec => []CauseIsNamed
<1>1. IInv => CauseIsNamed
  BY DEF IInv
<1> QED BY <1>1, StagingInvariant, PTL

-----------------------------------------------------------------------------
(* The CHOOSEs of a page                                                   *)

LEMMA SmallestExists ==
  ASSUME NEW S, S \subseteq Nat, S # {}
  PROVE  \E k \in S : \A j \in S : k <= j
<1> DEFINE R == OpToRel(<, Nat)
<1>1. \A i, j \in Nat : <<i, j>> \in R <=> i < j
  BY DEF OpToRel
<1>2. IsWellFoundedOn(R, Nat)
  BY NatLessThanWellFounded
<1> HIDE DEF R
<1>3. PICK k \in S : \A j \in S : ~ (<<j, k>> \in R)
  BY <1>2, WFMin
<1>4. \A j \in S : k <= j
  <2> SUFFICES ASSUME NEW j \in S PROVE k <= j
    OBVIOUS
  <2>1. j \in Nat /\ k \in Nat
    OBVIOUS
  <2>2. ~ (j < k)
    BY <1>1, <1>3, <2>1
  <2> QED BY <2>1, <2>2
<1> QED BY <1>4

LEMMA GreatestExists ==
  ASSUME NEW S, NEW n \in Nat, S \subseteq 0..n, S # {}
  PROVE  \E k \in S : \A j \in S : j <= k
<1> DEFINE T == {n - k : k \in S}
<1>1. T \subseteq Nat /\ T # {}
  <2>1. \A k \in S : n - k \in Nat
    OBVIOUS
  <2> QED BY <2>1
<1>2. PICK t \in T : \A u \in T : t <= u
  BY <1>1, SmallestExists
<1>3. PICK k \in S : t = n - k
  OBVIOUS
<1>4. \A j \in S : j <= k
  <2> SUFFICES ASSUME NEW j \in S PROVE j <= k
    OBVIOUS
  <2>1. n - k <= n - j
    BY <1>2, <1>3
  <2>2. j \in Int /\ k \in Int
    OBVIOUS
  <2> QED BY <2>1, <2>2
<1> QED BY <1>4

-----------------------------------------------------------------------------
Clocked ==
  /\ \A k \in Keys : bucket[k] <= now
  /\ latest.time <= now

\* Objects only become newer, unless they are deleted.
Renewed ==
  \A k \in Keys : atStart[k] # Absent /\ k \notin deleted /\ step # "idle" =>
                    atStart[k] <= bucket[k]

ChosenStays ==
  latest # None =>
    /\ latest.key \in Keys \ Markers
    /\ latest.key \notin deleted => bucket[latest.key] # Absent
    /\ bucket[latest.key] # Absent => latest.time <= bucket[latest.key]

\* The stable backups that the listing has passed.
Behind(k) == (step = "listing" /\ k <= cursor) \/ step \in {"listed", "chosen"}

BestSoFar ==
  \A k \in Stable : Behind(k) => latest # None /\ atStart[k] <= latest.time

Stepwise ==
  /\ step = "idle" => cursor = 0 /\ latest = None /\ \A k \in Keys : atStart[k] = Absent
  /\ step = "chosen" => latest # None
  /\ step # "returned" => result = None

LatestIInv ==
  /\ LatestTypeOK /\ Clocked /\ Renewed /\ ChosenStays /\ BestSoFar /\ Stepwise
  /\ LatestIsFound

Constants == MaxKey \in Nat /\ PageSize \in Nat \ {0} /\ MaxTime \in Nat \ {0}

LEMMA ConstantsOK == Constants
BY LatestAssumption DEF Constants

LEMMA TheLast ==
  ASSUME LatestTypeOK, NEW page, page \subseteq Keys, page # {}
  PROVE  Last(page) \in page /\ \A j \in page : j <= Last(page)
<1>1. \E k \in page : \A j \in page : j <= k
  <2>1. page \subseteq 0..MaxKey /\ MaxKey \in Nat
    BY ConstantsOK DEF Keys, Constants
  <2> QED BY <2>1, GreatestExists
<1> QED BY <1>1 DEF Last

LEMMA TheNewest ==
  ASSUME LatestTypeOK, NEW page, page \subseteq Keys, Candidates(page) # {}
  PROVE  /\ Newest(page) \in Candidates(page)
         /\ \A j \in Candidates(page) : bucket[j] <= bucket[Newest(page)]
<1> DEFINE C == Candidates(page)
           times == {bucket[k] : k \in C}
<1>1. C \subseteq Keys /\ \A k \in C : bucket[k] \in 0..MaxTime
  BY DEF Candidates, LatestTypeOK
<1>2. PICK k0 \in C : \A j \in C : bucket[j] <= bucket[k0]
  <2>1. times \subseteq 0..MaxTime /\ times # {}
    BY <1>1
  <2>2. PICK t \in times : \A u \in times : u <= t
    BY <2>1, GreatestExists, ConstantsOK DEF Constants
  <2>3. PICK k0 \in C : t = bucket[k0]
    BY <2>2
  <2>4. \A j \in C : bucket[j] \in times
    OBVIOUS
  <2> QED BY <2>2, <2>3, <2>4
<1> DEFINE best == {k \in C : bucket[k] = bucket[k0]}
<1>3. PICK k \in best : \A j \in best : k <= j
  <2>1. best \subseteq Nat /\ best # {}
    BY <1>1 DEF Keys
  <2> QED BY <2>1, SmallestExists
<1>4. \A j \in C : Later(k, j)
  <2> SUFFICES ASSUME NEW j \in C PROVE Later(k, j)
    OBVIOUS
  <2>1. CASE bucket[j] = bucket[k0]
    BY <1>3, <2>1 DEF Later
  <2>2. CASE bucket[j] # bucket[k0]
    BY <1>1, <1>2, <1>3, <2>2 DEF Later
  <2> QED BY <2>1, <2>2
<1>5. Newest(page) \in C /\ \A j \in C : Later(Newest(page), j)
  BY <1>4 DEF Newest
<1> QED BY <1>1, <1>5 DEF Later

\* A page leaves out no object up to its last key.
LEMMA PageIsDense ==
  ASSUME LatestTypeOK, Page # {}, NEW k \in Rest, k <= Last(Page)
  PROVE  k \in Page
<1>1. /\ Rest \subseteq Keys /\ Page \subseteq Rest
      /\ \A j \in Rest : j \in Nat
  BY ConstantsOK DEF Rest, Page, Keys, Constants
<1>2. Last(Page) \in Page /\ Last(Page) \in Nat
  BY <1>1, TheLast
<1> DEFINE A == {j \in Rest : j < k}
           B == {j \in Rest : j < Last(Page)}
<1>3. A \subseteq B
  BY <1>1, <1>2
<1>4. IsFiniteSet(Rest)
  <2>1. IsFiniteSet(Keys)
    BY FS_Interval, ConstantsOK DEF Keys, Constants
  <2> QED BY <1>1, <2>1, FS_Subset
<1>5. IsFiniteSet(A) /\ IsFiniteSet(B)
  BY <1>4, FS_Subset
<1>6. Cardinality(B) < PageSize
  BY <1>2 DEF Page
<1>7. Cardinality(A) < PageSize
  <2> HIDE DEF A, B
  <2>1. /\ Cardinality(A) <= Cardinality(B)
        /\ Cardinality(A) \in Nat /\ Cardinality(B) \in Nat
    BY <1>3, <1>5, FS_Subset, FS_CardinalityType
  <2> QED BY <1>6, <2>1, ConstantsOK DEF Constants
<1> QED BY <1>7 DEF Page

-----------------------------------------------------------------------------
LEMMA LatestInitEstablishes == LatestInit => LatestIInv
<1> SUFFICES ASSUME LatestInit PROVE LatestIInv
  OBVIOUS
<1>1. LatestTypeOK
  BY ConstantsOK DEF LatestInit, LatestTypeOK, None, Absent, Constants
<1>2. Clocked /\ Renewed /\ ChosenStays /\ Stepwise
  BY DEF LatestInit, Clocked, Renewed, ChosenStays, Stepwise, None, Absent
<1>3. BestSoFar /\ LatestIsFound
  BY DEF LatestInit, BestSoFar, Behind, LatestIsFound
<1> QED BY <1>1, <1>2, <1>3 DEF LatestIInv

LEMMA BeginPreserves ==
  ASSUME LatestIInv, Begin
  PROVE  LatestIInv'
<1>1. LatestTypeOK' /\ Clocked' /\ Renewed' /\ ChosenStays' /\ Stepwise'
  BY DEF LatestIInv, Begin, LatestTypeOK, Clocked, Renewed, ChosenStays, Stepwise
<1>2. BestSoFar' /\ LatestIsFound'
  <2>1. cursor' = 0 /\ step' = "listing" /\ result' = None
    BY DEF LatestIInv, Begin, Stepwise
  <2>2. \A k \in Keys : ~ Behind(k)'
    BY <2>1, ConstantsOK DEF Behind, Keys, Constants
  <2> QED BY <2>1, <2>2 DEF BestSoFar, LatestIsFound, Stable
<1> QED BY <1>1, <1>2 DEF LatestIInv

\* The page adds what is behind the cursor now.
LEMMA NextPagePreserves ==
  ASSUME LatestIInv, NextPage
  PROVE  LatestIInv'
<1>1. /\ LatestTypeOK /\ Clocked /\ Renewed /\ ChosenStays /\ BestSoFar /\ Stepwise
      /\ UNCHANGED <<bucket, now, result, atStart, deleted>>
      /\ step = "listing" /\ step' \in {"listing", "listed"} /\ result = None
  BY DEF LatestIInv, NextPage, history, Stepwise
<1>2. Page \subseteq Rest /\ Rest \subseteq Keys /\ \A k \in Keys : k \in Nat
  BY ConstantsOK DEF Page, Rest, Keys, Constants
<1>3. latest.time \in 0..MaxTime /\ latest \in [key : 0..MaxKey, time : 0..MaxTime]
  BY <1>1 DEF LatestTypeOK
<1> DEFINE best == Newest(Page)
\* The better of the two is kept.
<1>4. /\ latest' \in [key : 0..MaxKey, time : 0..MaxTime]
      /\ Clocked' /\ ChosenStays'
      /\ latest # None => latest' # None /\ latest.time <= latest'.time
      /\ \A j \in Candidates(Page) : latest' # None /\ bucket[j] <= latest'.time
  <2>1. CASE Candidates(Page) # {}
    <3>1. /\ best \in Page /\ best \in Keys \ Markers /\ bucket[best] # Absent
          /\ bucket[best] \in 0..MaxTime /\ bucket[best] <= now
          /\ \A j \in Candidates(Page) : bucket[j] <= bucket[best] /\ bucket[j] \in 0..MaxTime
      BY <1>1, <1>2, <2>1, TheNewest DEF Candidates, Rest, LatestTypeOK, Clocked
    <3>2. CASE Improves(best)
      <4>1. latest' = [key |-> best, time |-> bucket[best]]
        BY <2>1, <3>2 DEF NextPage
      <4> HIDE DEF best
      <4>2. latest' # None
        BY <1>2, <3>1, <4>1 DEF None, Keys
      <4>3. latest' \in [key : 0..MaxKey, time : 0..MaxTime]
        BY <3>1, <4>1, ConstantsOK DEF Keys, Constants
      <4>4. latest # None => latest.time <= latest'.time
        BY <1>3, <3>1, <3>2, <4>1, ConstantsOK DEF Improves, Constants
      <4>5. Clocked' /\ ChosenStays'
        BY <1>1, <3>1, <4>1, ConstantsOK DEF Clocked, ChosenStays, Constants
      <4> QED BY <3>1, <4>1, <4>2, <4>3, <4>4, <4>5
    <3>3. CASE ~ Improves(best)
      <4>1. latest' = latest
        BY <2>1, <3>3 DEF NextPage
      <4>2. latest # None /\ bucket[best] <= latest.time
        BY <1>3, <3>1, <3>3, ConstantsOK DEF Improves, Constants
      <4> HIDE DEF best
      <4>3. \A j \in Candidates(Page) : bucket[j] <= latest.time
        BY <1>3, <3>1, <4>2, ConstantsOK DEF Constants
      <4> QED BY <1>1, <1>3, <4>1, <4>2, <4>3, ConstantsOK DEF Clocked, ChosenStays, Constants
    <3> QED BY <3>2, <3>3
  <2>2. CASE Candidates(Page) = {}
    <3>1. latest' = latest
      BY <2>2 DEF NextPage
    <3> QED BY <1>1, <1>3, <2>2, <3>1, ConstantsOK DEF Clocked, ChosenStays, Constants
  <2> QED BY <2>1, <2>2
\* A stable backup that is behind the new cursor was so before or is on the page.
<1>5. ASSUME NEW k \in Stable, Behind(k)', k > cursor
      PROVE  k \in Candidates(Page)
  <2>1. /\ k \in Keys \ Markers /\ atStart[k] # Absent /\ k \notin deleted
        /\ atStart[k] \in Nat /\ bucket[k] \in Nat /\ atStart[k] <= bucket[k]
    BY <1>1, ConstantsOK DEF Stable, Renewed, LatestTypeOK, Constants
  <2>2. k \in Rest
    BY <1>5, <2>1 DEF Rest, Absent
  <2>3. k \in Page
    <3>1. CASE step' = "listed"
      BY <2>2, <3>1 DEF NextPage, MorePages
    <3>2. CASE step' = "listing"
      <4>1. k <= cursor' /\ k \in Nat /\ cursor \in Nat
        BY <1>1, <1>2, <1>5, <2>1, <3>2, ConstantsOK DEF Behind, LatestTypeOK, Constants
      <4>2. Page # {} /\ cursor' = Last(Page)
        BY <1>5, <4>1 DEF NextPage
      <4> QED BY <1>1, <2>2, <4>1, <4>2, PageIsDense
    <3> QED BY <1>1, <3>1, <3>2
  <2> QED BY <2>1, <2>3 DEF Candidates
<1>6. BestSoFar'
  <2> SUFFICES ASSUME NEW k \in Stable, Behind(k)'
               PROVE  latest' # None /\ atStart[k] <= latest'.time
    BY <1>1 DEF BestSoFar, Stable
  <2>1. /\ k \in Keys \ Markers /\ atStart[k] \in Nat /\ bucket[k] \in Nat
        /\ atStart[k] <= bucket[k] /\ k \in Nat /\ cursor \in Nat
        /\ latest.time \in Nat /\ latest'.time \in Nat
    BY <1>1, <1>2, <1>3, <1>4, ConstantsOK DEF Stable, Renewed, LatestTypeOK, Constants
  <2>2. CASE k > cursor
    BY <1>4, <1>5, <2>1, <2>2
  <2>3. CASE k <= cursor
    <3>1. latest # None /\ atStart[k] <= latest.time
      BY <1>1, <2>3 DEF BestSoFar, Behind
    <3> QED BY <1>4, <2>1, <3>1
  <2> QED BY <2>1, <2>2, <2>3
<1>7. cursor' \in 0..MaxKey
  <2>1. CASE Page = {}
    BY <1>1, <2>1 DEF NextPage, LatestTypeOK
  <2>2. CASE Page # {}
    <3>1. Last(Page) \in Keys /\ cursor' = Last(Page)
      BY <1>1, <1>2, <2>2, TheLast DEF NextPage
    <3> QED BY <3>1, ConstantsOK DEF Keys, Constants
  <2> QED BY <2>1, <2>2
<1>8. LatestTypeOK' /\ Renewed' /\ Stepwise' /\ LatestIsFound'
  BY <1>1, <1>4, <1>7 DEF LatestTypeOK, Renewed, Stepwise, LatestIsFound
<1> QED BY <1>4, <1>6, <1>8 DEF LatestIInv

\* What ends the search.
LEMMA EndPreserves ==
  ASSUME LatestIInv, NoObjects \/ Choose \/ GetObject \/ RequestFails
  PROVE  LatestIInv'
<1>1. /\ LatestTypeOK /\ Clocked /\ Renewed /\ ChosenStays /\ BestSoFar /\ Stepwise
      /\ UNCHANGED <<bucket, now, cursor, latest, atStart, deleted>>
      /\ step \in {"listing", "listed", "chosen"}
      /\ step' \in {"chosen", "returned", "failed"}
      /\ result' = result \/ GetObject
  BY DEF LatestIInv, NoObjects, Choose, GetObject, RequestFails, history
<1>2. Clocked' /\ Renewed' /\ ChosenStays'
  BY <1>1 DEF Clocked, Renewed, ChosenStays
<1>3. BestSoFar' /\ Stepwise' /\ (step' = "chosen" => latest.key \in Keys)
  BY <1>1 DEF BestSoFar, Behind, Stable, Stepwise, NoObjects, Choose, GetObject,
       RequestFails, ChosenStays
<1>4. LatestTypeOK' /\ LatestIsFound'
  <2>1. CASE NoObjects
    <3>1. step = "listed" /\ latest = None /\ result' = None /\ step' = "returned"
      BY <1>1, <2>1 DEF NoObjects, Stepwise
    <3>2. Stable = {}
      BY <1>1, <3>1 DEF BestSoFar, Behind
    <3> QED BY <1>1, <2>1, <3>1, <3>2 DEF NoObjects, LatestTypeOK, LatestIsFound, Stable
  <2>2. CASE Choose \/ RequestFails
    <3>1. result' = None /\ result' = result /\ step' # "returned"
      BY <1>1, <2>2 DEF Choose, RequestFails, Stepwise
    <3> QED BY <1>1, <1>3, <3>1 DEF LatestTypeOK, LatestIsFound
  <2>3. CASE GetObject
    <3>1. /\ latest # None /\ latest.key \in Keys \ Markers /\ step = "chosen"
          /\ step' = "returned"
      BY <1>1, <2>3 DEF GetObject, Stepwise, ChosenStays
    <3>2. CASE bucket[latest.key] = Absent
      <4>1. latest.key \in deleted /\ result' = None /\ result = None
        BY <1>1, <2>3, <3>1, <3>2 DEF GetObject, ChosenStays, Stepwise
      <4> QED BY <1>1, <3>1, <4>1 DEF LatestTypeOK, LatestIsFound
    <3>3. CASE bucket[latest.key] # Absent
      <4>1. result' = [key |-> latest.key, time |-> bucket[latest.key]]
        BY <2>3, <3>3 DEF GetObject
      <4>2. result'.key \in Keys \ Markers /\ result'.time \in 0..MaxTime /\ result' # None
        BY <1>1, <3>1, <4>1, ConstantsOK DEF LatestTypeOK, None, Keys, Constants
      <4>3. latest.time <= result'.time /\ latest.time \in Nat /\ result'.time \in Nat
        BY <1>1, <3>1, <3>3, <4>1, ConstantsOK DEF ChosenStays, LatestTypeOK, Constants
      <4>4. \A k \in Stable : atStart[k] <= result'.time
        <5> SUFFICES ASSUME NEW k \in Stable PROVE atStart[k] <= result'.time
          OBVIOUS
        <5>1. atStart[k] <= latest.time /\ atStart[k] \in Nat
          BY <1>1, <3>1, ConstantsOK DEF BestSoFar, Behind, Stable, LatestTypeOK, Constants
        <5> QED BY <4>3, <5>1
      <4>5. LatestTypeOK'
        <5>1. result' \in [key : 0..MaxKey, time : 0..MaxTime]
          BY <4>1, <4>2, ConstantsOK DEF Keys, Constants
        <5> QED BY <1>1, <3>1, <5>1 DEF LatestTypeOK
      <4> QED BY <1>1, <4>2, <4>4, <4>5 DEF LatestIsFound, Stable
    <3> QED BY <3>2, <3>3
  <2> QED BY <2>1, <2>2, <2>3
<1> QED BY <1>2, <1>3, <1>4 DEF LatestIInv

\* The other users of the bucket.
LEMMA OthersPreserve ==
  ASSUME LatestIInv,
         Tick \/ (step \notin {"returned", "failed"} /\ \E k \in Keys : Upload(k) \/ Delete(k))
  PROVE  LatestIInv'
<1>1. /\ LatestTypeOK /\ Clocked /\ Renewed /\ ChosenStays /\ BestSoFar /\ Stepwise
      /\ LatestIsFound
      /\ UNCHANGED <<step, cursor, latest, result, atStart>>
  BY DEF LatestIInv, Tick, Upload, Delete, history
<1>2. CASE Tick
  <2>1. /\ UNCHANGED <<bucket, deleted>> /\ now' \in 1..MaxTime /\ now' >= now
        /\ now \in Nat /\ latest.time \in Nat
    BY <1>1, <1>2, ConstantsOK DEF Tick, history, LatestTypeOK, Constants
  <2>2. Clocked'
    <3>1. \A k \in Keys : bucket[k] \in Nat
      BY <1>1, ConstantsOK DEF LatestTypeOK, Constants
    <3> QED BY <1>1, <2>1, <3>1 DEF Clocked
  <2> QED BY <1>1, <2>1, <2>2 DEF LatestIInv, LatestTypeOK, Renewed, ChosenStays, BestSoFar, Behind,
            Stable, Stepwise, LatestIsFound
<1>3. ASSUME NEW k \in Keys, step \notin {"returned", "failed"}, Upload(k)
      PROVE  LatestIInv'
  <2>1. bucket' = [bucket EXCEPT ![k] = now] /\ UNCHANGED <<now, deleted>>
    BY <1>3 DEF Upload, history
  <2>2. /\ now \in 1..MaxTime /\ latest.time \in Nat
        /\ \A j \in Keys : bucket[j] \in Nat /\ atStart[j] \in Nat
    BY <1>1, ConstantsOK DEF LatestTypeOK, Constants
  <2>3. \A j \in Keys : bucket[j] <= bucket'[j] /\ bucket'[j] <= now
    BY <1>1, <2>1, <2>2 DEF LatestTypeOK, Clocked
  <2>4. LatestTypeOK' /\ Clocked'
    BY <1>1, <2>1, <2>2, <2>3 DEF LatestTypeOK, Clocked
  <2>5. Renewed'
    <3>1. \A j \in Keys : bucket'[j] \in Nat
      BY <2>1, <2>2, ConstantsOK DEF Constants
    <3> QED BY <1>1, <2>1, <2>2, <2>3, <3>1 DEF Renewed
  <2>6. ChosenStays'
    BY <1>1, <2>1, <2>2 DEF ChosenStays, LatestTypeOK, Clocked, Absent
  <2>7. BestSoFar' /\ Stepwise' /\ LatestIsFound'
    BY <1>1, <2>1 DEF BestSoFar, Behind, Stable, Stepwise, LatestIsFound
  <2> QED BY <2>4, <2>5, <2>6, <2>7 DEF LatestIInv
<1>4. ASSUME NEW k \in Keys, step \notin {"returned", "failed"}, Delete(k)
      PROVE  LatestIInv'
  <2>1. /\ bucket' = [bucket EXCEPT ![k] = Absent] /\ UNCHANGED now
        /\ deleted' = deleted \cup {k}
    BY <1>4 DEF Delete
  <2>2. LatestTypeOK' /\ Clocked'
    BY <1>1, <2>1, ConstantsOK DEF LatestTypeOK, Clocked, Absent, Constants
  <2>3. Renewed' /\ ChosenStays' /\ Stepwise'
    BY <1>1, <2>1 DEF Renewed, ChosenStays, Stepwise, LatestTypeOK
  <2>4. Stable' \subseteq Stable
    BY <1>1, <2>1 DEF Stable
  <2>5. BestSoFar' /\ LatestIsFound'
    BY <1>1, <1>4, <2>1, <2>4 DEF BestSoFar, Behind, Stepwise, LatestIsFound
  <2> QED BY <2>2, <2>3, <2>5 DEF LatestIInv
<1> QED BY <1>2, <1>3, <1>4

\* latestObjectKey and GetObject, in a bucket of any size that others write to
\* and expire while it is listed: the backup is at least as new as every one that
\* was there throughout, and one is missed only if the chosen one was deleted.
THEOREM LatestIsAlwaysFound == LatestSpec => []LatestIsFound
<1>1. LatestIInv /\ [LatestNext]_latestVars => LatestIInv'
  <2> SUFFICES ASSUME LatestIInv, [LatestNext]_latestVars PROVE LatestIInv'
    OBVIOUS
  <2>1. CASE UNCHANGED latestVars
    BY <2>1 DEF latestVars, history, LatestIInv, LatestTypeOK, Clocked, Renewed, ChosenStays, BestSoFar,
         Behind, Stable, Stepwise, LatestIsFound
  <2> QED BY <2>1, BeginPreserves, NextPagePreserves, EndPreserves, OthersPreserve DEF LatestNext
<1>2. LatestIInv => LatestIsFound
  BY DEF LatestIInv
<1> QED BY <1>1, <1>2, LatestInitEstablishes, PTL DEF LatestSpec
=============================================================================
