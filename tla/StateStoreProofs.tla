--------------------------- MODULE StateStoreProofs ---------------------------
(***************************************************************************)
(* The promises of the state store for any number of processes, kills,     *)
(* failed calls and power losses.  IInv adds to the type invariant that    *)
(* everything with a permanent name was flushed before it got that name    *)
(* (Flushed), and where a process is when its entry exists (Recorded).     *)
(* The readers of Evidence keep it, from any earlier history on: their     *)
(* steps are steps of the store or leave it alone.  Of a report, ReaderInv *)
(* says that it tells (Tells) of the lines of its runs: its two loops are  *)
(* followed from step to step (UpTo), and a step of the store only adds to *)
(* the history (Grows).                                                    *)
(***************************************************************************)
EXTENDS Evidence, WellFoundedInduction, FiniteSetTheorems, TLAPS

Flushed ==
  /\ \A p \in Process : pc[p] \in {"save written", "append written"} =>
                          tmp[p] = "flushed"
  /\ last.content = "flushed"
  /\ \A file \in lastDisk : file.content = "flushed"
  /\ \A e \in history : e.content = "flushed"

Recorded ==
  /\ \A e \in history : /\ pc[e.run] \in {"appended", "done", "dead"}
                        /\ outcome[e.run] # "error"
  /\ \A e, f \in history : e.run = f.run => e = f
  /\ \A p \in Process : outcome[p] # "pending" => pc[p] = "done"
  /\ \A p \in Process :
       losses = 0 /\ (pc[p] = "appended" \/ outcome[p] = "ok") =>
         \E e \in history : e.run = p

IInv == TypeOK /\ Flushed /\ Recorded

-----------------------------------------------------------------------------
LEMMA InitEstablishes == Init => IInv
<1> SUFFICES ASSUME Init PROVE IInv
  OBVIOUS
<1>1. TypeOK
  BY StoreAssumption DEF Init, TypeOK, Time, Attempt, Steps, File, Content
<1>2. Flushed /\ Recorded
  BY DEF Init, Flushed, Recorded
<1> QED BY <1>1, <1>2 DEF IInv

\* A step of saveState that links nothing and loses nothing.
Unlinked(p) ==
  /\ pc[p] \notin {"appended", "done", "dead"}
  /\ UNCHANGED <<history, onDisk, losses>>
  /\ \A q \in Process \ {p} : pc'[q] = pc[q] /\ outcome'[q] = outcome[q]
  /\ pc'[p] # "appended" /\ outcome'[p] # "ok"
  /\ outcome'[p] # "pending" => pc'[p] = "done"

LEMMA UnlinkedKeepsRecorded ==
  ASSUME NEW p \in Process, IInv, Unlinked(p)
  PROVE  Recorded'
<1>1. \A e \in history : e.run # p /\ e.run \in Process
  BY DEF IInv, Recorded, Unlinked, TypeOK, Entry
<1> QED BY <1>1 DEF IInv, Recorded, Unlinked

LEMMA SaveStatePreserves ==
  ASSUME NEW p \in Process, IInv, SaveState(p)
  PROVE  IInv'
<1> USE StoreAssumption DEF Goto, SetTmp, process, lastFile, historyDir
<1>1. TypeOK /\ Flushed /\ Recorded
  BY DEF IInv
<1>2. CASE Stamp(p)
  <2>1. TypeOK' /\ Flushed'
    BY <1>1, <1>2 DEF Stamp, TypeOK, Flushed, Steps
  <2>2. Unlinked(p)
    BY <1>1, <1>2 DEF Stamp, Unlinked, TypeOK, Recorded
  <2> QED BY <2>1, <2>2, UnlinkedKeepsRecorded DEF IInv
<1>3. CASE CreateTemp(p)
  <2>1. TypeOK' /\ Flushed'
    BY <1>1, <1>3 DEF CreateTemp, TypeOK, Flushed, Content
  <2>2. Unlinked(p)
    BY <1>1, <1>3 DEF CreateTemp, Unlinked, Recorded
  <2> QED BY <2>1, <2>2, UnlinkedKeepsRecorded DEF IInv
<1>4. CASE WriteAndSync(p)
  <2>1. TypeOK' /\ Flushed'
    BY <1>1, <1>4 DEF WriteAndSync, Written, TypeOK, Flushed, Content, Steps
  <2>2. Unlinked(p)
    BY <1>1, <1>4 DEF WriteAndSync, Unlinked, TypeOK, Recorded
  <2> QED BY <2>1, <2>2, UnlinkedKeepsRecorded DEF IInv
<1>5. CASE Rename(p)
  <2>1. last'.run = p /\ last'.content = "flushed" /\ last' \in File
    BY <1>1, <1>5 DEF Rename, Flushed, File, Content
  <2>2. TypeOK'
    BY <1>1, <1>5, <2>1 DEF Rename, TypeOK, Steps
  <2>3. Flushed'
    BY <1>1, <1>5, <2>1 DEF Rename, Flushed, TypeOK
  <2>4. Unlinked(p)
    BY <1>1, <1>5 DEF Rename, Unlinked, TypeOK, Recorded
  <2> QED BY <2>2, <2>3, <2>4, UnlinkedKeepsRecorded DEF IInv
<1>6. CASE SyncLastDir(p)
  <2>1. TypeOK' /\ Flushed'
    BY <1>1, <1>6 DEF SyncLastDir, TypeOK, Flushed, Steps
  <2>2. Unlinked(p)
    BY <1>1, <1>6 DEF SyncLastDir, Unlinked, TypeOK, Recorded
  <2> QED BY <2>1, <2>2, UnlinkedKeepsRecorded DEF IInv
<1>7. CASE SaveFails(p)
  <2>1. TypeOK' /\ Flushed'
    BY <1>1, <1>7 DEF SaveFails, TypeOK, Flushed, Steps
  <2>2. Unlinked(p)
    BY <1>1, <1>7 DEF SaveFails, Unlinked, TypeOK, Recorded
  <2> QED BY <2>1, <2>2, UnlinkedKeepsRecorded DEF IInv
<1>8. CASE Link(p)
  <2> DEFINE entry == [name |-> <<stamp[p], attempt[p]>>, run |-> p, content |-> tmp[p]]
  <2>1. entry \in Entry /\ entry.content = "flushed" /\ entry.run = p
    BY <1>1, <1>8 DEF Link, TypeOK, Flushed, Entry, Name, Content
  <2> HIDE DEF entry
  <2>2. history' = history \cup {entry}
    BY <1>8 DEF Link, LinkNew, entry
  <2>3. TypeOK'
    BY <1>1, <1>8, <2>1, <2>2 DEF Link, TypeOK, Steps
  <2>4. Flushed'
    BY <1>1, <1>8, <2>1, <2>2 DEF Link, Flushed, TypeOK
  <2>5. \A e \in history : e.run # p /\ e.run \in Process
    BY <1>1, <1>8 DEF Link, Recorded, TypeOK, Entry
  <2>6. Recorded'
    <3>1. /\ pc'[p] = "appended" /\ outcome' = outcome /\ losses' = losses
          /\ outcome[p] = "pending"
          /\ \A q \in Process \ {p} : pc'[q] = pc[q]
      BY <1>1, <1>8 DEF Link, Recorded, TypeOK
    <3>2. \A e \in history' : e = entry \/ (e \in history /\ e.run # p)
      BY <2>2, <2>5
    <3>3. \A e \in history' : /\ pc'[e.run] \in {"appended", "done", "dead"}
                              /\ outcome'[e.run] # "error"
      BY <1>1, <2>1, <2>5, <3>1, <3>2 DEF Recorded
    <3>4. \A e, f \in history' : e.run = f.run => e = f
      BY <1>1, <2>1, <3>2 DEF Recorded
    <3>5. \A q \in Process : outcome'[q] # "pending" => pc'[q] = "done"
      BY <1>1, <3>1 DEF Recorded
    <3>6. \A q \in Process :
            losses' = 0 /\ (pc'[q] = "appended" \/ outcome'[q] = "ok") =>
              \E e \in history' : e.run = q
      BY <1>1, <2>1, <2>2, <3>1 DEF Recorded
    <3> QED BY <3>3, <3>4, <3>5, <3>6 DEF Recorded
  <2> QED BY <2>3, <2>4, <2>6 DEF IInv
<1>9. CASE LinkExists(p)
  <2>0. attempt' \in [Process -> Attempt]
    <3>1. CASE UNCHANGED attempt
      BY <1>1, <3>1 DEF TypeOK
    <3>2. CASE MoreNames(p) /\ NextName(p)
      <4>1. attempt[p] + 1 \in Attempt
        BY <1>1, <3>2 DEF MoreNames, TypeOK, Attempt
      <4> QED BY <1>1, <3>2, <4>1 DEF NextName, TypeOK
    <3> QED BY <1>9, <3>1, <3>2 DEF LinkExists
  <2>1. TypeOK' /\ Flushed'
    BY <1>1, <1>9, <2>0 DEF LinkExists, TypeOK, Flushed, Steps
  <2>2. Unlinked(p)
    <3>1. /\ pc[p] = "append written" /\ outcome[p] = "pending"
          /\ UNCHANGED <<history, onDisk, losses>>
      BY <1>1, <1>9 DEF LinkExists, Recorded
    <3>2. CASE Goto(p, "append") /\ UNCHANGED outcome
      BY <1>1, <3>1, <3>2 DEF Unlinked, TypeOK
    <3>3. CASE Goto(p, "done") /\ outcome' = [outcome EXCEPT ![p] = "error"]
      BY <1>1, <3>1, <3>3 DEF Unlinked, TypeOK
    <3> QED BY <1>9, <3>2, <3>3 DEF LinkExists
  <2> QED BY <2>1, <2>2, UnlinkedKeepsRecorded DEF IInv
<1>10. CASE AppendFails(p)
  <2>1. TypeOK' /\ Flushed'
    BY <1>1, <1>10 DEF AppendFails, TypeOK, Flushed, Steps
  <2>2. Unlinked(p)
    BY <1>1, <1>10 DEF AppendFails, Unlinked, TypeOK, Recorded
  <2> QED BY <2>1, <2>2, UnlinkedKeepsRecorded DEF IInv
<1>11. CASE SyncHistoryDir(p)
  <2>1. TypeOK' /\ Flushed'
    BY <1>1, <1>11 DEF SyncHistoryDir, SyncBestEffort, TypeOK, Flushed, Steps
  <2>2. Recorded'
    BY <1>1, <1>11 DEF SyncHistoryDir, SyncBestEffort, TypeOK, Recorded, Entry
  <2> QED BY <2>1, <2>2 DEF IInv
<1> QED BY <1>2, <1>3, <1>4, <1>5, <1>6, <1>7, <1>8, <1>9, <1>10, <1>11 DEF SaveState

LEMMA KillPreserves ==
  ASSUME NEW p \in Process, IInv, Kill(p)
  PROVE  IInv'
<1>1. TypeOK' /\ Flushed'
  BY DEF IInv, Kill, Goto, process, lastFile, historyDir, TypeOK, Flushed, Steps
<1>2. Recorded'
  BY DEF IInv, Kill, Running, Goto, process, historyDir, TypeOK, Recorded, Entry
<1> QED BY <1>1, <1>2 DEF IInv

\* What was flushed looks the same after a power loss.
LEMMA FlushedSurvives ==
  ASSUME NEW S, \A f \in S : f.content = "flushed"
  PROVE  {AfterLoss(f) : f \in S} = S
BY DEF AfterLoss

LEMMA PowerLossPreserves ==
  ASSUME IInv, PowerLoss
  PROVE  IInv' /\ onDisk \subseteq history'
<1>1. TypeOK /\ Flushed /\ Recorded
  BY DEF IInv
<1>2. last' \in lastDisk /\ lastDisk' = {last'}
  BY <1>1 DEF PowerLoss, Flushed, AfterLoss
<1>3. PICK kept \in SUBSET (history \ onDisk) : history' = onDisk \cup kept
  <2>1. PICK kept \in SUBSET (history \ onDisk) :
          history' = {AfterLoss(e) : e \in onDisk \cup kept}
    BY DEF PowerLoss
  <2>2. \A e \in onDisk \cup kept : e.content = "flushed"
    BY <1>1 DEF Flushed, TypeOK
  <2> QED BY <2>1, <2>2, FlushedSurvives
<1>4. onDisk \subseteq history' /\ history' \subseteq history /\ onDisk' = history'
  BY <1>1, <1>3 DEF PowerLoss, TypeOK
<1>5. TypeOK'
  <2>1. pc' \in [Process -> Steps]
    BY <1>1 DEF PowerLoss, TypeOK, Steps
  <2>2. last' \in File /\ lastDisk' \subseteq File /\ losses' \in Nat
    BY <1>1, <1>2 DEF PowerLoss, TypeOK
  <2> QED BY <1>1, <1>4, <2>1, <2>2 DEF PowerLoss, TypeOK
<1>6. Flushed'
  BY <1>1, <1>2, <1>4 DEF PowerLoss, Flushed, Running
<1>7. Recorded'
  BY <1>1, <1>4 DEF PowerLoss, Recorded, TypeOK, Running, Entry
<1> QED BY <1>4, <1>5, <1>6, <1>7 DEF IInv

LEMMA NextPreserves == IInv /\ [Next]_vars => IInv'
<1> SUFFICES ASSUME IInv, [Next]_vars PROVE IInv'
  OBVIOUS
<1>1. CASE Tick
  <2>1. clock' \in Time
    BY <1>1, StoreAssumption DEF Tick, IInv, TypeOK, Time
  <2>2. /\ UNCHANGED <<pc, stamp, tmp, attempt, outcome, losses>>
        /\ UNCHANGED <<last, lastDisk, history, onDisk>>
    BY <1>1 DEF Tick, lastFile, historyDir
  <2> QED BY <2>1, <2>2 DEF IInv, TypeOK, Flushed, Recorded
<1>2. CASE Done \/ UNCHANGED vars
  BY <1>2 DEF Done, vars, IInv, TypeOK, Flushed, Recorded
<1> QED BY <1>1, <1>2, SaveStatePreserves, KillPreserves, PowerLossPreserves DEF Next

\* Every reachable state of the store satisfies the inductive invariant.
THEOREM StoreInvariant == Spec => []IInv
BY InitEstablishes, NextPreserves, PTL DEF Spec

\* Every variable keeps its type.
THEOREM TypeCorrect == Spec => []TypeOK
<1>1. IInv => TypeOK
  BY DEF IInv
<1> QED BY <1>1, StoreInvariant, PTL

\* No reader ever meets a part of a file, whatever is killed or loses power.
THEOREM FilesAreWhole == Spec => []NeverTorn
<1>1. IInv => NeverTorn
  BY DEF IInv, Flushed, NeverTorn
<1> QED BY <1>1, StoreInvariant, PTL

\* AppendHistory tells the truth: an entry on success, none on an error, and
\* never two of one run.
THEOREM RunsAreRecordedOnce == Spec => []RecordedOnce
<1>1. IInv => RecordedOnce
  BY DEF IInv, Recorded, RecordedOnce
<1> QED BY <1>1, StoreInvariant, PTL

LEMMA HistoryStep ==
  IInv /\ [Next]_vars =>
    [ /\ losses' = losses => history \subseteq history'
      /\ onDisk \subseteq history' ]_vars
<1> SUFFICES ASSUME IInv, Next
             PROVE  /\ losses' = losses => history \subseteq history'
                    /\ onDisk \subseteq history'
  OBVIOUS
<1>1. onDisk \subseteq history /\ losses \in Nat
  BY DEF IInv, TypeOK
<1>2. ASSUME NEW p \in Process, SaveState(p) PROVE history \subseteq history'
  BY <1>2 DEF SaveState, Stamp, CreateTemp, WriteAndSync, Rename, SyncLastDir,
       SaveFails, Link, LinkNew, LinkExists, AppendFails, SyncHistoryDir, historyDir
<1>3. ASSUME NEW p \in Process, Kill(p) PROVE history \subseteq history'
  BY <1>3 DEF Kill, historyDir
<1>4. CASE PowerLoss
  BY <1>1, <1>4, PowerLossPreserves DEF PowerLoss
<1>5. CASE Tick \/ Done
  BY <1>1, <1>5 DEF Tick, Done, historyDir, vars
<1> QED BY <1>1, <1>2, <1>3, <1>4, <1>5 DEF Next

\* Concurrent processes never clobber each other's history entries.
THEOREM HistoryIsAppendOnly == Spec => HistoryOnlyGrows
BY HistoryStep, StoreInvariant, PTL DEF Spec, HistoryOnlyGrows

-----------------------------------------------------------------------------
(* Beside the readers                                                      *)

LEMMA ReadersStart == EvidenceInit => IInv
<1> SUFFICES ASSUME EvidenceInit PROVE IInv
  OBVIOUS
<1>1. /\ Earlier \subseteq Process
      /\ \A p, q \in Earlier : p = q
  BY EvidenceAssumption
<1>2. \A e \in history : \E p \in Earlier :
        e = [name |-> <<0, 0>>, run |-> p, content |-> "flushed"]
  BY DEF EvidenceInit
<1>3. \A e \in history :
        /\ e.run \in Earlier /\ e.content = "flushed"
        /\ e \in Entry
  <2>1. 0 \in Time /\ 0 \in Attempt
    BY StoreAssumption DEF Time, Attempt
  <2> QED BY <1>1, <1>2, <2>1 DEF Entry, Name, Content
<1>4. \A e, f \in history : e = f
  BY <1>1, <1>2
<1>5. last \in File /\ last.content = "flushed" /\ lastDisk = {last}
  BY <1>1, StoreAssumption DEF EvidenceInit, File, Content
<1>6. TypeOK
  <2>1. /\ clock \in Time /\ stamp \in [Process -> Time]
        /\ attempt \in [Process -> Attempt]
    BY StoreAssumption DEF EvidenceInit, Time, Attempt
  <2>2. /\ pc \in [Process -> Steps]
        /\ tmp \in [Process -> Content \cup {"none"}]
        /\ outcome \in [Process -> {"pending", "ok", "error"}]
    BY DEF EvidenceInit, Steps
  <2> QED BY <1>3, <1>5, <2>1, <2>2 DEF EvidenceInit, TypeOK
<1>7. Flushed
  BY <1>3, <1>5 DEF EvidenceInit, Flushed
<1>8. Recorded
  <2>1. ASSUME NEW p \in Earlier PROVE \E e \in history : e.run = p
    <3> DEFINE entry == [name |-> <<0, 0>>, run |-> p, content |-> "flushed"]
    <3>1. entry \in history
      BY DEF EvidenceInit
    <3>2. entry.run = p
      OBVIOUS
    <3> QED BY <3>1, <3>2
  <2>2. \A p \in Process :
          /\ pc[p] = IF p \in Earlier THEN "done" ELSE "start"
          /\ outcome[p] = IF p \in Earlier THEN "ok" ELSE "pending"
    BY DEF EvidenceInit
  <2> QED BY <1>1, <1>3, <1>4, <2>1, <2>2 DEF Recorded
<1> QED BY <1>6, <1>7, <1>8 DEF IInv

LEMMA ReadersKeepTheStore == [EvidenceNext]_evidence => [Next]_vars
<1> SUFFICES ASSUME [EvidenceNext]_evidence PROVE [Next]_vars
  OBVIOUS
<1>1. CASE Read
  BY <1>1 DEF Read
<1>2. CASE Write
  BY <1>2 DEF Write, Next
<1>3. CASE LosePower
  BY <1>3 DEF LosePower, Next
<1>4. CASE UNCHANGED evidence
  BY <1>4 DEF evidence
<1> QED BY <1>1, <1>2, <1>3, <1>4 DEF EvidenceNext

\* The inductive invariant of the store holds beside its readers.
THEOREM ReadersInvariant == EvidenceSpec => []IInv
BY ReadersStart, ReadersKeepTheStore, NextPreserves, PTL DEF EvidenceSpec

\* saveFileAtomic and AppendHistory: status and report, which read while runs
\* are saved, killed and lose power, never meet a part of a file.
THEOREM ReadersFindWholeFiles == EvidenceSpec => []NeverTorn
<1>1. IInv => NeverTorn
  BY DEF IInv, Flushed, NeverTorn
<1> QED BY <1>1, ReadersInvariant, PTL

\* AppendHistory beside readers and earlier runs: an entry on success, none on
\* an error, and never two of one run.
THEOREM ReadersFindRunsOnce == EvidenceSpec => []RecordedOnce
<1>1. IInv => RecordedOnce
  BY DEF IInv, Recorded, RecordedOnce
<1> QED BY <1>1, ReadersInvariant, PTL

\* AppendHistory: what a reader has listed stays in the history unless the host
\* loses power, and what was flushed stays even then.
THEOREM ReadersSeeHistoryGrow == EvidenceSpec => HistoryOnlyGrows
BY ReadersInvariant, ReadersKeepTheStore, HistoryStep, PTL DEF EvidenceSpec, HistoryOnlyGrows

-----------------------------------------------------------------------------
(* What a report tells                                                     *)

Summary == [runs : Nat, pass : Nat, fail : Nat, last : Int,
            status : {"", "PASS", "FAIL"}]

\* What BuildEvidenceReport makes of some runs, as far as types go.
ReportOf(runs) ==
  [total : Nat, passed : Nat, failed : Nat, drills : [Drill -> Summary],
   rows : SUBSET (Process \X Drill \X (Check \cup {"restore-drill"})), runs : {runs}]

\* Lines of the results res: those of a drill, and the failed ones.
OfDrill(L, d, res) == {l \in L : res[l[1]][l[2]].name = d}
Failed(L, res) == {l \in L : ~drillPassed(res[l[1]][l[2]])}

SumsUp(n, passes, fails, L, res) ==
  /\ n = Cardinality(L)
  /\ fails = Cardinality(Failed(L, res))
  /\ passes + fails = n

\* The time and verdict of a drill are those of one of its latest lines.
TellsLast(last_, status, L, res, st) ==
  \/ L = {} /\ last_ = -1
  \/ \E l \in L :
       /\ \A m \in L : st[m[1]] <= st[l[1]]
       /\ last_ = st[l[1]]
       /\ status = IF drillPassed(res[l[1]][l[2]]) THEN "PASS" ELSE "FAIL"

\* A report tells of the lines L.
Tells(rep, L, res, st) ==
  /\ SumsUp(rep.total, rep.passed, rep.failed, L, res)
  /\ \A d \in Drill :
       /\ SumsUp(rep.drills[d].runs, rep.drills[d].pass, rep.drills[d].fail,
                 OfDrill(L, d, res), res)
       /\ TellsLast(rep.drills[d].last, rep.drills[d].status, OfDrill(L, d, res), res, st)
  /\ \A l \in Failed(L, res) :
       \E row \in rep.rows : row[1] = l[1] /\ row[2] = res[l[1]][l[2]].name

AllLines(res) == UNION {{<<p, i>> : i \in DOMAIN res[p]} : p \in Process}

-----------------------------------------------------------------------------
(* Loops                                                                   *)

\* A set of numbers has a smallest.
LEMMA SmallestExists ==
  ASSUME NEW S, S \subseteq Nat, S # {}
  PROVE  \E k \in S : \A j \in S : k <= j
<1> DEFINE R == OpToRel(<, Nat)
<1>1. \A i, j \in Nat : <<i, j>> \in R <=> i < j
  BY DEF OpToRel
<1>2. IsWellFoundedOn(R, Nat)
  BY NatLessThanWellFounded
<1> HIDE DEF R
<1>3. PICK k \in S : \A j \in S : ~ (<<j, k>> \in R)
  BY <1>2, WFMin
<1>4. \A j \in S : k <= j
  <2> SUFFICES ASSUME NEW j \in S PROVE k <= j
    OBVIOUS
  <2>1. j \in Nat /\ k \in Nat
    OBVIOUS
  <2>2. ~ (j < k)
    BY <1>1, <1>3, <2>1
  <2> QED BY <2>1, <2>2
<1> QED BY <1>4

\* Induction up to a bound, for a set of numbers: there is no smallest one that
\* is missing.
LEMMA UpTo ==
  ASSUME NEW n \in Nat, NEW T, 0 \in T,
         \A i \in 0..n : i \in T /\ i < n => i + 1 \in T
  PROVE  0..n \subseteq T
<1> DEFINE B == {i \in 0..n : i \notin T}
<1> SUFFICES ASSUME B # {} PROVE FALSE
  OBVIOUS
<1>1. PICK m \in B : \A k \in B : m <= k
  <2>1. B \subseteq Nat
    OBVIOUS
  <2> HIDE DEF B
  <2> QED BY <2>1, SmallestExists
<1>2. m \in 0..n /\ m # 0 /\ m - 1 \in 0..n /\ m - 1 \notin B
  BY <1>1
<1> QED
  BY <1>2

\* The states of a loop of n steps.
IsLoop(f, n, base, F) == f[0] = base /\ \A i \in 1..n : f[i] = F[i][f[i - 1]]

\* A loop whose steps stay in S has them, and that is why the recursive
\* functions of Evidence, which are chosen, are what their equations say.
LEMMA Loop ==
  ASSUME NEW S, NEW base \in S, NEW n \in Nat, NEW F \in [1..n -> [S -> S]]
  PROVE  \E f \in [0..n -> S] : IsLoop(f, n, base, F)
<1> DEFINE Runs(m, f) == f[0] = base /\ \A i \in 1..m : f[i] = F[i][f[i - 1]]
           T == {m \in 0..n : \E f \in [0..m -> S] : Runs(m, f)}
<1>1. 0 \in T
  <2> DEFINE f == [i \in 0..0 |-> base]
  <2>1. f \in [0..0 -> S] /\ Runs(0, f) /\ 0 \in 0..n
    OBVIOUS
  <2> HIDE DEF f, Runs
  <2> QED BY <2>1
<1>2. ASSUME NEW m \in 0..n, m \in T, m < n PROVE m + 1 \in T
  <2>1. PICK f \in [0..m -> S] : Runs(m, f)
    BY <1>2
  <2> DEFINE g == [i \in 0..(m + 1) |-> IF i = m + 1 THEN F[m + 1][f[m]] ELSE f[i]]
  <2>2. F[m + 1][f[m]] \in S
    <3>1. m + 1 \in 1..n /\ f[m] \in S
      BY <1>2
    <3> QED BY <3>1
  <2>3. g \in [0..(m + 1) -> S]
    BY <2>2
  <2>4. Runs(m + 1, g)
    <3>1. g[0] = base
      BY <2>1
    <3>2. ASSUME NEW i \in 1..(m + 1) PROVE g[i] = F[i][g[i - 1]]
      BY <2>1
    <3> QED BY <3>1, <3>2
  <2>5. m + 1 \in 0..n
    BY <1>2
  <2> QED BY <2>3, <2>4, <2>5
<1>3. n \in T
  <2> HIDE DEF T
  <2>1. 0..n \subseteq T
    BY <1>1, <1>2, UpTo
  <2> QED BY <2>1
<1> QED BY <1>3 DEF IsLoop

-----------------------------------------------------------------------------
(* One result, one run, all runs                                           *)

\* The body of the two loops changes the counters, the summary of one drill and
\* the rows, and nothing else.
LEMMA AddResultFields ==
  ASSUME NEW runs, NEW rep \in ReportOf(runs), NEW p \in Process, NEW r \in EngineResult,
         TypeOK
  PROVE  LET a == AddResult(rep, p, r)
             ok == drillPassed(r)
         IN /\ a \in ReportOf(runs)
            /\ a.total = rep.total + 1
            /\ a.passed = rep.passed + (IF ok THEN 1 ELSE 0)
            /\ a.failed = rep.failed + (IF ok THEN 0 ELSE 1)
            /\ \A d \in Drill \ {r.name} : a.drills[d] = rep.drills[d]
            /\ a.drills[r.name] = Summarize(rep.drills[r.name], stamp[p], ok)
            /\ rep.rows \subseteq a.rows
            /\ ~ok => \E row \in a.rows : row[1] = p /\ row[2] = r.name
<1> DEFINE a == AddResult(rep, p, r)
           ok == drillPassed(r)
           s == Summarize(rep.drills[r.name], stamp[p], ok)
           rows == IF ok THEN rep.rows ELSE rep.rows \cup failureEvidenceForRun(p, r)
<1> DEFINE one == IF ok THEN 1 ELSE 0
           other == IF ok THEN 0 ELSE 1
<1>1. a = [total |-> rep.total + 1, passed |-> rep.passed + one, failed |-> rep.failed + other,
           drills |-> [rep.drills EXCEPT ![r.name] = s], rows |-> rows, runs |-> rep.runs]
  <2>1. CountedPassed(r) = ok
    BY DEF drillPassed, CountedPassed
  <2>2. a = [rep EXCEPT !.total = rep.total + 1, !.passed = rep.passed + one,
                        !.failed = rep.failed + other, !.drills[r.name] = s, !.rows = rows]
    <3> HIDE DEF ok
    <3> QED BY <2>1 DEF AddResult
  <2>3. rep.total + 1 \in Nat
    BY DEF ReportOf
  <2> HIDE DEF a, s, rows, one, other
  <2> QED BY <2>2, <2>3 DEF ReportOf
<1>2. /\ r.name \in Drill /\ ok \in BOOLEAN /\ r.Error \in BOOLEAN /\ r.failed \subseteq Check
      /\ ~ok => r.Error \/ r.failed # {}
  BY DEF EngineResult, drillPassed
<1>3. stamp[p] \in Int
  BY StoreAssumption DEF TypeOK, Time
<1>4. s \in Summary
  <2> DEFINE old == rep.drills[r.name]
  <2>1. old \in Summary
    BY <1>2 DEF ReportOf
  <2>2. /\ old.runs + 1 \in Nat
        /\ old.pass + (IF ok THEN 1 ELSE 0) \in Nat
        /\ old.fail + (IF ok THEN 0 ELSE 1) \in Nat
    <3>1. old.runs \in Nat /\ old.pass \in Nat /\ old.fail \in Nat
      BY <2>1 DEF Summary
    <3> HIDE DEF ok, old
    <3> QED BY <3>1
  <2>3. /\ (IF IsLater(stamp[p], old) THEN stamp[p] ELSE old.last) \in Int
        /\ (IF IsLater(stamp[p], old) THEN (IF ok THEN "PASS" ELSE "FAIL") ELSE old.status)
             \in {"", "PASS", "FAIL"}
    <3>1. old.last \in Int /\ old.status \in {"", "PASS", "FAIL"}
      BY <2>1 DEF Summary
    <3> HIDE DEF old, ok
    <3>4. (IF ok THEN "PASS" ELSE "FAIL") \in {"", "PASS", "FAIL"}
      <4>1. CASE ok
        BY <4>1
      <4>2. CASE ~ok
        BY <4>2
      <4> QED BY <4>1, <4>2
    <3>2. CASE IsLater(stamp[p], old)
      BY <1>3, <3>1, <3>2, <3>4
    <3>3. CASE ~IsLater(stamp[p], old)
      BY <1>3, <3>1, <3>3
    <3> QED BY <3>2, <3>3
  <2> HIDE DEF old
  <2> QED BY <2>2, <2>3 DEF Summarize, Summary, old
<1>5. failureEvidenceForRun(p, r) \subseteq Process \X Drill \X (Check \cup {"restore-drill"})
  BY <1>2 DEF failureEvidenceForRun
<1>6. ~ok => \E row \in failureEvidenceForRun(p, r) : row[1] = p /\ row[2] = r.name
  <2> SUFFICES ASSUME ~ok
               PROVE  \E row \in failureEvidenceForRun(p, r) : row[1] = p /\ row[2] = r.name
    OBVIOUS
  <2>1. CASE r.Error
    <3>1. <<p, r.name, "restore-drill">> \in failureEvidenceForRun(p, r)
      BY <2>1 DEF failureEvidenceForRun
    <3> QED BY <3>1
  <2>2. CASE r.failed # {}
    <3>1. PICK c \in r.failed : TRUE
      BY <2>2
    <3>2. <<p, r.name, c>> \in failureEvidenceForRun(p, r)
      BY <3>1 DEF failureEvidenceForRun
    <3> QED BY <3>2
  <2> QED BY <1>2, <2>1, <2>2
<1>7. rep.total \in Nat /\ rep.passed \in Nat /\ rep.failed \in Nat
      /\ rep.drills \in [Drill -> Summary] /\ rep.runs = runs
      /\ rep.rows \subseteq Process \X Drill \X (Check \cup {"restore-drill"})
  BY DEF ReportOf
<1> HIDE DEF s, ok, a
<1>8. a \in ReportOf(runs)
  <2>1. [rep.drills EXCEPT ![r.name] = s] \in [Drill -> Summary]
    BY <1>2, <1>4, <1>7
  <2>2. rep.total + 1 \in Nat /\ rep.passed + (IF ok THEN 1 ELSE 0) \in Nat
        /\ rep.failed + (IF ok THEN 0 ELSE 1) \in Nat
    BY <1>7
  <2>3. rows \subseteq Process \X Drill \X (Check \cup {"restore-drill"})
    BY <1>5, <1>7
  <2> HIDE DEF rows
  <2> QED BY <1>1, <1>7, <2>1, <2>2, <2>3 DEF ReportOf
<1>9. a.drills = [rep.drills EXCEPT ![r.name] = s] /\ a.rows = rows
      /\ a.total = rep.total + 1
      /\ a.passed = rep.passed + (IF ok THEN 1 ELSE 0)
      /\ a.failed = rep.failed + (IF ok THEN 0 ELSE 1)
  BY <1>1
<1>10. /\ \A d \in Drill \ {r.name} : a.drills[d] = rep.drills[d]
       /\ a.drills[r.name] = s
  BY <1>2, <1>7, <1>9
<1>11. rep.rows \subseteq a.rows /\ (~ok => \E row \in a.rows : row[1] = p /\ row[2] = r.name)
  BY <1>6, <1>9
<1> QED BY <1>8, <1>9, <1>10, <1>11 DEF a, ok, s

\* One more line: the sums, and the latest of a drill.
LEMMA SumsUpMore ==
  ASSUME NEW L, NEW l, NEW res, IsFiniteSet(L), l \notin L,
         NEW n \in Nat, NEW passes \in Nat, NEW fails \in Nat,
         SumsUp(n, passes, fails, L, res)
  PROVE  IF drillPassed(res[l[1]][l[2]]) THEN SumsUp(n + 1, passes + 1, fails, L \cup {l}, res)
                                         ELSE SumsUp(n + 1, passes, fails + 1, L \cup {l}, res)
<1> DEFINE ok == drillPassed(res[l[1]][l[2]])
<1>1. Cardinality(L \cup {l}) = Cardinality(L) + 1
  BY FS_AddElement
<1>2. IsFiniteSet(Failed(L, res)) /\ Cardinality(Failed(L, res)) \in Nat
  <2>1. Failed(L, res) \in SUBSET L
    BY DEF Failed
  <2> QED BY <2>1, FS_Subset, FS_CardinalityType
<1>3. CASE ok
  <2>1. Failed(L \cup {l}, res) = Failed(L, res)
    BY <1>3 DEF Failed
  <2> QED BY <1>1, <1>3, <2>1 DEF SumsUp
<1>4. CASE ~ok
  <2>1. Failed(L \cup {l}, res) = Failed(L, res) \cup {l} /\ l \notin Failed(L, res)
    BY <1>4 DEF Failed
  <2>2. Cardinality(Failed(L \cup {l}, res)) = Cardinality(Failed(L, res)) + 1
    BY <1>2, <2>1, FS_AddElement
  <2>3. passes + fails = n /\ n = Cardinality(L) /\ fails = Cardinality(Failed(L, res))
    BY DEF SumsUp
  <2>4. passes + (fails + 1) = n + 1
    BY <2>3
  <2> HIDE DEF ok
  <2> QED BY <1>1, <1>4, <2>2, <2>3, <2>4 DEF SumsUp, ok
<1> QED BY <1>3, <1>4

LEMMA TellsLastMore ==
  ASSUME NEW L, NEW l, NEW res, NEW st, NEW s \in Summary,
         \A m \in L \cup {l} : st[m[1]] \in Nat,
         TellsLast(s.last, s.status, L, res, st)
  PROVE  LET n == Summarize(s, st[l[1]], drillPassed(res[l[1]][l[2]]))
         IN TellsLast(n.last, n.status, L \cup {l}, res, st)
<1> DEFINE ok == drillPassed(res[l[1]][l[2]])
           n == Summarize(s, st[l[1]], ok)
           t == st[l[1]]
<1>1. /\ n.last = IF IsLater(t, s) THEN t ELSE s.last
      /\ n.status = IF IsLater(t, s) THEN (IF ok THEN "PASS" ELSE "FAIL") ELSE s.status
  BY DEF Summarize
<1> HIDE DEF n
<1>2. CASE IsLater(t, s)
  <2>1. t > s.last
    BY <1>2 DEF IsLater
  <2>2. \A m \in L \cup {l} : st[m[1]] <= st[l[1]]
    BY <2>1 DEF TellsLast
  <2>3. n.last = st[l[1]] /\ n.status = IF ok THEN "PASS" ELSE "FAIL"
    BY <1>1, <1>2
  <2> QED BY <2>2, <2>3 DEF TellsLast, n
<1>3. CASE ~IsLater(t, s)
  <2>1. ~(t > s.last)
    BY <1>3 DEF IsLater
  <2>2. L # {}
    BY <2>1 DEF TellsLast
  <2>3. PICK k \in L : /\ \A m \in L : st[m[1]] <= st[k[1]]
                       /\ s.last = st[k[1]]
                       /\ s.status = IF drillPassed(res[k[1]][k[2]]) THEN "PASS" ELSE "FAIL"
    BY <2>2 DEF TellsLast
  <2>4. \A m \in L \cup {l} : st[m[1]] <= st[k[1]]
    BY <2>1, <2>3
  <2>5. n.last = st[k[1]] /\ n.status = s.status
    BY <1>1, <1>3, <2>3
  <2> QED BY <2>3, <2>4, <2>5 DEF TellsLast, n
<1> QED BY <1>2, <1>3

\* BuildEvidenceReport, inner loop: a report tells of one result more.
LEMMA ResultAdded ==
  ASSUME TypeOK, results \in Recordable,
         NEW runs, NEW rep \in ReportOf(runs), NEW p \in Process, NEW i \in DOMAIN results[p],
         NEW L, L \subseteq AllLines(results), IsFiniteSet(L), <<p, i>> \notin L,
         Tells(rep, L, results, stamp)
  PROVE  Tells(AddResult(rep, p, results[p][i]), L \cup {<<p, i>>}, results, stamp)
<1> DEFINE r == results[p][i]
           l == <<p, i>>
           K == L \cup {l}
           a == AddResult(rep, p, r)
           ok == drillPassed(r)
<1>1. r \in EngineResult /\ r.name \in Drill
  <2>1. r \in EngineResult
    BY EvidenceAssumption
  <2> QED BY <2>1 DEF EngineResult
<1>2. r = results[l[1]][l[2]] /\ stamp[l[1]] = stamp[p] /\ l[1] = p /\ l[2] = i
  OBVIOUS
<1>3. /\ a.total = rep.total + 1
      /\ a.passed = rep.passed + (IF ok THEN 1 ELSE 0)
      /\ a.failed = rep.failed + (IF ok THEN 0 ELSE 1)
      /\ \A d \in Drill \ {r.name} : a.drills[d] = rep.drills[d]
      /\ a.drills[r.name] = Summarize(rep.drills[r.name], stamp[p], ok)
      /\ rep.rows \subseteq a.rows
      /\ ~ok => \E row \in a.rows : row[1] = p /\ row[2] = r.name
  <2> HIDE DEF r
  <2> QED BY <1>1, AddResultFields
<1>4. rep.total \in Nat /\ rep.passed \in Nat /\ rep.failed \in Nat
      /\ \A d \in Drill : rep.drills[d] \in Summary
  BY DEF ReportOf
<1> HIDE DEF r, l, a, K, ok
<1>5. SumsUp(a.total, a.passed, a.failed, K, results)
  <2>1. SumsUp(rep.total, rep.passed, rep.failed, L, results)
    BY DEF Tells
  <2>2. l \notin L
    BY DEF l
  <2>3. IF ok THEN SumsUp(rep.total + 1, rep.passed + 1, rep.failed, K, results)
              ELSE SumsUp(rep.total + 1, rep.passed, rep.failed + 1, K, results)
    BY <1>2, <1>4, <2>1, <2>2, SumsUpMore DEF K, ok
  <2>4. CASE ok
    BY <1>3, <1>4, <2>3, <2>4
  <2>5. CASE ~ok
    BY <1>3, <1>4, <2>3, <2>5
  <2> QED BY <2>4, <2>5
<1>6. \A m \in K : m[1] \in Process /\ stamp[m[1]] \in Nat
  <2>1. \A m \in K : m[1] \in Process
    BY DEF K, l, AllLines
  <2> QED BY <2>1, StoreAssumption DEF TypeOK, Time
<1>7. ASSUME NEW d \in Drill
      PROVE  /\ SumsUp(a.drills[d].runs, a.drills[d].pass, a.drills[d].fail,
                       OfDrill(K, d, results), results)
             /\ TellsLast(a.drills[d].last, a.drills[d].status,
                          OfDrill(K, d, results), results, stamp)
  <2> DEFINE M == OfDrill(L, d, results)
             s == rep.drills[d]
             n == a.drills[d]
  <2>1. /\ SumsUp(s.runs, s.pass, s.fail, M, results)
        /\ TellsLast(s.last, s.status, M, results, stamp)
    BY DEF Tells
  <2>2. M \subseteq L /\ IsFiniteSet(M) /\ l \notin M
    <3>1. M \in SUBSET L /\ l \notin L
      BY DEF OfDrill, l
    <3> QED BY <3>1, FS_Subset
  <2>3. CASE r.name # d
    <3>1. OfDrill(K, d, results) = M /\ n = s
      BY <1>2, <1>3, <2>3 DEF OfDrill, K
    <3> QED BY <2>1, <3>1
  <2>4. CASE r.name = d
    <3>1. OfDrill(K, d, results) = M \cup {l}
      BY <1>2, <2>4 DEF OfDrill, K
    <3>2. n = Summarize(s, stamp[l[1]], drillPassed(results[l[1]][l[2]]))
      BY <1>2, <1>3, <2>4 DEF ok
    <3>3. s \in Summary
      BY <1>4
    <3>4. \A m \in M \cup {l} : stamp[m[1]] \in Nat
      BY <1>6, <2>2 DEF K
    <3> HIDE DEF M, s, n
    <3>5. TellsLast(n.last, n.status, M \cup {l}, results, stamp)
      BY <2>1, <3>2, <3>3, <3>4, TellsLastMore
    <3>6. /\ n.runs = s.runs + 1
          /\ n.pass = s.pass + (IF ok THEN 1 ELSE 0)
          /\ n.fail = s.fail + (IF ok THEN 0 ELSE 1)
      BY <1>2, <3>2 DEF Summarize, ok
    <3>7. s.runs \in Nat /\ s.pass \in Nat /\ s.fail \in Nat
      BY <3>3 DEF Summary
    <3>8. SumsUp(n.runs, n.pass, n.fail, M \cup {l}, results)
      <4>1. IF ok THEN SumsUp(s.runs + 1, s.pass + 1, s.fail, M \cup {l}, results)
                  ELSE SumsUp(s.runs + 1, s.pass, s.fail + 1, M \cup {l}, results)
        BY <1>2, <2>1, <2>2, <3>7, SumsUpMore DEF ok
      <4>2. CASE ok
        BY <3>6, <3>7, <4>1, <4>2
      <4>3. CASE ~ok
        BY <3>6, <3>7, <4>1, <4>3
      <4> QED BY <4>2, <4>3
    <3> QED BY <3>1, <3>5, <3>8 DEF n
  <2> QED BY <2>3, <2>4
<1>8. \A m \in Failed(K, results) :
        \E row \in a.rows : row[1] = m[1] /\ row[2] = results[m[1]][m[2]].name
  <2> SUFFICES ASSUME NEW m \in Failed(K, results)
               PROVE  \E row \in a.rows : row[1] = m[1] /\ row[2] = results[m[1]][m[2]].name
    OBVIOUS
  <2>1. CASE m = l
    <3>1. ~ok
      BY <1>2, <2>1 DEF Failed, ok
    <3> QED BY <1>2, <1>3, <2>1, <3>1
  <2>2. CASE m # l
    <3>1. m \in Failed(L, results)
      BY <2>2 DEF Failed, K
    <3> QED BY <1>3, <3>1 DEF Tells
  <2> QED BY <2>1, <2>2
<1> QED BY <1>5, <1>7, <1>8 DEF Tells, a, K, l, r

\* The states of the loop over the results of a run.
IsAddRun(f, rep, p) ==
  /\ f[0] = rep
  /\ \A i \in 1..Len(results[p]) : f[i] = AddResult(f[i - 1], p, results[p][i])
  /\ AddRun(rep, p) = f[Len(results[p])]

LEMMA AddRunLoops ==
  ASSUME NEW S, NEW rep \in S, NEW p, Len(results[p]) \in Nat,
         \A x \in S, i \in 1..Len(results[p]) : AddResult(x, p, results[p][i]) \in S
  PROVE  \E f \in [0..Len(results[p]) -> S] : IsAddRun(f, rep, p)
<1> DEFINE n == Len(results[p])
           Eq(f) == f = [i \in 0..n |-> IF i = 0 THEN rep ELSE AddResult(f[i - 1], p, results[p][i])]
           g == CHOOSE f : Eq(f)
           F == [i \in 1..n |-> [x \in S |-> AddResult(x, p, results[p][i])]]
<1>1. AddRun(rep, p) = g[n]
  BY DEF AddRun
<1>2. F \in [1..n -> [S -> S]]
  OBVIOUS
<1>3. PICK f \in [0..n -> S] : IsLoop(f, n, rep, F)
  <2>1. n \in Nat
    OBVIOUS
  <2> HIDE DEF F, n
  <2> QED BY <1>2, <2>1, Loop
<1>4. \A i \in 1..n : f[i] = AddResult(f[i - 1], p, results[p][i])
  <2> SUFFICES ASSUME NEW i \in 1..n PROVE f[i] = AddResult(f[i - 1], p, results[p][i])
    OBVIOUS
  <2>1. f[i - 1] \in S
    OBVIOUS
  <2> QED BY <1>3, <2>1 DEF IsLoop
<1>5. Eq(f)
  BY <1>3, <1>4 DEF IsLoop
<1>6. Eq(g)
  <2> HIDE DEF Eq
  <2> QED BY <1>5
<1>7. \A i \in 0..n : g[i] = IF i = 0 THEN rep ELSE AddResult(g[i - 1], p, results[p][i])
  <2> HIDE DEF g
  <2> QED BY <1>6
<1> HIDE DEF g, Eq
<1>8. 0..n \subseteq {i \in 0..n : g[i] \in S}
  <2> DEFINE T == {i \in 0..n : g[i] \in S}
  <2>1. 0 \in T
    BY <1>7
  <2>2. ASSUME NEW i \in 0..n, i \in T, i < n PROVE i + 1 \in T
    <3>1. i + 1 \in 0..n /\ i + 1 # 0 /\ (i + 1) - 1 = i /\ g[i] \in S /\ i + 1 \in 1..n
      BY <2>2
    <3> QED BY <1>7, <3>1
  <2>3. n \in Nat
    OBVIOUS
  <2> HIDE DEF T, n
  <2>4. 0..n \subseteq T
    BY <2>1, <2>2, <2>3, UpTo
  <2> QED BY <2>4 DEF T
<1>9. g \in [0..n -> S]
  BY <1>6, <1>8 DEF Eq
<1>10. g[0] = rep /\ \A i \in 1..n : g[i] = AddResult(g[i - 1], p, results[p][i])
  BY <1>7
<1> QED BY <1>1, <1>9, <1>10 DEF IsAddRun

LinesOfRun(p, res) == {<<p, i>> : i \in DOMAIN res[p]}

\* ... and, when it has ended, of one run more.
LEMMA RunAdded ==
  ASSUME TypeOK, results \in Recordable,
         NEW runs, NEW rep \in ReportOf(runs), NEW p \in Process,
         NEW L, L \subseteq AllLines(results), IsFiniteSet(L), \A l \in L : l[1] # p,
         Tells(rep, L, results, stamp)
  PROVE  /\ AddRun(rep, p) \in ReportOf(runs)
         /\ IsFiniteSet(L \cup LinesOfRun(p, results))
         /\ Tells(AddRun(rep, p), L \cup LinesOfRun(p, results), results, stamp)
<1> DEFINE n == Len(results[p])
           S == ReportOf(runs)
           K(i) == L \cup {<<p, j>> : j \in 1..i}
<1>1. n \in Nat /\ DOMAIN results[p] = 1..n /\ \A i \in 1..n : results[p][i] \in EngineResult
  BY EvidenceAssumption
<1>2. \A x \in S, i \in 1..n : AddResult(x, p, results[p][i]) \in S
  BY <1>1, AddResultFields
<1>3. PICK g \in [0..n -> S] :
        /\ g[0] = rep
        /\ \A i \in 1..n : g[i] = AddResult(g[i - 1], p, results[p][i])
        /\ AddRun(rep, p) = g[n]
  <2>1. rep \in S
    OBVIOUS
  <2> HIDE DEF S
  <2>2. PICK g \in [0..n -> S] : IsAddRun(g, rep, p)
    BY <1>1, <1>2, <2>1, AddRunLoops
  <2> QED BY <2>2 DEF IsAddRun
<1> DEFINE T == {i \in 0..n : IsFiniteSet(K(i)) /\ Tells(g[i], K(i), results, stamp)}
<1>4. 0 \in T
  <2>1. K(0) = L
    OBVIOUS
  <2>2. 0 \in 0..n
    BY <1>1
  <2> HIDE DEF K
  <2> QED BY <1>3, <2>1, <2>2
<1>5. ASSUME NEW i \in 0..n, i \in T, i < n PROVE i + 1 \in T
  <2>1. i + 1 \in 1..n /\ i + 1 \in 0..n /\ (i + 1) - 1 = i /\ g[i] \in S
    BY <1>1, <1>5
  <2>2. K(i + 1) = K(i) \cup {<<p, i + 1>>}
    <3>1. 1..(i + 1) = (1..i) \cup {i + 1}
      BY <2>1
    <3> QED BY <3>1
  <2>3. <<p, i + 1>> \notin K(i)
    BY <2>1
  <2>4. K(i) \subseteq AllLines(results)
    <3>1. \A j \in 1..i : <<p, j>> \in AllLines(results)
      BY <1>1, <2>1 DEF AllLines
    <3> QED BY <3>1
  <2>5. IsFiniteSet(K(i)) /\ Tells(g[i], K(i), results, stamp)
    BY <1>5
  <2>6. g[i + 1] = AddResult(g[i], p, results[p][i + 1])
    BY <1>3, <2>1
  <2> DEFINE M == K(i)
             N == K(i + 1)
             l == <<p, i + 1>>
  <2> HIDE DEF K, M, N, l
  <2>7. Tells(g[i + 1], N, results, stamp)
    <3>1. i + 1 \in DOMAIN results[p]
      BY <1>1, <2>1
    <3>2. Tells(AddResult(g[i], p, results[p][i + 1]), M \cup {<<p, i + 1>>}, results, stamp)
      BY <2>1, <2>3, <2>4, <2>5, <3>1, ResultAdded DEF M
    <3> QED BY <2>2, <2>6, <3>2 DEF M, N
  <2>8. IsFiniteSet(N)
    <3>1. N = M \cup {l} /\ IsFiniteSet(M)
      BY <2>2, <2>5 DEF M, N, l
    <3> QED BY <3>1, FS_AddElement
  <2> QED BY <2>1, <2>7, <2>8 DEF N
<1>6. n \in T
  <2> HIDE DEF T, n
  <2>1. 0..n \subseteq T
    BY <1>1, <1>4, <1>5, UpTo
  <2> QED BY <1>1, <2>1
<1>7. K(n) = L \cup LinesOfRun(p, results)
  BY <1>1 DEF LinesOfRun
<1>8. g[n] \in S
  BY <1>1
<1> HIDE DEF K, n
<1> QED BY <1>3, <1>6, <1>7, <1>8

LEMMA AddRunType ==
  ASSUME TypeOK, results \in Recordable,
         NEW runs, NEW rep \in ReportOf(runs), NEW p \in Process
  PROVE  AddRun(rep, p) \in ReportOf(runs)
<1> DEFINE n == Len(results[p])
           S == ReportOf(runs)
<1>1. n \in Nat /\ \A i \in 1..n : results[p][i] \in EngineResult
  BY EvidenceAssumption
<1>2. \A x \in S, i \in 1..n : AddResult(x, p, results[p][i]) \in S
  BY <1>1, AddResultFields
<1>3. rep \in S
  OBVIOUS
<1> HIDE DEF S
<1>4. PICK g \in [0..n -> S] : IsAddRun(g, rep, p)
  BY <1>1, <1>2, <1>3, AddRunLoops
<1>5. g[n] \in S
  BY <1>1
<1> QED BY <1>4, <1>5 DEF IsAddRun, S

\* The states of the loop over the runs.
IsBuild(f, runs) ==
  /\ f[0] = NewReport(runs)
  /\ \A k \in 1..Len(runs) : f[k] = AddRun(f[k - 1], runs[k].run)
  /\ BuildEvidenceReport(runs) = f[Len(runs)]

LEMMA BuildLoops ==
  ASSUME NEW S, NEW runs, Len(runs) \in Nat, NewReport(runs) \in S,
         \A x \in S, k \in 1..Len(runs) : AddRun(x, runs[k].run) \in S
  PROVE  \E f \in [0..Len(runs) -> S] : IsBuild(f, runs)
<1> DEFINE n == Len(runs)
           rep == NewReport(runs)
           Eq(f) == f = [k \in 0..n |-> IF k = 0 THEN rep ELSE AddRun(f[k - 1], runs[k].run)]
           g == CHOOSE f : Eq(f)
           F == [k \in 1..n |-> [x \in S |-> AddRun(x, runs[k].run)]]
<1>1. BuildEvidenceReport(runs) = g[n]
  BY DEF BuildEvidenceReport
<1>2. F \in [1..n -> [S -> S]]
  OBVIOUS
<1>3. PICK f \in [0..n -> S] : IsLoop(f, n, rep, F)
  <2>1. n \in Nat /\ rep \in S
    OBVIOUS
  <2> HIDE DEF F, n, rep
  <2> QED BY <1>2, <2>1, Loop
<1>4. \A k \in 1..n : f[k] = AddRun(f[k - 1], runs[k].run)
  <2> SUFFICES ASSUME NEW k \in 1..n PROVE f[k] = AddRun(f[k - 1], runs[k].run)
    OBVIOUS
  <2>1. f[k - 1] \in S
    OBVIOUS
  <2> QED BY <1>3, <2>1 DEF IsLoop
<1>5. Eq(f)
  BY <1>3, <1>4 DEF IsLoop
<1>6. Eq(g)
  <2> HIDE DEF Eq
  <2> QED BY <1>5
<1>7. \A k \in 0..n : g[k] = IF k = 0 THEN rep ELSE AddRun(g[k - 1], runs[k].run)
  <2> HIDE DEF g
  <2> QED BY <1>6
<1> HIDE DEF g, Eq
<1>8. 0..n \subseteq {k \in 0..n : g[k] \in S}
  <2> DEFINE T == {k \in 0..n : g[k] \in S}
  <2>1. 0 \in T
    BY <1>7
  <2>2. ASSUME NEW k \in 0..n, k \in T, k < n PROVE k + 1 \in T
    <3>1. k + 1 \in 0..n /\ k + 1 # 0 /\ (k + 1) - 1 = k /\ g[k] \in S /\ k + 1 \in 1..n
      BY <2>2
    <3> QED BY <1>7, <3>1
  <2>3. n \in Nat
    OBVIOUS
  <2> HIDE DEF T, n
  <2>4. 0..n \subseteq T
    BY <2>1, <2>2, <2>3, UpTo
  <2> QED BY <2>4 DEF T
<1>9. g \in [0..n -> S]
  BY <1>6, <1>8 DEF Eq
<1>10. g[0] = rep /\ \A k \in 1..n : g[k] = AddRun(g[k - 1], runs[k].run)
  BY <1>7
<1> QED BY <1>1, <1>9, <1>10 DEF IsBuild

\* An empty report tells of nothing.
LEMMA NewReportTells ==
  ASSUME NEW runs
  PROVE  NewReport(runs) \in ReportOf(runs) /\ Tells(NewReport(runs), {}, results, stamp)
<1> DEFINE rep == NewReport(runs)
           drills == [d \in Drill |-> NoSummary]
<1>1. rep = [total |-> 0, passed |-> 0, failed |-> 0, drills |-> drills, rows |-> {},
             runs |-> runs]
  <2>1. rep = [NoReport EXCEPT !.drills = drills, !.runs = runs]
    BY DEF NewReport
  <2> HIDE DEF rep, drills
  <2> QED BY <2>1 DEF NoReport
<1> HIDE DEF rep
<1>2. NoSummary \in Summary
  BY DEF NoSummary, Summary
<1>3. rep \in ReportOf(runs)
  <2>1. rep.drills \in [Drill -> Summary] /\ rep.rows = {}
    BY <1>1, <1>2
  <2> QED BY <1>1, <2>1 DEF ReportOf
<1>4. SumsUp(0, 0, 0, {}, results)
  <2>1. Failed({}, results) = {}
    BY DEF Failed
  <2> QED BY <2>1, FS_EmptySet DEF SumsUp
<1>5. \A d \in Drill : /\ rep.drills[d] = NoSummary
                       /\ OfDrill({}, d, results) = {}
  BY <1>1 DEF OfDrill
<1>6. NoSummary.runs = 0 /\ NoSummary.pass = 0 /\ NoSummary.fail = 0 /\ NoSummary.last = -1
  BY DEF NoSummary
<1>7. TellsLast(NoSummary.last, NoSummary.status, {}, results, stamp)
  BY <1>6 DEF TellsLast
<1>8. Failed({}, results) = {}
  BY DEF Failed
<1>9. rep.total = 0 /\ rep.passed = 0 /\ rep.failed = 0
  BY <1>1
<1> QED BY <1>3, <1>4, <1>5, <1>6, <1>7, <1>8, <1>9 DEF Tells, rep

LinesOfRuns(runs, n, res) == UNION {LinesOfRun(runs[k].run, res) : k \in 1..n}

\* BuildEvidenceReport, outer loop: a report tells of all lines of its runs.
LEMMA BuildTells ==
  ASSUME TypeOK, results \in Recordable, NEW runs, Len(runs) \in Nat,
         \A k \in 1..Len(runs) : runs[k].run \in Process,
         \A j, k \in 1..Len(runs) : runs[j].run = runs[k].run => j = k
  PROVE  /\ BuildEvidenceReport(runs) \in ReportOf(runs)
         /\ IsFiniteSet(LinesOfRuns(runs, Len(runs), results))
         /\ Tells(BuildEvidenceReport(runs), LinesOfRuns(runs, Len(runs), results), results, stamp)
<1> DEFINE n == Len(runs)
           S == ReportOf(runs)
           K(k) == LinesOfRuns(runs, k, results)
<1>1. NewReport(runs) \in S /\ Tells(NewReport(runs), {}, results, stamp)
  BY NewReportTells
<1>2. PICK g \in [0..n -> S] : IsBuild(g, runs)
  <2>1. \A x \in S, k \in 1..n : AddRun(x, runs[k].run) \in S
    BY AddRunType
  <2> HIDE DEF S
  <2> QED BY <1>1, <2>1, BuildLoops
<1> DEFINE T == {k \in 0..n : IsFiniteSet(K(k)) /\ Tells(g[k], K(k), results, stamp)}
<1>3. 0 \in T
  <2>1. K(0) = {}
    BY DEF LinesOfRuns
  <2>2. IsFiniteSet({})
    BY FS_EmptySet
  <2>3. g[0] = NewReport(runs) /\ 0 \in 0..n
    BY <1>2 DEF IsBuild
  <2> HIDE DEF K
  <2> QED BY <1>1, <2>1, <2>2, <2>3
<1>4. ASSUME NEW k \in 0..n, k \in T, k < n PROVE k + 1 \in T
  <2> DEFINE p == runs[k + 1].run
             M == K(k)
             N == K(k + 1)
  <2>1. k + 1 \in 1..n /\ k + 1 \in 0..n /\ (k + 1) - 1 = k /\ g[k] \in S
    BY <1>4
  <2>2. N = M \cup LinesOfRun(p, results)
    <3>1. 1..(k + 1) = (1..k) \cup {k + 1}
      BY <2>1
    <3> QED BY <3>1 DEF LinesOfRuns
  <2>3. \A l \in M : l[1] # p
    <3>1. \A j \in 1..k : j \in 1..n /\ j # k + 1
      BY <2>1
    <3>2. \A l \in M : \E j \in 1..k : l[1] = runs[j].run
      BY DEF LinesOfRuns, LinesOfRun
    <3> QED BY <2>1, <3>1, <3>2
  <2>4. M \subseteq AllLines(results)
    <3>1. \A j \in 1..k : j \in 1..n
      BY <2>1
    <3> QED BY <3>1 DEF LinesOfRuns, LinesOfRun, AllLines
  <2>5. IsFiniteSet(M) /\ Tells(g[k], M, results, stamp)
    BY <1>4
  <2>6. g[k + 1] = AddRun(g[k], p) /\ p \in Process
    BY <1>2, <2>1 DEF IsBuild
  <2> HIDE DEF K, M, N, p
  <2>7. /\ IsFiniteSet(M \cup LinesOfRun(p, results))
        /\ Tells(AddRun(g[k], p), M \cup LinesOfRun(p, results), results, stamp)
    BY <2>1, <2>3, <2>4, <2>5, <2>6, RunAdded
  <2> QED BY <2>1, <2>2, <2>6, <2>7 DEF N
<1>5. n \in T
  <2> HIDE DEF T, n
  <2>1. 0..n \subseteq T
    BY <1>3, <1>4, UpTo DEF n
  <2>2. n \in 0..n
    BY DEF n
  <2> QED BY <2>1, <2>2
<1>6. BuildEvidenceReport(runs) = g[n] /\ g[n] \in S
  BY <1>2 DEF IsBuild
<1> HIDE DEF n
<1>7. IsFiniteSet(K(n)) /\ Tells(g[n], K(n), results, stamp)
  BY <1>5
<1> HIDE DEF K
<1> QED BY <1>6, <1>7 DEF n, K

-----------------------------------------------------------------------------
(* The inductive invariant of a reader                                     *)

\* What the command listed is still there.
KnownInv ==
  command \in {"listing", "reported", "no history"} =>
    known \subseteq {e.name : e \in history}

NoneInv == command = "no history" => Due = {}

ReportInv ==
  command = "reported" =>
    /\ report \in ReportOf(report.runs)
    /\ Counted # {} /\ Len(report.runs) = Cardinality(Counted)
    /\ Due \subseteq Counted /\ Counted \subseteq {e.run : e \in history}
    /\ IsFiniteSet(Lines) /\ Tells(report, Lines, results, stamp)

ShownInv ==
  command = "shown" =>
    \E p \in Process :
      /\ p = Head(report.runs).run
      /\ report.rows = {<<p, r.name, "FAIL">> :
                          r \in {x \in Range(results[p]) : ~drillPassed(x)}}

ReaderInv ==
  /\ results \in Recordable /\ since \in Nat
  /\ KnownInv /\ NoneInv /\ ReportInv /\ ShownInv

-----------------------------------------------------------------------------
\* The entries that LoadHistory keeps are entries of the history, one for a run.
LEMMA LoadedEntries ==
  ASSUME IInv, NEW listing, listing \subseteq DirEntry, NEW bad
  PROVE  LET S == Loaded(listing, bad)
         IN /\ \A e \in S : e.run \in Process /\ \E h \in history : h.run = e.run
            /\ \A e, f \in S : e.run = f.run => e = f
            /\ IsFiniteSet(S)
<1> DEFINE S == Loaded(listing, bad)
           entry(h) == [name |-> h.name, run |-> h.run, ext |-> ".json", content |-> h.content]
<1>1. \A e \in S : \E h \in history : e = entry(h)
  <2> SUFFICES ASSUME NEW e \in S PROVE \E h \in history : e = entry(h)
    OBVIOUS
  <2>1. e \in DirEntry /\ e.ext = ".json"
    BY DEF Loaded, IsJSON
  <2>2. \/ \E h \in history : e = entry(h)
        \/ \E p \in Process : e = [name |-> <<stamp[p], attempt[p]>>, run |-> p,
                                   ext |-> ".tmp", content |-> tmp[p]]
    BY <2>1 DEF DirEntry
  <2> HIDE DEF entry
  <2> QED BY <2>1, <2>2
<1>2. \A h \in history : h.run \in Process
  BY DEF IInv, TypeOK, Entry
<1>3. \A e \in S : e.run \in Process /\ \E h \in history : h.run = e.run
  BY <1>1, <1>2
<1>4. \A e, f \in S : e.run = f.run => e = f
  <2> SUFFICES ASSUME NEW e \in S, NEW f \in S, e.run = f.run PROVE e = f
    OBVIOUS
  <2>1. PICK h \in history : e = entry(h)
    BY <1>1
  <2>2. PICK k \in history : f = entry(k)
    BY <1>1
  <2>3. h.run = k.run
    BY <2>1, <2>2
  <2>4. h = k
    BY <2>3 DEF IInv, Recorded
  <2> QED BY <2>1, <2>2, <2>4
<1> HIDE DEF S
<1>5. IsFiniteSet(S)
  <2> DEFINE f == [e \in S |-> e.run]
  <2>1. f \in Injection(S, Process)
    BY <1>3, <1>4 DEF Injection, IsInjective
  <2>2. IsFiniteSet(Process)
    BY EvidenceAssumption
  <2> HIDE DEF f
  <2> QED BY <2>1, <2>2, FS_Injection
<1> QED BY <1>3, <1>4, <1>5 DEF S

\* An order of a finite set is a sequence of all its elements, each once.
LEMMA OrderOfSet ==
  ASSUME NEW S, IsFiniteSet(S), NEW s \in SetToSeqs(S)
  PROVE  /\ Len(s) \in Nat /\ DOMAIN s = 1..Len(s) /\ Len(s) = Cardinality(S)
         /\ Range(s) = S
         /\ \A j, k \in 1..Len(s) : s[j] = s[k] => j = k
<1> DEFINE c == Cardinality(S)
<1>1. c \in Nat
  BY FS_CardinalityType
<1>2. s \in [1..c -> S] /\ \A j, k \in 1..c : j # k => s[j] # s[k]
  BY DEF SetToSeqs
<1>3. Len(s) = c
  BY <1>1, <1>2
<1>4. s \in Injection(1..c, S)
  BY <1>2 DEF Injection, IsInjective
<1>5. Cardinality(1..c) = c
  BY <1>1, FS_Interval
<1>6. s \in Surjection(1..c, S)
  BY <1>4, <1>5, FS_Injection
<1>7. Range(s) = S
  BY <1>2, <1>6 DEF Surjection, Range
<1> QED BY <1>1, <1>2, <1>3, <1>7

\* Everything that is due is loaded.
LEMMA DueIsLoaded ==
  ASSUME IInv, since \in Nat, NEW listing, Listing(listing), NEW bad,
         NEW f \in history, f.name \in known, since <= stamp[f.run],
         f.run \notin {e.run : e \in bad}
  PROVE  f.run \in {e.run : e \in Loaded(listing, bad)}
<1> DEFINE e == [name |-> f.name, run |-> f.run, ext |-> ".json", content |-> f.content]
<1>1. e \in DirEntry
  BY DEF DirEntry
<1>2. e \in listing
  BY <1>1 DEF Listing
<1>3. e \notin bad
  OBVIOUS
<1>4. e.content # "torn"
  BY DEF IInv, Flushed
<1>5. ~(stamp[f.run] < since)
  <2>1. stamp[f.run] \in Int
    BY StoreAssumption DEF IInv, TypeOK, Entry, Time
  <2> QED BY <2>1
<1>6. e \in Loaded(listing, bad)
  BY <1>2, <1>3, <1>4, <1>5 DEF Loaded, IsJSON
<1> QED BY <1>6

-----------------------------------------------------------------------------
(* A report                                                                *)

\* The report of what was loaded tells of it, in whatever order it was sorted.
LEMMA ReportedRuns ==
  ASSUME IInv, results \in Recordable, NEW S, IsFiniteSet(S),
         \A e \in S : e.run \in Process, \A e, f \in S : e.run = f.run => e = f,
         NEW runs \in SetToSeqs(S)
  PROVE  LET rep == BuildEvidenceReport(runs)
             counted == {e.run : e \in S}
             lines == UNION {{<<p, i>> : i \in DOMAIN results[p]} : p \in counted}
         IN /\ rep \in ReportOf(runs)
            /\ {e.run : e \in Range(runs)} = counted
            /\ Len(runs) = Cardinality(counted)
            /\ IsFiniteSet(lines) /\ Tells(rep, lines, results, stamp)
<1> DEFINE n == Len(runs)
           counted == {e.run : e \in S}
           lines == UNION {{<<p, i>> : i \in DOMAIN results[p]} : p \in counted}
<1>1. /\ n \in Nat /\ DOMAIN runs = 1..n /\ n = Cardinality(S) /\ Range(runs) = S
      /\ \A j, k \in 1..n : runs[j] = runs[k] => j = k
  BY OrderOfSet
<1>2. \A k \in 1..n : runs[k] \in S
  BY <1>1 DEF Range
<1>3. \A e \in S : \E k \in 1..n : e = runs[k]
  BY <1>1 DEF Range
<1>4. /\ \A k \in 1..n : runs[k].run \in Process
      /\ \A j, k \in 1..n : runs[j].run = runs[k].run => j = k
  BY <1>1, <1>2
<1>5. Len(runs) = Cardinality(counted)
  <2> DEFINE f == [e \in S |-> e.run]
  <2>1. f \in Injection(S, counted) /\ f \in Surjection(S, counted)
    BY DEF Injection, Surjection, IsInjective
  <2> HIDE DEF f, counted
  <2>2. Cardinality(counted) = Cardinality(S)
    BY <2>1, FS_Surjection
  <2> QED BY <1>1, <2>2
<1>6. lines = LinesOfRuns(runs, n, results)
  <2>1. counted = {runs[k].run : k \in 1..n}
    BY <1>2, <1>3
  <2> HIDE DEF counted, n
  <2> QED BY <2>1 DEF LinesOfRuns, LinesOfRun
<1>7. /\ BuildEvidenceReport(runs) \in ReportOf(runs)
      /\ IsFiniteSet(LinesOfRuns(runs, n, results))
      /\ Tells(BuildEvidenceReport(runs), LinesOfRuns(runs, n, results), results, stamp)
  BY <1>1, <1>4, BuildTells DEF IInv
<1> HIDE DEF n
<1> QED BY <1>1, <1>5, <1>6, <1>7 DEF n

LEMMA ReportHistoryKeeps ==
  ASSUME IInv, ReaderInv, ReportHistory, UNCHANGED <<vars, results>>
  PROVE  ReaderInv'
<1>1. /\ command = "listing" /\ since' = since /\ known' = known
      /\ results' = results /\ history' = history /\ stamp' = stamp
  BY DEF ReportHistory, vars
<1>2. PICK listing \in SUBSET DirEntry :
        /\ Listing(listing)
        /\ \E bad \in SUBSET {e \in listing : IsJSON(e)} : \E runs \in LoadHistory(listing, bad) :
             /\ unread' = {e.run : e \in bad}
             /\ \/ runs = <<>> /\ command' = "no history" /\ report' = NoReport
                \/ runs # <<>> /\ command' = "reported" /\ report' = BuildEvidenceReport(runs)
  BY DEF ReportHistory
<1>2a. PICK bad \in SUBSET {e \in listing : IsJSON(e)} :
         \E runs \in LoadHistory(listing, bad) :
           /\ unread' = {e.run : e \in bad}
           /\ \/ runs = <<>> /\ command' = "no history" /\ report' = NoReport
              \/ runs # <<>> /\ command' = "reported" /\ report' = BuildEvidenceReport(runs)
  BY <1>2
<1>3. PICK runs \in LoadHistory(listing, bad) :
        /\ unread' = {e.run : e \in bad}
        /\ \/ runs = <<>> /\ command' = "no history" /\ report' = NoReport
           \/ runs # <<>> /\ command' = "reported" /\ report' = BuildEvidenceReport(runs)
  BY <1>2a
<1> DEFINE S == Loaded(listing, bad)
           counted == {e.run : e \in S}
<1>4. runs \in SetToSeqs(S)
  BY DEF LoadHistory
<1>5. /\ \A e \in S : e.run \in Process /\ \E h \in history : h.run = e.run
      /\ \A e, f \in S : e.run = f.run => e = f
      /\ IsFiniteSet(S)
  BY LoadedEntries
<1>6. Due' \subseteq counted
  <2> SUFFICES ASSUME NEW p \in Due' PROVE p \in counted
    OBVIOUS
  <2>1. PICK f \in history : f.name \in known /\ since <= stamp[f.run] /\ f.run = p
    BY <1>1 DEF Due
  <2>2. f.run \notin {e.run : e \in bad}
    BY <1>3, <2>1 DEF Due
  <2>3. since \in Nat
    BY DEF ReaderInv
  <2> QED BY <1>2, <2>1, <2>2, <2>3, DueIsLoaded
<1>7. counted \subseteq {e.run : e \in history}
  BY <1>5
<1>8. Len(runs) \in Nat /\ Range(runs) = S /\ DOMAIN runs = 1..Len(runs)
  BY <1>4, <1>5, OrderOfSet
<1> HIDE DEF S
<1>9. known \subseteq {e.name : e \in history} /\ results \in Recordable /\ since \in Nat
  BY <1>1 DEF ReaderInv, KnownInv
<1>10. CASE runs = <<>>
  <2>1. S = {}
    BY <1>8, <1>10 DEF Range
  <2>2. Due' = {}
    BY <1>6, <2>1
  <2>3. command' = "no history"
    BY <1>3, <1>10
  <2> QED BY <1>1, <1>9, <2>2, <2>3 DEF ReaderInv, KnownInv, NoneInv, ReportInv, ShownInv
<1>11. CASE runs # <<>>
  <2>1. command' = "reported" /\ report' = BuildEvidenceReport(runs)
    BY <1>3, <1>11
  <2>2. LET lines == UNION {{<<p, i>> : i \in DOMAIN results[p]} : p \in counted}
        IN /\ report' \in ReportOf(runs)
           /\ {e.run : e \in Range(runs)} = counted
           /\ Len(runs) = Cardinality(counted)
           /\ IsFiniteSet(lines) /\ Tells(report', lines, results, stamp)
    BY <1>4, <1>5, <1>9, <2>1, ReportedRuns
  <2>3. report'.runs = runs
    BY <2>2 DEF ReportOf
  <2>4. Counted' = counted
    BY <2>2, <2>3 DEF Counted
  <2>5. Lines' = UNION {{<<p, i>> : i \in DOMAIN results[p]} : p \in counted}
    BY <1>1, <2>4 DEF Lines
  <2>6. counted # {}
    <3>1. 1 \in DOMAIN runs
      BY <1>8, <1>11
    <3>2. runs[1] \in S
      BY <1>8, <3>1 DEF Range
    <3> QED BY <3>2
  <2> HIDE DEF counted
  <2>7. ReportInv'
    BY <1>1, <1>6, <1>7, <2>2, <2>3, <2>4, <2>5, <2>6 DEF ReportInv
  <2> QED BY <1>1, <1>9, <2>1, <2>7 DEF ReaderInv, KnownInv, NoneInv, ShownInv
<1> QED BY <1>10, <1>11

-----------------------------------------------------------------------------
(* The other steps                                                         *)

LEMMA ReadKeeps ==
  ASSUME IInv, ReaderInv, Read
  PROVE  ReaderInv'
<1>1. UNCHANGED <<vars, results>>
  BY DEF Read
<1>2. results' \in Recordable /\ history' = history /\ stamp' = stamp
  BY <1>1 DEF vars, ReaderInv
<1>3. CASE OpenHistory
  <2>1. /\ command' = "listing" /\ since' \in 0..clock
        /\ known' = {e.name : e \in history}
    BY <1>3 DEF OpenHistory
  <2>2. since' \in Nat
    BY <2>1
  <2> QED BY <1>2, <2>1, <2>2 DEF ReaderInv, KnownInv, NoneInv, ReportInv, ShownInv
<1>4. CASE ReportHistory
  BY <1>1, <1>4, ReportHistoryKeeps
<1>5. CASE ListFails \/ NoPreviousRun
  <2>1. command' \in {"failed", "no run"} /\ since' = since
    BY <1>5 DEF ListFails, NoPreviousRun
  <2> QED BY <1>2, <2>1 DEF ReaderInv, KnownInv, NoneInv, ReportInv, ShownInv
<1>6. CASE ShowStatus
  <2>1. /\ command' = "shown" /\ since' = since /\ last.run # NoFile
        /\ report' = [NoReport EXCEPT !.runs = <<last>>,
                         !.rows = {<<last.run, r.name, "FAIL">> :
                                     r \in {x \in Range(results[last.run]) : ShownFailed(x)}}]
    BY <1>6 DEF ShowStatus
  <2>2. last.run \in Process
    BY <2>1 DEF IInv, TypeOK, File
  <2> DEFINE failed == {x \in Range(results[last.run]) : ShownFailed(x)}
  <2>3. failed = {x \in Range(results'[last.run]) : ~drillPassed(x)}
    BY <1>1 DEF ShownFailed, drillPassed
  <2>4. report'.runs = <<last>> /\ report'.rows = {<<last.run, r.name, "FAIL">> : r \in failed}
    <3> HIDE DEF failed
    <3> DEFINE rows == {<<last.run, r.name, "FAIL">> : r \in failed}
    <3>1. report' = [NoReport EXCEPT !.runs = <<last>>, !.rows = rows]
      BY <2>1 DEF failed
    <3> HIDE DEF rows
    <3> QED BY <3>1 DEF NoReport, rows
  <2>5. Head(report'.runs) = last
    BY <2>4
  <2>6. ShownInv'
    BY <2>2, <2>3, <2>4, <2>5 DEF ShownInv
  <2> QED BY <1>2, <2>1, <2>6 DEF ReaderInv, KnownInv, NoneInv, ReportInv
<1> QED BY <1>3, <1>4, <1>5, <1>6 DEF Read

\* A step of the store that only adds to the history.
Grows ==
  /\ history \subseteq history'
  /\ \A e \in history' \ history, f \in history : e.name # f.name
  /\ \A e \in history : stamp'[e.run] = stamp[e.run]
  /\ \A p \in Process : stamp'[p] \in Nat

\* Entries that come later have no part in a report.
LEMMA TellsFrame ==
  ASSUME NEW rep, NEW L, NEW res, NEW st, NEW new, \A l \in L : new[l[1]] = st[l[1]],
         Tells(rep, L, res, st)
  PROVE  Tells(rep, L, res, new)
<1>1. ASSUME NEW d \in Drill
      PROVE  TellsLast(rep.drills[d].last, rep.drills[d].status, OfDrill(L, d, res), res, new)
  <2>1. TellsLast(rep.drills[d].last, rep.drills[d].status, OfDrill(L, d, res), res, st)
    BY DEF Tells
  <2>2. \A l \in OfDrill(L, d, res) : new[l[1]] = st[l[1]]
    BY DEF OfDrill
  <2> HIDE DEF OfDrill
  <2> QED BY <2>1, <2>2 DEF TellsLast
<1> QED BY <1>1 DEF Tells

LEMMA GrowthKeeps ==
  ASSUME IInv, ReaderInv, Grows, UNCHANGED <<results, reader>>
  PROVE  ReaderInv'
<1>1. /\ results' = results /\ command' = command /\ since' = since /\ known' = known
      /\ unread' = unread /\ report' = report
  BY DEF reader
<1>2. history \subseteq history'
  BY DEF Grows
<1>3. KnownInv'
  BY <1>1, <1>2 DEF ReaderInv, KnownInv
<1>4. command \in {"reported", "no history"} => Due' \subseteq Due
  <2> SUFFICES ASSUME command \in {"reported", "no history"}, NEW p \in Due' PROVE p \in Due
    OBVIOUS
  <2>1. PICK e \in history' : e.name \in known /\ since <= stamp'[e.run] /\ e.run = p
                              /\ p \notin unread
    BY <1>1 DEF Due
  <2>2. PICK f \in history : f.name = e.name
    BY <2>1 DEF ReaderInv, KnownInv
  <2>3. e \in history
    BY <2>2 DEF Grows
  <2>4. stamp'[e.run] = stamp[e.run]
    BY <2>3 DEF Grows
  <2> QED BY <2>1, <2>3, <2>4 DEF Due
<1>5. NoneInv'
  BY <1>1, <1>4 DEF ReaderInv, NoneInv
<1>6. ReportInv'
  <2> SUFFICES ASSUME command = "reported" PROVE ReportInv'
    BY <1>1 DEF ReportInv
  <2>1. /\ report \in ReportOf(report.runs)
        /\ Counted # {} /\ Len(report.runs) = Cardinality(Counted)
        /\ Due \subseteq Counted /\ Counted \subseteq {e.run : e \in history}
        /\ IsFiniteSet(Lines) /\ Tells(report, Lines, results, stamp)
    BY DEF ReaderInv, ReportInv
  <2>2. Counted' = Counted
    BY <1>1 DEF Counted
  <2>3. Lines' = Lines
    BY <1>1, <2>2 DEF Lines
  <2>4. \A l \in Lines : stamp'[l[1]] = stamp[l[1]]
    <3>1. \A l \in Lines : l[1] \in Counted
      BY DEF Lines
    <3> QED BY <2>1, <3>1 DEF Grows
  <2>5. Tells(report, Lines, results, stamp')
    BY <2>1, <2>4, TellsFrame
  <2> HIDE DEF Counted
  <2>6. Due' \subseteq Counted'
    BY <1>4, <2>1, <2>2
  <2>7. Counted' \subseteq {e.run : e \in history'}
    BY <1>2, <2>1, <2>2
  <2> QED BY <1>1, <2>1, <2>2, <2>3, <2>5, <2>6, <2>7 DEF ReportInv
<1>7. ShownInv'
  BY <1>1 DEF ReaderInv, ShownInv
<1> QED BY <1>1, <1>3, <1>5, <1>6, <1>7 DEF ReaderInv

LEMMA WriteGrows ==
  ASSUME IInv, Write, IInv'
  PROVE  Grows
<1>1. \A p \in Process : stamp'[p] \in Nat
  BY StoreAssumption DEF IInv, TypeOK, Time
<1>2. CASE Tick \/ \E p \in Process : Kill(p)
  BY <1>1, <1>2 DEF Tick, Kill, Grows, historyDir, process
<1>3. ASSUME NEW p \in Process, SaveState(p) PROVE Grows
  <2>1. CASE Stamp(p)
    <3>1. history' = history /\ stamp' = [stamp EXCEPT ![p] = clock] /\ pc[p] = "start"
      BY <2>1 DEF Stamp, historyDir
    <3>2. \A e \in history : e.run # p
      BY <3>1 DEF IInv, Recorded
    <3> QED BY <1>1, <3>1, <3>2 DEF Grows, IInv, TypeOK
  <2>2. CASE Link(p)
    <3>1. /\ ~Taken(<<stamp[p], attempt[p]>>) /\ stamp' = stamp
          /\ history' = history \cup {[name |-> <<stamp[p], attempt[p]>>, run |-> p,
                                       content |-> tmp[p]]}
      BY <2>2 DEF Link, LinkNew, process
    <3> QED BY <1>1, <3>1 DEF Grows, Taken
  <2>3. CASE \/ CreateTemp(p) \/ WriteAndSync(p) \/ Rename(p) \/ SyncLastDir(p) \/ SaveFails(p)
            \/ LinkExists(p) \/ AppendFails(p) \/ SyncHistoryDir(p)
    <3>1. history' = history /\ stamp' = stamp
      BY <2>3 DEF CreateTemp, WriteAndSync, Rename, SyncLastDir, SaveFails, LinkExists,
           AppendFails, SyncHistoryDir, process, historyDir
    <3> QED BY <1>1, <3>1 DEF Grows
  <2> QED BY <1>3, <2>1, <2>2, <2>3 DEF SaveState
<1> QED BY <1>2, <1>3 DEF Write

LEMMA ReaderStep == IInv /\ IInv' /\ ReaderInv /\ [EvidenceNext]_evidence => ReaderInv'
<1> SUFFICES ASSUME IInv, IInv', ReaderInv, [EvidenceNext]_evidence PROVE ReaderInv'
  OBVIOUS
<1>1. CASE Read
  BY <1>1, ReadKeeps
<1>2. CASE Write
  BY <1>2, WriteGrows, GrowthKeeps DEF Write
<1>3. CASE LosePower
  <2>1. command' \in {"idle", "dead"} /\ results' = results /\ since' = since
    BY <1>3 DEF LosePower
  <2> QED BY <2>1 DEF ReaderInv, KnownInv, NoneInv, ReportInv, ShownInv
<1>4. CASE UNCHANGED evidence
  <2>1. Grows /\ UNCHANGED <<results, reader>>
    <3>1. \A p \in Process : stamp'[p] \in Nat
      BY StoreAssumption DEF IInv, TypeOK, Time
    <3>2. history' = history /\ stamp' = stamp /\ UNCHANGED <<results, reader>>
      BY <1>4 DEF evidence, vars
    <3> QED BY <3>1, <3>2 DEF Grows
  <2> QED BY <2>1, GrowthKeeps
<1> QED BY <1>1, <1>2, <1>3, <1>4 DEF EvidenceNext

LEMMA ReaderInit == EvidenceInit => ReaderInv
  BY DEF EvidenceInit, ReaderInv, KnownInv, NoneInv, ReportInv, ShownInv

\* The invariant of a reader holds, beside any number of processes that save.
THEOREM ReaderInvariant == EvidenceSpec => []ReaderInv
BY ReaderInit, ReaderStep, ReadersInvariant, PTL DEF EvidenceSpec

-----------------------------------------------------------------------------
(* The promises of the reports                                             *)

\* Lines and rows of the report, in the words of Tells.
LEMMA LinesAsTold ==
  /\ FailedLines = Failed(Lines, results)
  /\ \A d \in Drill : /\ LinesOf(d) = OfDrill(Lines, d, results)
                      /\ LinesOf(d) \cap FailedLines = Failed(OfDrill(Lines, d, results), results)
<1>1. FailedLines = Failed(Lines, results)
  BY DEF FailedLines, Failed
<1>2. ASSUME NEW d \in Drill PROVE LinesOf(d) = OfDrill(Lines, d, results)
  BY DEF LinesOf, OfDrill
<1>3. ASSUME NEW d \in Drill
      PROVE  LinesOf(d) \cap FailedLines = Failed(OfDrill(Lines, d, results), results)
  BY DEF LinesOf, OfDrill, FailedLines, Failed
<1> QED BY <1>1, <1>2, <1>3

LEMMA ReportTold == ReaderInv => ReportIsTheHistory
<1> SUFFICES ASSUME ReaderInv PROVE ReportIsTheHistory
  OBVIOUS
<1>1. command = "no history" => Due = {}
  BY DEF ReaderInv, NoneInv
<1>2. ASSUME command = "reported"
      PROVE  /\ Due \subseteq Counted
             /\ Counted \subseteq {e.run : e \in history}
             /\ Len(report.runs) = Cardinality(Counted)
             /\ report.total = Cardinality(Lines)
             /\ report.failed = Cardinality(FailedLines)
             /\ report.passed + report.failed = report.total
             /\ \A d \in Drill :
                  /\ report.drills[d].runs = Cardinality(LinesOf(d))
                  /\ report.drills[d].fail = Cardinality(LinesOf(d) \cap FailedLines)
                  /\ report.drills[d].pass + report.drills[d].fail = report.drills[d].runs
  <2>1. ReportInv
    BY DEF ReaderInv
  <2>2. /\ Due \subseteq Counted /\ Counted \subseteq {e.run : e \in history}
        /\ Len(report.runs) = Cardinality(Counted)
        /\ Tells(report, Lines, results, stamp)
    BY <1>2, <2>1 DEF ReportInv
  <2> HIDE DEF Counted, Due, Lines
  <2>3. /\ report.total = Cardinality(Lines)
        /\ report.failed = Cardinality(Failed(Lines, results))
        /\ report.passed + report.failed = report.total
    BY <2>2 DEF Tells, SumsUp
  <2>4. \A d \in Drill :
          LET told == OfDrill(Lines, d, results)
          IN /\ report.drills[d].runs = Cardinality(told)
             /\ report.drills[d].fail = Cardinality(Failed(told, results))
             /\ report.drills[d].pass + report.drills[d].fail = report.drills[d].runs
    BY <2>2 DEF Tells, SumsUp
  <2> QED BY <2>2, <2>3, <2>4, LinesAsTold
<1> QED BY <1>1, <1>2 DEF ReportIsTheHistory

LEMMA StatusTold == ReaderInv => LastStatusIsLatest
<1> SUFFICES ASSUME ReaderInv, command = "reported", NEW d \in Drill, LinesOf(d) # {}
             PROVE  \E l \in LinesOf(d) :
                      /\ \A m \in LinesOf(d) : stamp[m[1]] <= stamp[l[1]]
                      /\ report.drills[d].last = stamp[l[1]]
                      /\ report.drills[d].status = IF l \in FailedLines THEN "FAIL" ELSE "PASS"
  BY DEF LastStatusIsLatest
<1>1. TellsLast(report.drills[d].last, report.drills[d].status, LinesOf(d), results, stamp)
  BY LinesAsTold DEF ReaderInv, ReportInv, Tells
<1>2. PICK l \in LinesOf(d) :
        /\ \A m \in LinesOf(d) : stamp[m[1]] <= stamp[l[1]]
        /\ report.drills[d].last = stamp[l[1]]
        /\ report.drills[d].status = IF drillPassed(results[l[1]][l[2]]) THEN "PASS" ELSE "FAIL"
  BY <1>1 DEF TellsLast
<1>3. l \in FailedLines <=> ~drillPassed(results[l[1]][l[2]])
  BY DEF FailedLines, LinesOf
<1> QED BY <1>2, <1>3

LEMMA FailuresTold == IInv /\ ReaderInv => FailuresAreExplained
<1> SUFFICES ASSUME IInv, ReaderInv PROVE FailuresAreExplained
  OBVIOUS
<1>1. ASSUME command = "reported"
      PROVE  /\ \A l \in FailedLines :
                  \E row \in report.rows : row[1] = l[1] /\ row[2] = results[l[1]][l[2]].name
             /\ FailureDetails(report) # "FAIL"
             /\ HistoryPresent(report) = "PASS"
             /\ AllDrillsPassed(report) = "PASS" =>
                  \A p \in Due : \A i \in DOMAIN results[p] : drillPassed(results[p][i])
  <2>1. /\ Counted # {} /\ Due \subseteq Counted
        /\ Counted \subseteq {e.run : e \in history}
        /\ IsFiniteSet(Lines) /\ Tells(report, Lines, results, stamp)
        /\ report \in ReportOf(report.runs)
    BY <1>1 DEF ReaderInv, ReportInv
  <2>2. /\ report.total = Cardinality(Lines)
        /\ report.failed = Cardinality(FailedLines)
        /\ \A l \in FailedLines :
             \E row \in report.rows : row[1] = l[1] /\ row[2] = results[l[1]][l[2]].name
    BY <2>1, LinesAsTold DEF Tells, SumsUp
  <2>3. report.total \in Nat /\ report.failed \in Nat
    BY <2>1 DEF ReportOf
  <2>4. IsFiniteSet(FailedLines)
    <3>1. FailedLines \in SUBSET Lines
      BY DEF FailedLines
    <3> QED BY <2>1, <3>1, FS_Subset
  <2>5. report.total # 0
    <3>1. PICK p \in Counted : TRUE
      BY <2>1
    <3>2. p \in Process
      BY <2>1 DEF IInv, TypeOK, Entry
    <3>3. results[p] \in Seq(EngineResult) /\ results[p] # <<>>
      BY <3>2, EvidenceAssumption DEF ReaderInv
    <3>4. 1 \in DOMAIN results[p]
      BY <3>3
    <3>5. <<p, 1>> \in Lines
      BY <3>4 DEF Lines
    <3> QED BY <2>1, <2>2, <3>5, FS_EmptySet
  <2>6. report.failed > 0 => report.rows # {}
    <3>1. report.failed > 0 => FailedLines # {}
      BY <2>2, FS_EmptySet
    <3> QED BY <2>2, <3>1
  <2>7. FailureDetails(report) # "FAIL"
    BY <2>6 DEF FailureDetails
  <2>8. HistoryPresent(report) = "PASS"
    BY <2>5 DEF HistoryPresent
  <2>9. ASSUME AllDrillsPassed(report) = "PASS", NEW p \in Due, NEW i \in DOMAIN results[p]
        PROVE  drillPassed(results[p][i])
    <3>1. ~(report.total > 0 /\ report.failed > 0)
      <4> SUFFICES ASSUME report.total > 0, report.failed > 0
                   PROVE  AllDrillsPassed(report) # "PASS"
        BY <2>9
      <4> QED BY <2>3 DEF AllDrillsPassed
    <3>2. report.failed = 0
      BY <2>3, <2>5, <3>1
    <3>3. FailedLines = {}
      BY <2>2, <2>4, <3>2, FS_EmptySet
    <3>4. <<p, i>> \in Lines
      BY <2>1 DEF Lines
    <3> QED BY <3>3, <3>4 DEF FailedLines
  <2> QED BY <2>2, <2>7, <2>8, <2>9
<1>2. command = "shown" =>
        \E p \in Process :
          /\ p = Head(report.runs).run
          /\ report.rows = {<<p, r.name, "FAIL">> :
                              r \in {x \in Range(results[p]) : ~drillPassed(x)}}
  BY DEF ReaderInv, ShownInv
<1> QED BY <1>1, <1>2 DEF FailuresAreExplained

\* LoadHistory and BuildEvidenceReport: the totals of a report, over all and for
\* each drill, are those of the runs it counts, and these are all that were due,
\* each once, whatever other processes add while the directory is read.
THEOREM ReportsAreTheHistory == EvidenceSpec => []ReportIsTheHistory
BY ReportTold, ReaderInvariant, PTL

\* BuildEvidenceReport, run.Timestamp.After(ds.LastRun): the status of a drill is
\* the verdict of one of its latest counted runs.
THEOREM StatusIsTheLatest == EvidenceSpec => []LastStatusIsLatest
BY StatusTold, ReaderInvariant, PTL

\* failureEvidenceForRun, evaluateEvidenceChecks and statusCmd: a failure by the
\* exit code of its run has a line in the report, which does not call all passed,
\* and is a failure for status.
THEOREM FailuresHaveAReason == EvidenceSpec => []FailuresAreExplained
BY FailuresTold, ReaderInvariant, ReadersInvariant, PTL
=============================================================================
