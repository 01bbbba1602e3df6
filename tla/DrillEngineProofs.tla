--------------------------- MODULE DrillEngineProofs ---------------------------
(***************************************************************************)
(* What the drill engine guarantees for every list of drills, with either  *)
(* way of running them, with and without --no-cleanup and under every set  *)
(* of faults.  The argument rests on IInv: what each step of executeDrill  *)
(* may assume of its drill (StepInv, OutcomeInv), and how far the slice    *)
(* has been filled (SliceInv).  At the end, the steps of the engine        *)
(* acquire, release, conclude or report in the drill lifecycle, or leave   *)
(* it as it is.                                                            *)
(***************************************************************************)
EXTENDS DrillRefinement, TLAPS

Holding == {"preflight", "restoring", "validating", "cleaning", "destroying"}
Ended == {"returning", "done"}

\* What holds of drill d while executeDrill is at each step.
StepInv(d) ==
  /\ result[d].name = d
  /\ pc[d] \in {"waiting", "creating"} =>
       result[d] = FreshResult(d) /\ target[d] = "none"
  /\ pc[d] \in Holding => /\ target[d] = "live"
                          /\ result[d].TargetID
                          /\ result[d].CleanupSkipped = NoCleanup
  /\ pc[d] = "validating" => data[d] = "restored"
  /\ pc[d] = "destroying" => ~NoCleanup
  /\ pc[d] \in {"preflight", "restoring", "validating"} =>
       ~result[d].ValidationPassed
  /\ cleanupExpired[d] => "slow" \in Faults

\* The deadline of d has passed, and its create call is all that failed.
CutOff(d) ==
  expired[d] /\ result[d].Error = {"create"} /\ ~result[d].TargetID

\* What the result of drill d says about its target and data.
OutcomeInv(d) ==
  /\ result[d].ValidationPassed =>
       /\ data[d] = "restored"
       /\ \A c \in ChecksOf[d] : result[d].Checks[c] = "match"
  /\ result[d].CleanupSkipped =>
       NoCleanup /\ result[d].TargetID /\ target[d] = "live"
  /\ pc[d] \in Ended =>
       /\ target[d] = "none" => result[d].Error # {}
       /\ target[d] \in {"asked", "live"} =>
            /\ result[d].Error # {} \/ result[d].CleanupSkipped
            /\ NoCleanup =>
                 result[d].CleanupSkipped \/ "create" \in result[d].Error
            /\ ~NoCleanup => \/ \E f \in {"orphan", "destroy", "slow"} : f \in Faults
                            \/ CutOff(d)

\* How far results is filled.  Run appends, so its slice ends with the last
\* finished drill and at most one more has started; RunParallel has all slots
\* from the start, and those of unfinished drills hold the zero value.
SliceInv ==
  /\ \A d \in Drills : pc[d] = "done" => d \in DOMAIN results
                                         /\ results[d] = result[d]
  /\ \A d \in Drills : Returns(d) => pc[d] = "done"
  /\ Parallel => Len(results) = N
  /\ ~Parallel => /\ Len(results) <= N
                  /\ \A d \in Drills : /\ pc[d] = "done" <=> d <= Len(results)
                                       /\ pc[d] # "waiting" => d <= Len(results) + 1

RunInv == run # "drills" => \A d \in Drills : pc[d] = "done"

IInv ==
  /\ TypeOK
  /\ \A d \in Drills : StepInv(d)
  /\ \A d \in Drills : OutcomeInv(d)
  /\ SliceInv
  /\ RunInv

-----------------------------------------------------------------------------
LEMMA InitEstablishes == Init => IInv
<1> SUFFICES ASSUME Init PROVE IInv
  OBVIOUS
<1> USE EngineAssumption DEF Init, Drills
<1>1. \A n \in 0..N : FreshResult(n) \in Result
  BY DEF FreshResult, Result
<1>2. results \in Seq(Result) /\ (Parallel => Len(results) = N)
  <2>1. CASE Parallel
    BY <1>1, <2>1 DEF ZeroResult
  <2>2. CASE ~Parallel
    BY <2>2
  <2> QED BY <2>1, <2>2
<1>3. TypeOK
  BY <1>1, <1>2 DEF TypeOK, Steps
<1>4. ASSUME NEW d \in Drills PROVE StepInv(d) /\ OutcomeInv(d)
  BY DEF StepInv, OutcomeInv, FreshResult, Holding, Ended
<1>5. SliceInv
  <2>1. ASSUME NEW d \in Drills PROVE ~Returns(d)
    BY DEF Returns, ZeroResult, FreshResult
  <2> QED BY <1>2, <2>1 DEF SliceInv
<1>6. RunInv
  BY DEF RunInv
<1> QED BY <1>3, <1>4, <1>5, <1>6 DEF IInv

-----------------------------------------------------------------------------
(* Steps of one drill between its start and its return.                    *)

\* A step of d that neither starts nor returns it and moves nothing else.
LocalTo(d) ==
  /\ pc[d] \notin {"waiting", "done"} /\ pc'[d] \notin {"waiting", "done"}
  /\ \A e \in Drills \ {d} :
       /\ pc'[e] = pc[e] /\ result'[e] = result[e]
       /\ target'[e] = target[e] /\ data'[e] = data[e]
       /\ expired'[e] = expired[e] /\ cleanupExpired'[e] = cleanupExpired[e]
  /\ UNCHANGED <<results, run>>

\* Such a step preserves IInv if it preserves what IInv says of d.
LEMMA LocalStep ==
  ASSUME NEW d \in Drills, IInv, LocalTo(d),
         TypeOK', StepInv(d)', OutcomeInv(d)'
  PROVE  IInv'
<1> USE EngineAssumption
<1>1. ASSUME NEW e \in Drills PROVE StepInv(e)' /\ OutcomeInv(e)'
  <2>1. CASE e = d
    BY <2>1
  <2>2. CASE e # d
    BY <2>2 DEF IInv, LocalTo, StepInv, OutcomeInv, CutOff
  <2> QED BY <2>1, <2>2
<1>2. \A e \in Drills : /\ pc'[e] = "done" <=> pc[e] = "done"
                        /\ pc'[e] = "waiting" <=> pc[e] = "waiting"
  BY DEF LocalTo
<1>3. \A e \in Drills : pc[e] = "done" => result'[e] = result[e]
  BY DEF LocalTo
<1>4. SliceInv'
  BY <1>2, <1>3 DEF IInv, SliceInv, Returns, LocalTo
<1>5. RunInv'
  BY <1>2 DEF IInv, RunInv, LocalTo
<1> QED BY <1>1, <1>4, <1>5 DEF IInv

\* Recording an error, the first one or a joined one, changes nothing else in
\* the result and leaves no result without an error.
SameButError(d) ==
  /\ result' \in [Drills -> Result]
  /\ \A e \in Drills \ {d} : result'[e] = result[e]
  /\ result'[d].Error # {}
  /\ result'[d].name = result[d].name
  /\ result'[d].TargetID = result[d].TargetID
  /\ result'[d].CleanupSkipped = result[d].CleanupSkipped
  /\ result'[d].Checks = result[d].Checks
  /\ result'[d].ValidationPassed = result[d].ValidationPassed

LEMMA SetTarget ==
  ASSUME NEW r \in Result, NEW skipped \in BOOLEAN
  PROVE  [r EXCEPT !.TargetID = TRUE, !.CleanupSkipped = skipped] \in Result
BY DEF Result

LEMMA SetVerdict ==
  ASSUME NEW r \in Result, NEW passed \in BOOLEAN,
         NEW checks \in [Check -> Readings \cup {"none"}]
  PROVE  [r EXCEPT !.Checks = checks, !.ValidationPassed = passed] \in Result
BY DEF Result

LEMMA FailEffect ==
  ASSUME NEW d \in Drills, NEW kind \in ErrorKinds,
         result \in [Drills -> Result], Fail(d, kind)
  PROVE  SameButError(d) /\ result'[d].Error = {kind}
<1>1. result'[d] = [result[d] EXCEPT !.Error = {kind}]
  BY DEF Fail
<1>2. result'[d] \in Result
  BY <1>1 DEF Result
<1> QED BY <1>1, <1>2 DEF Fail, SameButError, Result

\* Evaluating the checks leaves the errors and the target's name alone.
Judged(d, readings) ==
  /\ result' \in [Drills -> Result]
  /\ \A e \in Drills \ {d} : result'[e] = result[e]
  /\ \A c \in ChecksOf[d] : result'[d].Checks[c] = readings[c]
  /\ result'[d].ValidationPassed = \A c \in ChecksOf[d] : readings[c] = "match"
  /\ result'[d].name = result[d].name
  /\ result'[d].Error = result[d].Error
  /\ result'[d].TargetID = result[d].TargetID
  /\ result'[d].CleanupSkipped = result[d].CleanupSkipped

LEMMA JudgeEffect ==
  ASSUME NEW d \in Drills, NEW readings \in [ChecksOf[d] -> Readings],
         result \in [Drills -> Result], Judge(d, readings)
  PROVE  Judged(d, readings)
<1> DEFINE checks == [c \in Check |-> IF c \in ChecksOf[d] THEN readings[c] ELSE "none"]
           passed == \A c \in ChecksOf[d] : readings[c] = "match"
<1>1. /\ checks \in [Check -> Readings \cup {"none"}] /\ passed \in BOOLEAN
      /\ \A c \in ChecksOf[d] : checks[c] = readings[c]
  BY EngineAssumption
<1> HIDE DEF checks
<1>2. result' = [result EXCEPT ![d].Checks = checks, ![d].ValidationPassed = passed]
  BY DEF Judge, checks
<1> HIDE DEF passed
<1>3. /\ result'[d] = [result[d] EXCEPT !.Checks = checks, !.ValidationPassed = passed]
      /\ \A e \in Drills \ {d} : result'[e] = result[e]
      /\ result' = [result EXCEPT ![d] = result'[d]]
  BY <1>2
<1>4. /\ result'[d] \in Result
      /\ result'[d].Checks = checks /\ result'[d].ValidationPassed = passed
      /\ result'[d].name = result[d].name /\ result'[d].Error = result[d].Error
      /\ result'[d].TargetID = result[d].TargetID
      /\ result'[d].CleanupSkipped = result[d].CleanupSkipped
  <2>1. result[d] \in Result
    OBVIOUS
  <2>2. [result[d] EXCEPT !.Checks = checks, !.ValidationPassed = passed] \in Result
    BY <1>1, <2>1, SetVerdict, Zenon
  <2>3. result'[d] \in Result
    BY <1>3, <2>2, Zenon
  <2> QED BY <1>1, <1>3, <2>1, <2>3 DEF Result
<1> QED BY <1>1, <1>3, <1>4 DEF Judged, passed

LEMMA JoinErrorEffect ==
  ASSUME NEW d \in Drills, NEW kind \in ErrorKinds,
         result \in [Drills -> Result], JoinError(d, kind)
  PROVE  SameButError(d) /\ result[d].Error \subseteq result'[d].Error
<1>1. result'[d] = [result[d] EXCEPT !.Error = @ \cup {kind}]
  BY DEF JoinError
<1>2. result'[d] \in Result
  BY <1>1 DEF Result
<1> QED BY <1>1, <1>2 DEF JoinError, SameButError, Result

\* The deadline changes nothing the invariant relates.
LEMMA ExpirePreserves ==
  ASSUME NEW d \in Drills, IInv, Expire(d)
  PROVE  IInv'
<1> USE EngineAssumption DEF Expire, Timed, Goto, context
<1>1. TypeOK /\ StepInv(d) /\ OutcomeInv(d)
  BY DEF IInv
<1>2. TypeOK'
  BY <1>1 DEF TypeOK, Steps
<1>3. StepInv(d)'
  BY <1>1, <1>2 DEF TypeOK, StepInv, FreshResult, Holding, Steps
<1>4. OutcomeInv(d)'
  BY <1>1, <1>2 DEF TypeOK, StepInv, OutcomeInv, CutOff, Holding, Ended
<1>5. LocalTo(d)
  BY <1>1 DEF TypeOK, LocalTo, Steps
<1> QED BY <1>2, <1>3, <1>4, <1>5, LocalStep

\* The target and its name appear together.
LEMMA CreateSucceedsPreserves ==
  ASSUME NEW d \in Drills, IInv, CreateSucceeds(d)
  PROVE  IInv'
<1> USE EngineAssumption DEF CreateSucceeds, NameTarget, Goto, context
<1>1. TypeOK /\ StepInv(d) /\ OutcomeInv(d)
  BY DEF IInv
<1>2. /\ result'[d] = [result[d] EXCEPT !.TargetID = TRUE, !.CleanupSkipped = NoCleanup]
      /\ result'[d] \in Result
      /\ result' \in [Drills -> Result]
      /\ \A e \in Drills \ {d} : result'[e] = result[e]
  <2>1. /\ result'[d] = [result[d] EXCEPT !.TargetID = TRUE, !.CleanupSkipped = NoCleanup]
        /\ \A e \in Drills \ {d} : result'[e] = result[e]
        /\ result' = [result EXCEPT ![d] = result'[d]]
    BY <1>1 DEF TypeOK
  <2>2. result'[d] \in Result
    BY <1>1, <2>1, SetTarget DEF TypeOK
  <2> QED BY <1>1, <2>1, <2>2 DEF TypeOK
<1>3. TypeOK'
  BY <1>1, <1>2 DEF TypeOK, Steps
<1>4. StepInv(d)'
  BY <1>1, <1>2 DEF TypeOK, StepInv, FreshResult, Holding, Result, Steps
<1>5. OutcomeInv(d)'
  BY <1>1, <1>2 DEF TypeOK, StepInv, OutcomeInv, CutOff, FreshResult, Holding, Ended, Result
<1>6. LocalTo(d)
  BY <1>1, <1>2 DEF TypeOK, LocalTo, Steps
<1> QED BY <1>3, <1>4, <1>5, <1>6, LocalStep

\* A failed create leaves an error beside whatever it left behind.
LEMMA CreateErrorPreserves ==
  ASSUME NEW d \in Drills, IInv, CreateError(d)
  PROVE  IInv'
<1> USE EngineAssumption DEF CreateError, Goto, context
<1>1. TypeOK /\ StepInv(d) /\ OutcomeInv(d)
  BY DEF IInv
<1>2. SameButError(d) /\ result'[d].Error = {"create"}
  BY <1>1, FailEffect DEF TypeOK, ErrorKinds
<1>3. TypeOK'
  BY <1>1, <1>2 DEF TypeOK, SameButError, Steps
<1>4. StepInv(d)'
  BY <1>1, <1>2 DEF TypeOK, StepInv, SameButError, FreshResult, Holding, Steps
<1>5. OutcomeInv(d)'
  BY <1>1, <1>2 DEF TypeOK, StepInv, OutcomeInv, CutOff, SameButError, FreshResult, Holding, Ended
<1>6. LocalTo(d)
  BY <1>1, <1>2 DEF TypeOK, LocalTo, SameButError, Steps
<1> QED BY <1>3, <1>4, <1>5, <1>6, LocalStep

LEMMA PreflightSucceedsPreserves ==
  ASSUME NEW d \in Drills, IInv, PreflightSucceeds(d)
  PROVE  IInv'
<1> USE EngineAssumption DEF PreflightSucceeds, Goto, context
<1>1. TypeOK /\ StepInv(d) /\ OutcomeInv(d)
  BY DEF IInv
<1>2. TypeOK'
  BY <1>1 DEF TypeOK, Steps
<1>3. StepInv(d)'
  BY <1>1, <1>2 DEF TypeOK, StepInv, FreshResult, Holding, Steps
<1>4. OutcomeInv(d)'
  BY <1>1, <1>2 DEF TypeOK, StepInv, OutcomeInv, CutOff, Holding, Ended
<1>5. LocalTo(d)
  BY <1>1 DEF TypeOK, LocalTo, Steps
<1> QED BY <1>2, <1>3, <1>4, <1>5, LocalStep

\* The data is in the target before validation may begin.
LEMMA RestoreSucceedsPreserves ==
  ASSUME NEW d \in Drills, IInv, RestoreSucceeds(d)
  PROVE  IInv'
<1> USE EngineAssumption DEF RestoreSucceeds, Goto, context
<1>1. TypeOK /\ StepInv(d) /\ OutcomeInv(d)
  BY DEF IInv
<1>2. TypeOK'
  BY <1>1 DEF TypeOK, Steps
<1>3. StepInv(d)'
  BY <1>1, <1>2 DEF TypeOK, StepInv, FreshResult, Holding, Steps
<1>4. OutcomeInv(d)'
  BY <1>1, <1>2 DEF TypeOK, StepInv, OutcomeInv, CutOff, Holding, Ended
<1>5. LocalTo(d)
  BY <1>1 DEF TypeOK, LocalTo, Steps
<1> QED BY <1>2, <1>3, <1>4, <1>5, LocalStep

\* A positive verdict is given on restored data only.
LEMMA ValidateSucceedsPreserves ==
  ASSUME NEW d \in Drills, IInv, ValidateSucceeds(d)
  PROVE  IInv'
<1> USE EngineAssumption DEF ValidateSucceeds, Goto, context
<1>1. TypeOK /\ StepInv(d) /\ OutcomeInv(d)
  BY DEF IInv
<1>2. PICK readings \in [ChecksOf[d] -> Readings] : Judged(d, readings)
  BY <1>1, JudgeEffect DEF TypeOK
<1>3. TypeOK'
  BY <1>1, <1>2 DEF Judged, TypeOK, Steps
<1>4. StepInv(d)'
  BY <1>1, <1>2 DEF Judged, TypeOK, StepInv, FreshResult, Holding, Result, Steps
<1>5. OutcomeInv(d)'
  BY <1>1, <1>2 DEF Judged, TypeOK, StepInv, OutcomeInv, CutOff, FreshResult, Holding, Ended, Result
<1>6. LocalTo(d)
  BY <1>1, <1>2 DEF Judged, TypeOK, LocalTo, Steps
<1> QED BY <1>3, <1>4, <1>5, <1>6, LocalStep

\* An error return leaves the verdict negative and the target live.
LEMMA PhaseErrorPreserves ==
  ASSUME NEW d \in Drills, IInv, PhaseError(d)
  PROVE  IInv'
<1> USE EngineAssumption DEF PhaseError, Phases, ErrorOf, Goto, context
<1>1. TypeOK /\ StepInv(d) /\ OutcomeInv(d)
  BY DEF IInv
<1>2. SameButError(d)
  <2>1. ErrorOf(pc[d]) \in ErrorKinds
    BY DEF ErrorOf, ErrorKinds
  <2> QED BY <1>1, <2>1, FailEffect DEF TypeOK
<1>3. TypeOK'
  BY <1>1, <1>2 DEF TypeOK, SameButError, Steps
<1>4. StepInv(d)'
  BY <1>1, <1>2 DEF TypeOK, StepInv, SameButError, FreshResult, Holding, Steps
<1>5. OutcomeInv(d)'
  BY <1>1, <1>2 DEF TypeOK, StepInv, OutcomeInv, CutOff, SameButError, FreshResult, Holding, Ended
<1>6. LocalTo(d)
  BY <1>1, <1>2 DEF TypeOK, LocalTo, SameButError, Steps
<1> QED BY <1>3, <1>4, <1>5, <1>6, LocalStep

\* Only --no-cleanup returns here, and then CleanupSkipped is set.
LEMMA CleanUpPreserves ==
  ASSUME NEW d \in Drills, IInv, CleanUp(d)
  PROVE  IInv'
<1> USE EngineAssumption DEF CleanUp, Goto, context
<1>1. TypeOK /\ StepInv(d) /\ OutcomeInv(d)
  BY DEF IInv
<1>2. SameButError(d) \/ result' = result
  BY <1>1, JoinErrorEffect DEF TypeOK, ErrorKinds
<1>3. TypeOK'
  BY <1>1, <1>2 DEF TypeOK, SameButError, Steps
<1>4. StepInv(d)'
  BY <1>1, <1>2 DEF TypeOK, StepInv, SameButError, Holding, Steps
<1>5. OutcomeInv(d)'
  <2>1. /\ result'[d].ValidationPassed =>
             data[d] = "restored" /\ \A c \in ChecksOf[d] : result'[d].Checks[c] = "match"
        /\ result'[d].CleanupSkipped =>
             NoCleanup /\ result'[d].TargetID /\ target[d] = "live"
    BY <1>1, <1>2 DEF OutcomeInv, SameButError
  <2>2. CASE NoCleanup
    BY <1>1, <2>1, <2>2 DEF TypeOK, StepInv, OutcomeInv, CutOff, Holding, Ended
  <2>3. CASE ~NoCleanup
    BY <1>1, <2>1, <2>3 DEF TypeOK, OutcomeInv, Ended
  <2> QED BY <2>2, <2>3
<1>6. LocalTo(d)
  BY <1>1, <1>2 DEF TypeOK, LocalTo, SameButError, Steps
<1> QED BY <1>3, <1>4, <1>5, <1>6, LocalStep

LEMMA ExpireCleanupPreserves ==
  ASSUME NEW d \in Drills, IInv, ExpireCleanup(d)
  PROVE  IInv'
<1> USE EngineAssumption DEF ExpireCleanup, Goto, context
<1>1. TypeOK /\ StepInv(d) /\ OutcomeInv(d)
  BY DEF IInv
<1>2. TypeOK'
  BY <1>1 DEF TypeOK, Steps
<1>3. StepInv(d)'
  BY <1>1, <1>2 DEF TypeOK, StepInv, FreshResult, Holding, Steps
<1>4. OutcomeInv(d)'
  BY <1>1, <1>2 DEF TypeOK, StepInv, OutcomeInv, CutOff, Holding, Ended
<1>5. LocalTo(d)
  BY <1>1 DEF TypeOK, LocalTo, Steps
<1> QED BY <1>2, <1>3, <1>4, <1>5, LocalStep

LEMMA DestroySucceedsPreserves ==
  ASSUME NEW d \in Drills, IInv, DestroySucceeds(d)
  PROVE  IInv'
<1> USE EngineAssumption DEF DestroySucceeds, Goto, context
<1>1. TypeOK /\ StepInv(d) /\ OutcomeInv(d)
  BY DEF IInv
<1>2. TypeOK'
  BY <1>1 DEF TypeOK, Steps
<1>3. StepInv(d)'
  BY <1>1, <1>2 DEF TypeOK, StepInv, FreshResult, Holding, Steps
<1>4. OutcomeInv(d)'
  BY <1>1, <1>2 DEF TypeOK, StepInv, OutcomeInv, CutOff, Holding, Ended
<1>5. LocalTo(d)
  BY <1>1 DEF TypeOK, LocalTo, Steps
<1> QED BY <1>2, <1>3, <1>4, <1>5, LocalStep

\* A target that is not destroyed has its error in the result.
LEMMA DestroyFailsPreserves ==
  ASSUME NEW d \in Drills, IInv, DestroyFails(d)
  PROVE  IInv'
<1> USE EngineAssumption DEF DestroyFails, DestroyContextLive, Goto, context
<1>1. TypeOK /\ StepInv(d) /\ OutcomeInv(d)
  BY DEF IInv
<1>2. SameButError(d)
  BY <1>1, JoinErrorEffect DEF TypeOK, ErrorKinds
<1>3. TypeOK'
  BY <1>1, <1>2 DEF TypeOK, SameButError, Steps
<1>4. StepInv(d)'
  BY <1>1, <1>2 DEF TypeOK, StepInv, SameButError, FreshResult, Holding, Steps
<1>5. OutcomeInv(d)'
  <2>1. /\ result'[d].ValidationPassed =>
             data[d] = "restored" /\ \A c \in ChecksOf[d] : result'[d].Checks[c] = "match"
        /\ result'[d].CleanupSkipped =>
             NoCleanup /\ result'[d].TargetID /\ target[d] = "live"
    BY <1>1, <1>2 DEF OutcomeInv, SameButError
  <2>2. result'[d].Error # {} /\ ~NoCleanup /\ target'[d] = "live"
    BY <1>1, <1>2 DEF StepInv, SameButError, Holding
  <2>3. \E f \in {"orphan", "destroy", "slow"} : f \in Faults
    BY <1>1 DEF StepInv
  <2> QED BY <1>1, <2>1, <2>2, <2>3 DEF OutcomeInv
<1>6. LocalTo(d)
  BY <1>1, <1>2 DEF TypeOK, LocalTo, SameButError, Steps
<1> QED BY <1>3, <1>4, <1>5, <1>6, LocalStep

-----------------------------------------------------------------------------
(* The steps that start and return a drill, and the run's own.             *)

\* Run starts a drill only when those before it are in the slice.
LEMMA StartDrillPreserves ==
  ASSUME NEW d \in Drills, IInv, StartDrill(d)
  PROVE  IInv'
<1> USE EngineAssumption DEF StartDrill, Goto, context
<1>1. TypeOK /\ StepInv(d) /\ OutcomeInv(d) /\ SliceInv
  BY DEF IInv
<1>2. \/ SameButError(d) /\ pc'[d] = "returning"
      \/ result' = result /\ pc'[d] = "creating"
  <2>1. CASE d \in Registered
    BY <1>1, <2>1 DEF TypeOK
  <2>2. CASE d \notin Registered
    <3>1. Fail(d, "provider") /\ "provider" \in ErrorKinds
      BY <2>2 DEF ErrorKinds
    <3> QED BY <1>1, <3>1, FailEffect DEF TypeOK
  <2> QED BY <2>1, <2>2
<1>3. TypeOK'
  BY <1>1, <1>2 DEF TypeOK, SameButError, Steps
<1>4. ASSUME NEW e \in Drills PROVE StepInv(e)' /\ OutcomeInv(e)'
  <2>1. CASE e = d
    <3>1. /\ result[d] = FreshResult(d) /\ target'[d] = "none"
          /\ ~result[d].ValidationPassed /\ ~result[d].CleanupSkipped
          /\ ~result'[d].ValidationPassed /\ ~result'[d].CleanupSkipped
      BY <1>1, <1>2 DEF StepInv, SameButError, FreshResult
    <3>2. StepInv(d)'
      BY <1>1, <1>2, <3>1 DEF TypeOK, StepInv, SameButError, Holding
    <3>3. OutcomeInv(d)'
      BY <1>1, <1>2, <3>1 DEF OutcomeInv, SameButError, Ended
    <3> QED BY <2>1, <3>2, <3>3
  <2>2. CASE e # d
    BY <1>1, <1>2, <2>2 DEF IInv, TypeOK, StepInv, OutcomeInv, CutOff, SameButError
  <2> QED BY <2>1, <2>2
<1>5. ~Parallel => d <= Len(results) + 1
  <2> SUFFICES ASSUME ~Parallel PROVE d <= Len(results) + 1
    OBVIOUS
  <2>1. CASE d = 1
    BY <1>1, <2>1 DEF TypeOK
  <2>2. CASE d # 1
    <3>1. d - 1 \in Drills /\ d - 1 < d
      BY <2>2 DEF Drills
    <3>2. pc[d - 1] = "done"
      BY <3>1 DEF MayStart
    <3>3. d - 1 <= Len(results)
      BY <1>1, <3>1, <3>2 DEF SliceInv
    <3> QED BY <1>1, <3>3 DEF TypeOK, Drills
  <2> QED BY <2>1, <2>2
<1>6. SliceInv'
  <2>1. \A e \in Drills : /\ pc'[e] = "done" <=> pc[e] = "done"
                          /\ e # d => pc'[e] = pc[e]
                          /\ pc[e] = "done" => result'[e] = result[e]
    BY <1>1, <1>2 DEF TypeOK, SameButError
  <2> QED BY <1>1, <1>5, <2>1 DEF SliceInv, Returns
<1>7. RunInv'
  BY DEF RunInv
<1> QED BY <1>3, <1>4, <1>6, <1>7 DEF IInv

\* Append puts the result of drill d in slot d, as storing by index does.
LEMMA PublishPreserves ==
  ASSUME NEW d \in Drills, IInv, Publish(d)
  PROVE  IInv'
<1> USE EngineAssumption DEF Publish, Goto, context
<1>1. TypeOK /\ StepInv(d) /\ OutcomeInv(d) /\ SliceInv /\ d \in Nat
  BY DEF IInv, Drills
<1>2. ~Parallel => d = Len(results) + 1
  BY <1>1 DEF SliceInv, TypeOK
<1>3. /\ results' \in Seq(Result)
      /\ d \in DOMAIN results'
      /\ results'[d] = result[d]
      /\ \A e \in DOMAIN results' \ {d} : e \in DOMAIN results /\ results'[e] = results[e]
      /\ DOMAIN results \subseteq DOMAIN results'
      /\ Len(results') = IF Parallel THEN N ELSE d
  <2>0. result[d] \in Result /\ results \in Seq(Result) /\ DOMAIN results = 1..Len(results)
    BY <1>1 DEF TypeOK
  <2>1. CASE Parallel
    <3>1. d \in DOMAIN results /\ Len(results) = N
      BY <1>1, <2>0, <2>1 DEF SliceInv, Drills
    <3>2. results' = [results EXCEPT ![d] = result[d]]
      BY <2>1
    <3> QED BY <2>0, <2>1, <3>1, <3>2
  <2>2. CASE ~Parallel
    <3>1. results' = Append(results, result[d])
      BY <2>2
    <3> QED BY <1>1, <1>2, <2>0, <2>2, <3>1
  <2> QED BY <2>1, <2>2
<1>4. TypeOK'
  BY <1>1, <1>3 DEF TypeOK, Steps
<1>5. ASSUME NEW e \in Drills PROVE StepInv(e)' /\ OutcomeInv(e)'
  BY <1>1 DEF IInv, TypeOK, StepInv, OutcomeInv, CutOff, Holding, Ended
<1>6. SliceInv'
  <2>1. \A e \in Drills : pc'[e] = IF e = d THEN "done" ELSE pc[e]
    BY <1>1 DEF TypeOK
  <2>2. \A e \in Drills : pc'[e] = "done" => e \in DOMAIN results' /\ results'[e] = result'[e]
    BY <1>1, <1>3, <2>1 DEF SliceInv
  <2>3. \A e \in Drills : Returns(e)' => pc'[e] = "done"
    BY <1>1, <1>3, <2>1 DEF SliceInv, Returns
  <2>4. Parallel => Len(results') = N
    BY <1>3
  <2>5. ~Parallel => /\ Len(results') <= N
                     /\ \A e \in Drills : /\ pc'[e] = "done" <=> e <= Len(results')
                                          /\ pc'[e] # "waiting" => e <= Len(results') + 1
    BY <1>1, <1>2, <1>3, <2>1 DEF SliceInv, Drills, TypeOK
  <2> QED BY <2>2, <2>3, <2>4, <2>5 DEF SliceInv
<1>7. RunInv'
  BY <1>1 DEF IInv, RunInv, TypeOK
<1> QED BY <1>4, <1>5, <1>6, <1>7 DEF IInv

\* A request that is served late belongs to a drill whose Create failed.
LEMMA ServeLatePreserves ==
  ASSUME NEW d \in Drills, IInv, ServeLate(d)
  PROVE  IInv'
<1> USE EngineAssumption DEF ServeLate, context
<1>1. TypeOK /\ StepInv(d) /\ OutcomeInv(d)
  BY DEF IInv
<1>2. pc[d] \in Ended
  BY <1>1 DEF TypeOK, StepInv, Holding, Ended, Steps
<1>3. TypeOK'
  BY <1>1 DEF TypeOK
<1>4. ASSUME NEW e \in Drills PROVE StepInv(e)' /\ OutcomeInv(e)'
  <2>1. CASE e = d
    <3>1. StepInv(d)'
      BY <1>1, <1>2 DEF StepInv, Holding, Ended
    <3>2. OutcomeInv(d)'
      BY <1>1, <1>2 DEF TypeOK, OutcomeInv, CutOff
    <3> QED BY <2>1, <3>1, <3>2
  <2>2. CASE e # d
    BY <1>1, <2>2 DEF IInv, TypeOK, StepInv, OutcomeInv, CutOff
  <2> QED BY <2>1, <2>2
<1>5. SliceInv' /\ RunInv'
  BY DEF IInv, SliceInv, RunInv, Returns
<1> QED BY <1>3, <1>4, <1>5 DEF IInv

LEMMA ReportPreserves ==
  ASSUME IInv, StartReport \/ FinishReport \/ UNCHANGED vars
  PROVE  IInv'
<1>1. TypeOK'
  BY DEF IInv, TypeOK, StartReport, AllReturned, FinishReport, vars, context
<1>2. ASSUME NEW d \in Drills PROVE StepInv(d)' /\ OutcomeInv(d)'
  BY DEF IInv, StepInv, OutcomeInv, CutOff, StartReport, AllReturned, FinishReport, vars, context
<1>3. SliceInv' /\ RunInv'
  BY DEF IInv, SliceInv, RunInv, Returns, StartReport, AllReturned, FinishReport, vars
<1> QED BY <1>1, <1>2, <1>3 DEF IInv

LEMMA NextPreserves == IInv /\ [Next]_vars => IInv'
<1> SUFFICES ASSUME IInv, [Next]_vars PROVE IInv'
  OBVIOUS
<1>1. ASSUME NEW d \in Drills, DrillStep(d) PROVE IInv'
  <2>1. CASE StartDrill(d)        BY <2>1, StartDrillPreserves
  <2>2. CASE Expire(d)            BY <2>2, ExpirePreserves
  <2>3. CASE CreateSucceeds(d)    BY <2>3, CreateSucceedsPreserves
  <2>4. CASE CreateFails(d) \/ CreateTimesOut(d)
    BY <2>4, CreateErrorPreserves DEF CreateFails, CreateTimesOut
  <2>5. CASE PreflightSucceeds(d) BY <2>5, PreflightSucceedsPreserves
  <2>6. CASE RestoreSucceeds(d)   BY <2>6, RestoreSucceedsPreserves
  <2>7. CASE ValidateSucceeds(d)  BY <2>7, ValidateSucceedsPreserves
  <2>8. CASE PhaseFails(d) \/ PhaseTimesOut(d)
    BY <2>8, PhaseErrorPreserves DEF PhaseFails, PhaseTimesOut
  <2>9. CASE CleanUp(d)           BY <2>9, CleanUpPreserves
  <2>10. CASE ExpireCleanup(d)    BY <2>10, ExpireCleanupPreserves
  <2>11. CASE DestroySucceeds(d)  BY <2>11, DestroySucceedsPreserves
  <2>12. CASE DestroyFails(d)     BY <2>12, DestroyFailsPreserves
  <2>13. CASE Publish(d)          BY <2>13, PublishPreserves
  <2> QED BY <1>1, <2>1, <2>2, <2>3, <2>4, <2>5, <2>6, <2>7, <2>8, <2>9, <2>10,
             <2>11, <2>12, <2>13 DEF DrillStep
<1>2. CASE StartReport \/ FinishReport \/ Returned \/ UNCHANGED vars
  BY <1>2, ReportPreserves DEF Returned
<1>3. ASSUME NEW d \in Drills, ServeLate(d) PROVE IInv'
  BY <1>3, ServeLatePreserves
<1> QED BY <1>1, <1>2, <1>3 DEF Next

\* Every reachable state of the engine satisfies the inductive invariant.
THEOREM EngineInvariant == Spec => []IInv
BY InitEstablishes, NextPreserves, PTL DEF Spec

-----------------------------------------------------------------------------
(* What follows for the drills and their operator.                         *)

\* Every variable keeps its type.
THEOREM TypeCorrect == Spec => []TypeOK
<1>1. IInv => TypeOK
  BY DEF IInv
<1> QED BY <1>1, EngineInvariant, PTL

\* No drill returns leaving a target behind without saying so in its result.
THEOREM LeaksAreReported == Spec => []NoSilentLeak
<1>1. IInv => NoSilentLeak
  BY DEF IInv, NoSilentLeak, OutcomeInv, StepInv, SliceInv, Returns, Ended, Drills
<1> QED BY <1>1, EngineInvariant, PTL

\* A drill is never reported as passed unless its backup was restored and
\* every configured check matched on the restored data.
THEOREM PassesAreEarned == Spec => []PassIsEarned
<1>1. IInv => PassIsEarned
  <2> SUFFICES ASSUME IInv, NEW d \in Drills, Returns(d), Passed(results[d])
               PROVE  /\ data[d] = "restored"
                      /\ \A c \in ChecksOf[d] : results[d].Checks[c] = "match"
                      /\ target[d] = "gone" \/ NoCleanup
    BY DEF PassIsEarned
  <2>1. pc[d] = "done" /\ results[d] = result[d]
    BY DEF IInv, SliceInv
  <2>2. OutcomeInv(d) /\ TypeOK
    BY DEF IInv
  <2> QED BY <2>1, <2>2 DEF OutcomeInv, TypeOK, Passed, Ended
<1> QED BY <1>1, EngineInvariant, PTL

\* The reporters and the saved state get the finished result of every selected
\* drill, each in its place, whether drills run in turn or together.
THEOREM ReportsAreComplete == Spec => []ReportIsComplete
<1>1. IInv => ReportIsComplete
  <2> SUFFICES ASSUME IInv, run # "drills"
               PROVE  /\ Len(results) = N
                      /\ \A d \in Drills : results[d] = result[d] /\ pc[d] = "done"
    BY DEF ReportIsComplete
  <2>1. \A d \in Drills : results[d] = result[d] /\ pc[d] = "done"
    BY DEF IInv, RunInv, SliceInv
  <2>2. Len(results) = N
    <3>1. CASE Parallel
      BY <3>1 DEF IInv, SliceInv
    <3>2. CASE ~Parallel
      <4>1. Len(results) \in Nat /\ Len(results) <= N
        BY <3>2 DEF IInv, SliceInv, TypeOK
      <4>2. \A d \in Drills : d <= Len(results)
        BY <2>1, <3>2 DEF IInv, SliceInv
      <4> QED BY <4>1, <4>2, EngineAssumption DEF Drills
    <3> QED BY <3>1, <3>2
  <2> QED BY <2>1, <2>2
<1> QED BY <1>1, EngineInvariant, PTL

\* CleanupSkipped is set exactly for targets that were kept on purpose.
THEOREM KeptTargetsAreNamed == Spec => []SkippedNamesKeptTarget
<1>1. IInv => SkippedNamesKeptTarget
  <2> SUFFICES ASSUME IInv, NEW d \in Drills, Returns(d)
      PROVE  /\ results[d].CleanupSkipped => results[d].TargetID /\ target[d] = "live"
             /\ NoCleanup /\ target[d] = "live" =>
                  results[d].CleanupSkipped \/ "create" \in results[d].Error
    BY DEF SkippedNamesKeptTarget
  <2>1. pc[d] = "done" /\ results[d] = result[d]
    BY DEF IInv, SliceInv
  <2> QED BY <2>1 DEF IInv, OutcomeInv, Ended
<1> QED BY <1>1, EngineInvariant, PTL

\* On a runtime that answers, a target is left only by a create call that the
\* deadline cut off; one that Create returned is removed with its drill.
THEOREM CutOffCreatesLeak == Spec => []OnlyCutOffCreateLeaks
<1>1. IInv => OnlyCutOffCreateLeaks
  <2> SUFFICES ASSUME IInv, ~NoCleanup, Faults \cap {"orphan", "destroy", "slow"} = {},
                      NEW d \in Drills, pc[d] = "done", target[d] \in {"asked", "live"}
               PROVE  /\ expired[d]
                      /\ results[d].Error = {"create"}
                      /\ ~results[d].TargetID
    BY DEF OnlyCutOffCreateLeaks
  <2>1. results[d] = result[d] /\ OutcomeInv(d)
    BY DEF IInv, SliceInv
  <2>2. CutOff(d)
    BY <2>1 DEF OutcomeInv, Ended
  <2> QED BY <2>1, <2>2 DEF CutOff
<1> QED BY <1>1, EngineInvariant, PTL

-----------------------------------------------------------------------------
(* Refinement                                                              *)

LEMMA InitRefines == Init => Lifecycle!Init
<1> SUFFICES ASSUME Init PROVE Lifecycle!Init
  OBVIOUS
<1>1. holdBar = [d \in Drills |-> "none"]
  BY DEF holdBar, Init
<1>2. verdictBar = [d \in Drills |-> "pending"]
  BY DEF verdictBar, Init
<1> QED BY <1>1, <1>2 DEF Lifecycle!Init, Init

LEMMA StepRefines == IInv /\ [Next]_vars => [Lifecycle!Next]_Lifecycle!vars
<1> SUFFICES ASSUME IInv, [Next]_vars PROVE [Lifecycle!Next]_Lifecycle!vars
  OBVIOUS
<1>1. TypeOK /\ SliceInv /\ RunInv
  BY DEF IInv
\* A step of d that publishes nothing keeps every verdict.
<1>2. ASSUME UNCHANGED <<results, run>>,
             \A e \in Drills : pc'[e] = "done" <=> pc[e] = "done"
      PROVE  UNCHANGED verdictBar /\ UNCHANGED (run # "drills")
  BY <1>2 DEF verdictBar
<1>3. ASSUME NEW d \in Drills, DrillStep(d)
      PROVE  [Lifecycle!Next]_Lifecycle!vars
  <2>1. CASE CreateSucceeds(d) \/ CreateFails(d) \/ CreateTimesOut(d)
    <3>1. /\ target[d] = "none" /\ pc[d] = "creating"
          /\ \/ UNCHANGED target
             \/ \E left \in {"asked", "live"} : target' = [target EXCEPT ![d] = left]
          /\ \A e \in Drills : pc'[e] = "done" <=> pc[e] = "done"
          /\ UNCHANGED <<results, run>>
      BY <1>1, <2>1 DEF IInv, StepInv, CreateSucceeds, CreateFails, CreateTimesOut,
                        CreateError, Goto, TypeOK
    <3>2. UNCHANGED holdBar \/ Lifecycle!Acquire(d)
      <4>1. CASE UNCHANGED target
        BY <4>1 DEF holdBar
      <4>2. CASE target' = [target EXCEPT ![d] = "asked"]
        BY <1>1, <3>1, <4>2 DEF holdBar, TypeOK
      <4>3. CASE target' = [target EXCEPT ![d] = "live"]
        <5>0. target[d] = "none"
          BY <3>1
        <5>1. holdBar[d] = "none" /\ holdBar' = [holdBar EXCEPT ![d] = "held"]
          BY <1>1, <4>3, <5>0 DEF holdBar, TypeOK
        <5>2. verdictBar[d] = "pending"
          BY <3>1 DEF verdictBar
        <5> QED BY <1>2, <3>1, <5>1, <5>2 DEF Lifecycle!Acquire
      <4> QED BY <3>1, <4>1, <4>2, <4>3
    <3> QED BY <1>2, <3>1, <3>2 DEF Lifecycle!Next, Lifecycle!vars
  <2>2. CASE DestroySucceeds(d)
    <3>1. /\ target[d] = "live" /\ pc[d] = "destroying"
          /\ target' = [target EXCEPT ![d] = "gone"]
          /\ \A e \in Drills : pc'[e] = "done" <=> pc[e] = "done"
          /\ UNCHANGED <<results, run>>
      BY <1>1, <2>2 DEF IInv, StepInv, Holding, DestroySucceeds, Goto, TypeOK
    <3>2. Lifecycle!Release(d)
      BY <1>1, <1>2, <3>1 DEF holdBar, verdictBar, TypeOK, Lifecycle!Release
    <3> QED BY <3>2 DEF Lifecycle!Next
  <2>3. CASE Publish(d)
    <3>1. IInv'
      BY <2>3, PublishPreserves
    <3>2. /\ pc[d] = "returning" /\ pc' = [pc EXCEPT ![d] = "done"]
          /\ UNCHANGED <<result, target, run>>
      BY <2>3 DEF Publish, Goto
    <3>3. \A e \in Drills : pc'[e] = "done" => results'[e] = result[e]
      BY <3>1, <3>2 DEF IInv, SliceInv
    <3>4. \A e \in Drills : pc[e] = "done" => results[e] = result[e]
      BY <1>1 DEF SliceInv
    <3> DEFINE v == IF Passed(result[d]) THEN "passed" ELSE "failed"
    <3>5. verdictBar[d] = "pending" /\ verdictBar' = [verdictBar EXCEPT ![d] = v]
      <4>1. \A e \in Drills : pc'[e] = IF e = d THEN "done" ELSE pc[e]
        BY <1>1, <3>2 DEF TypeOK
      <4>2. verdictBar[d] = "pending"
        BY <3>2 DEF verdictBar
      <4>3. ASSUME NEW e \in Drills
            PROVE  verdictBar'[e] = IF e = d THEN v ELSE verdictBar[e]
        <5>1. CASE e = d
          <6>1. pc'[d] = "done" /\ results'[d] = result[d]
            BY <3>3, <4>1
          <6> QED BY <5>1, <6>1 DEF verdictBar
        <5>2. CASE e # d
          <6>1. pc'[e] = pc[e] /\ (pc[e] = "done" => results'[e] = results[e])
            BY <3>3, <3>4, <4>1, <5>2
          <6> QED BY <5>2, <6>1 DEF verdictBar
        <5> QED BY <5>1, <5>2
      <4> HIDE DEF v
      <4> QED BY <4>2, <4>3 DEF verdictBar
    <3>6. v = "passed" => holdBar[d] = "released" \/ (holdBar[d] = "held" /\ NoCleanup)
      <4>1. OutcomeInv(d) /\ target[d] \in {"none", "asked", "live", "gone"}
        BY <1>1 DEF IInv, TypeOK
      <4>2. Passed(result[d]) => \/ target[d] = "gone"
                                 \/ target[d] = "live" /\ NoCleanup
        BY <3>2, <4>1 DEF OutcomeInv, Ended, Passed
      <4>3. /\ target[d] = "gone" => holdBar[d] = "released"
            /\ target[d] = "live" => holdBar[d] = "held"
        BY DEF holdBar
      <4> QED BY <4>2, <4>3
    <3>7. UNCHANGED holdBar /\ UNCHANGED (run # "drills")
      BY <3>2 DEF holdBar
    <3>8. Lifecycle!Conclude(d)
      BY <3>5, <3>6, <3>7 DEF Lifecycle!Conclude
    <3> QED BY <3>8 DEF Lifecycle!Next
  <2>4. CASE ~(CreateSucceeds(d) \/ CreateFails(d) \/ CreateTimesOut(d)
               \/ DestroySucceeds(d) \/ Publish(d))
    <3>1. /\ UNCHANGED <<target, results, run>>
          /\ \A e \in Drills : pc'[e] = "done" <=> pc[e] = "done"
      BY <1>1, <1>3, <2>4 DEF DrillStep, StartDrill, Expire, Timed, PreflightSucceeds,
           RestoreSucceeds, ValidateSucceeds, PhaseFails, PhaseTimesOut, PhaseError,
           Phases, CleanUp, ExpireCleanup, DestroyFails, Goto, context, TypeOK
    <3>2. UNCHANGED holdBar
      BY <3>1 DEF holdBar
    <3> QED BY <1>2, <3>1, <3>2 DEF Lifecycle!vars
  <2> QED BY <2>1, <2>2, <2>3, <2>4
<1>4. CASE StartReport
  <2>1. UNCHANGED holdBar /\ UNCHANGED verdictBar
    BY <1>4 DEF StartReport, holdBar, verdictBar
  <2>2. \A d \in Drills : verdictBar[d] # "pending"
    BY <1>4 DEF StartReport, AllReturned, verdictBar
  <2>3. Lifecycle!Report
    BY <1>4, <2>1, <2>2 DEF StartReport, Lifecycle!Report
  <2> QED BY <2>3 DEF Lifecycle!Next
<1>5. CASE FinishReport \/ Returned \/ UNCHANGED vars
  <2>1. UNCHANGED <<pc, results, target>> /\ UNCHANGED (run # "drills")
    BY <1>5 DEF FinishReport, Returned, vars
  <2>2. UNCHANGED holdBar /\ UNCHANGED verdictBar
    BY <2>1 DEF holdBar, verdictBar
  <2> QED BY <2>1, <2>2 DEF Lifecycle!vars
<1>6. ASSUME NEW d \in Drills, ServeLate(d)
      PROVE  [Lifecycle!Next]_Lifecycle!vars
  <2>1. target[d] = "asked" /\ UNCHANGED <<pc, results, run>>
    BY <1>6 DEF ServeLate, context
  <2>2. holdBar[d] = "none" /\ holdBar' = [holdBar EXCEPT ![d] = "held"]
    BY <1>1, <1>6 DEF ServeLate, holdBar, TypeOK
  <2>3. verdictBar[d] # "passed"
    <3>1. pc[d] = "done" => results[d] = result[d]
      BY <1>1 DEF SliceInv
    <3>2. pc[d] = "done" => ~Passed(result[d])
      BY <2>1 DEF IInv, OutcomeInv, Ended, Passed
    <3> QED BY <3>1, <3>2 DEF verdictBar
  <2>4. UNCHANGED verdictBar /\ UNCHANGED (run # "drills")
    BY <2>1 DEF verdictBar
  <2>5. Lifecycle!Acquire(d)
    BY <2>2, <2>3, <2>4 DEF Lifecycle!Acquire
  <2> QED BY <2>5 DEF Lifecycle!Next
<1> QED BY <1>3, <1>4, <1>5, <1>6 DEF Next

\* The engine implements the lifecycle: one target per drill, released before
\* the drill may pass unless it is kept, none acquired for a drill that passed,
\* each verdict given once, and all verdicts given before the report.
THEOREM EngineImplementsLifecycle == Spec => ImplementsLifecycle
BY InitRefines, StepRefines, EngineInvariant, PTL
   DEF Spec, ImplementsLifecycle, Lifecycle!Spec
=============================================================================
