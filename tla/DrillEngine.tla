----------------------------- MODULE DrillEngine -----------------------------
(***************************************************************************)
(* The drill engine of internal/engine/engine.go: Run and RunParallel over *)
(* a configured list of drills, and executeDrill, which provisions one     *)
(* disposable target, restores a backup into it, validates the restored    *)
(* data and removes the target again in a deferred function.               *)
(*                                                                         *)
(* A drill is its index in the configured list.  The runtime and the       *)
(* provider are the environment: each call may succeed, fail, or hang      *)
(* until the drill's deadline.  The module that EXTENDS this one with a    *)
(* refinement mapping is DrillRefinement.                                  *)
(***************************************************************************)
EXTENDS Naturals, Sequences

CONSTANTS
  N,                \* number of selected drills (config.Drills after selectDrills)
  Parallel,         \* --parallel: RunParallel instead of Run
  NoCleanup,        \* --no-cleanup: Engine.noCleanup
  Registered,       \* drills whose provider is in Engine.providers
  Check,            \* the validation checks any drill configures
  ChecksOf,         \* the checks of each drill (drill.Validate)
  ObservesContext,  \* whether a hung provider phase returns when its ctx ends
  Faults            \* the failures the environment may show, see FaultKinds

Drills == 1..N

(***************************************************************************)
(* "call"    a create, preflight, restore or validate call fails early     *)
(* "orphan"  a failed Create leaves a target behind: the answer to the     *)
(*           request was lost, or the runtime could not remove the target  *)
(* "cleanup" provider.Cleanup returns an error                             *)
(* "destroy" runtime.Destroy fails although its context is live            *)
(* "slow"    clean-up takes longer than its 30 s context                   *)
(***************************************************************************)
FaultKinds == {"call", "orphan", "cleanup", "destroy", "slow"}

ASSUME EngineAssumption ==
  /\ N \in Nat
  /\ Parallel \in BOOLEAN
  /\ NoCleanup \in BOOLEAN
  /\ ObservesContext \in BOOLEAN
  /\ Registered \subseteq Drills
  /\ ChecksOf \in [Drills -> SUBSET Check]
  /\ Faults \subseteq FaultKinds

\* What the evaluation of one check records; "none" before it is evaluated.
Readings == {"match", "mismatch", "error"}

ErrorKinds == {"provider", "create", "preflight", "restore", "validate",
               "cleanup provider", "destroy target"}

\* DrillResult, with the fields that decide a verdict or name the target.
Result == [name             : 0..N,
           Error            : SUBSET ErrorKinds,
           TargetID         : BOOLEAN,
           CleanupSkipped   : BOOLEAN,
           Checks           : [Check -> Readings \cup {"none"}],
           ValidationPassed : BOOLEAN]

FreshResult(d) == [name             |-> d,
                   Error            |-> {},
                   TargetID         |-> FALSE,
                   CleanupSkipped   |-> FALSE,
                   Checks           |-> [c \in Check |-> "none"],
                   ValidationPassed |-> FALSE]

\* A slot of make([]DrillResult, n) before its goroutine has filled it: the
\* zero value, whose Name is empty.
ZeroResult == FreshResult(0)

Steps == {"waiting", "creating", "preflight", "restoring", "validating",
          "cleaning", "destroying", "returning", "done"}

VARIABLES
  pc,              \* where each executeDrill call is
  expired,         \* the drill's context has reached its deadline
  cleanupExpired,  \* the 30 s clean-up context has reached its deadline
  result,          \* the named return value of executeDrill
  results,         \* the slice Run or RunParallel fills
  target,          \* at the runtime: "none", "asked" (a request on its way
                   \* that nobody waits for), "live" or "gone"
  data,            \* in the target: "empty", "partial" or "restored"
  run              \* "drills", "reporting", "returned"

vars == <<pc, expired, cleanupExpired, result, results, target, data, run>>
context == <<expired, cleanupExpired>>

Init ==
  /\ pc = [d \in Drills |-> "waiting"]
  /\ expired = [d \in Drills |-> FALSE]
  /\ cleanupExpired = [d \in Drills |-> FALSE]
  /\ result = [d \in Drills |-> FreshResult(d)]
  /\ results = IF Parallel THEN [d \in Drills |-> ZeroResult] ELSE <<>>
  /\ target = [d \in Drills |-> "none"]
  /\ data = [d \in Drills |-> "empty"]
  /\ run = "drills"

-----------------------------------------------------------------------------
(* Helpers                                                                 *)

Goto(d, step) == pc' = [pc EXCEPT ![d] = step]

\* result.Error = ... : the first error of the call.
Fail(d, kind) == result' = [result EXCEPT ![d].Error = {kind}]

\* Mutant: the error is logged but not recorded.
JoinLogged(d, kind) == UNCHANGED result

\* joinResultError: a clean-up error never replaces the drill's own error.
JoinError(d, kind) == result' = [result EXCEPT ![d].Error = @ \cup {kind}]

\* Mutant: the verdict looks at the checks alone.
ChecksPassed(r) == r.ValidationPassed

\* drillPassed of reporter/summary.go, the verdict every reporter uses.
Passed(r) == r.Error = {} /\ r.ValidationPassed

-----------------------------------------------------------------------------
(* executeDrill                                                            *)

(***************************************************************************)
(* Run calls executeDrill for one drill after the other; RunParallel has a *)
(* goroutine for each.  The provider lookup happens before anything is     *)
(* created, so an unknown provider returns without a deferred clean-up.    *)
(***************************************************************************)
MayStart(d) == Parallel \/ \A e \in Drills : e < d => pc[e] = "done"

StartDrill(d) ==
  /\ run = "drills"
  /\ pc[d] = "waiting"
  /\ MayStart(d)
  /\ \/ /\ d \in Registered
        /\ Goto(d, "creating")
        /\ UNCHANGED result
     \/ /\ d \notin Registered
        /\ Goto(d, "returning")
        /\ Fail(d, "provider")
  /\ UNCHANGED <<context, results, target, data, run>>

\* Mutant: the timeout is applied only once the target has been created.
TimedAfterCreate(d) == pc[d] \notin {"waiting", "creating", "done"}

Timed(d) == pc[d] \notin {"waiting", "done"}

\* context.WithTimeout: the deadline may pass at any point of the drill, and
\* has passed already when restore.timeout is zero or negative.
Expire(d) ==
  /\ Timed(d)
  /\ ~expired[d]
  /\ expired' = [expired EXCEPT ![d] = TRUE]
  /\ UNCHANGED <<pc, cleanupExpired, result, results, target, data, run>>

\* Mutant: CleanupSkipped is left for the deferred function to set.
NameTargetOnly(d) == result' = [result EXCEPT ![d].TargetID = TRUE]

NameTarget(d) == result' = [result EXCEPT ![d].TargetID = TRUE,
                                          ![d].CleanupSkipped = NoCleanup]

\* runtime.Create returned a target: the result names it from here on.
CreateSucceeds(d) ==
  /\ pc[d] = "creating"
  /\ ~expired[d]
  /\ target' = [target EXCEPT ![d] = "live"]
  /\ NameTarget(d)
  /\ Goto(d, "preflight")
  /\ UNCHANGED <<context, results, data, run>>

\* runtime.Create failed: executeDrill returns before its defer is registered.
\* Create removes what it knows of.  A request whose answer was lost, or was not
\* awaited because the deadline passed, may have been served or be served later,
\* and then nobody knows of the target.
CreateError(d) ==
  /\ pc[d] = "creating"
  /\ \/ UNCHANGED target
     \/ /\ "orphan" \in Faults \/ expired[d]
        /\ \E left \in {"asked", "live"} : target' = [target EXCEPT ![d] = left]
  /\ Fail(d, "create")
  /\ Goto(d, "returning")
  /\ UNCHANGED <<context, results, data, run>>

CreateFails(d) == "call" \in Faults /\ CreateError(d)

\* Every call Create makes watches the drill's context.
CreateTimesOut(d) == expired[d] /\ CreateError(d)

\* A provider without a preflight goes on in the same way.
PreflightSucceeds(d) ==
  /\ pc[d] = "preflight"
  /\ Goto(d, "restoring")
  /\ UNCHANGED <<context, result, results, target, data, run>>

\* Restore reported success: the data of the backup is in the target.
RestoreSucceeds(d) ==
  /\ pc[d] = "restoring"
  /\ data' = [data EXCEPT ![d] = "restored"]
  /\ Goto(d, "validating")
  /\ UNCHANGED <<context, result, results, target, run>>

\* The loop over drill.Validate: one entry of Checks for each, and allPassed.
Judge(d, readings) ==
  result' = [result EXCEPT
    ![d].Checks = [c \in Check |-> IF c \in ChecksOf[d] THEN readings[c] ELSE "none"],
    ![d].ValidationPassed = \A c \in ChecksOf[d] : readings[c] = "match"]

\* Validate returned a result per check and the expressions were evaluated: a
\* provider error or an unevaluable expression fails its check, and no check
\* at all passes.
ValidateSucceeds(d) ==
  /\ pc[d] = "validating"
  /\ \E readings \in [ChecksOf[d] -> Readings] : Judge(d, readings)
  /\ Goto(d, "cleaning")
  /\ UNCHANGED <<context, results, target, data, run>>

\* The error return of each phase; a restore that fails may have written some
\* of the backup.
Phases == {"preflight", "restoring", "validating"}

ErrorOf(phase) == CASE phase = "preflight"  -> "preflight"
                    [] phase = "restoring"  -> "restore"
                    [] phase = "validating" -> "validate"

PhaseError(d) ==
  /\ pc[d] \in Phases
  /\ Fail(d, ErrorOf(pc[d]))
  /\ \/ UNCHANGED data
     \/ /\ pc[d] = "restoring"
        /\ data' = [data EXCEPT ![d] = "partial"]
  /\ Goto(d, "cleaning")
  /\ UNCHANGED <<context, results, target, run>>

\* A phase returns an error on its own (a missing tool, a bad archive).
PhaseFails(d) == "call" \in Faults /\ PhaseError(d)

\* Mutant: validation runs with a context of its own that has no deadline.
PhaseTimesOutEarly(d) ==
  ObservesContext /\ expired[d] /\ pc[d] # "validating" /\ PhaseError(d)

\* A phase that hangs is given up when the drill's deadline passes, if the
\* calls it is made of watch their context.
PhaseTimesOut(d) == ObservesContext /\ expired[d] /\ PhaseError(d)

\* The deferred function: with --no-cleanup it leaves at once; otherwise
\* provider.Cleanup runs first, with a context the drill's deadline does not
\* end, and its error is joined to the drill's.
CleanUp(d) ==
  /\ pc[d] = "cleaning"
  /\ \/ /\ NoCleanup
        /\ Goto(d, "returning")
        /\ UNCHANGED result
     \/ /\ ~NoCleanup
        /\ Goto(d, "destroying")
        /\ \/ UNCHANGED result
           \/ /\ "cleanup" \in Faults
              /\ JoinError(d, "cleanup provider")
  /\ UNCHANGED <<context, results, target, data, run>>

\* The 30 s that provider.Cleanup and Destroy share have passed.
ExpireCleanup(d) ==
  /\ "slow" \in Faults
  /\ ~NoCleanup
  /\ pc[d] = "destroying"
  /\ ~cleanupExpired[d]
  /\ cleanupExpired' = [cleanupExpired EXCEPT ![d] = TRUE]
  /\ UNCHANGED <<pc, expired, result, results, target, data, run>>

\* Mutant: clean-up uses the drill's own context.
DestroyContextInherited(d) == ~cleanupExpired[d] /\ ~expired[d]

\* The context Destroy is called with: context.WithoutCancel drops the drill's
\* deadline, so only the clean-up deadline counts.
DestroyContextLive(d) == ~cleanupExpired[d]

DestroySucceeds(d) ==
  /\ pc[d] = "destroying"
  /\ DestroyContextLive(d)
  /\ target' = [target EXCEPT ![d] = "gone"]
  /\ Goto(d, "returning")
  /\ UNCHANGED <<context, result, results, data, run>>

DestroyFails(d) ==
  /\ pc[d] = "destroying"
  /\ "destroy" \in Faults \/ ~DestroyContextLive(d)
  /\ JoinError(d, "destroy target")
  /\ Goto(d, "returning")
  /\ UNCHANGED <<context, results, target, data, run>>

\* executeDrill has returned: its named result, with what the deferred
\* function joined to it, is appended (Run) or stored by index (RunParallel).
Publish(d) ==
  /\ pc[d] = "returning"
  /\ results' = IF Parallel THEN [results EXCEPT ![d] = result[d]]
                            ELSE Append(results, result[d])
  /\ Goto(d, "done")
  /\ UNCHANGED <<context, result, target, data, run>>

-----------------------------------------------------------------------------
(* The runtime by itself                                                   *)

\* A create request is served although Create has given it up; its drill, and
\* even the run, may be over by then.
ServeLate(d) ==
  /\ target[d] = "asked"
  /\ target' = [target EXCEPT ![d] = "live"]
  /\ UNCHANGED <<pc, context, result, results, data, run>>

-----------------------------------------------------------------------------
(* Run and RunParallel                                                     *)

\* Mutant: the report does not wait for every drill.
AnyReturned == \E d \in Drills : pc[d] = "done"

AllReturned == \A d \in Drills : pc[d] = "done"

\* The loop has ended, or wg.Wait has returned: the reporter gets the slice.
StartReport ==
  /\ run = "drills"
  /\ AllReturned
  /\ run' = "reporting"
  /\ UNCHANGED <<pc, context, result, results, target, data>>

\* Report has returned; its error does not take the results away.
FinishReport ==
  /\ run = "reporting"
  /\ run' = "returned"
  /\ UNCHANGED <<pc, context, result, results, target, data>>

\* The process goes on with the results; the engine takes no step any more.
Returned == run = "returned" /\ UNCHANGED vars

\* The steps executeDrill takes without waiting for an answer that may never
\* come, see Fairness.
Settle(d) == StartDrill(d) \/ CreateTimesOut(d) \/ PhaseTimesOut(d) \/ CleanUp(d)
             \/ DestroySucceeds(d) \/ DestroyFails(d) \/ Publish(d)

DrillStep(d) ==
  \/ StartDrill(d) \/ Expire(d)
  \/ CreateSucceeds(d) \/ CreateFails(d) \/ CreateTimesOut(d)
  \/ PreflightSucceeds(d) \/ RestoreSucceeds(d) \/ ValidateSucceeds(d)
  \/ PhaseFails(d) \/ PhaseTimesOut(d)
  \/ CleanUp(d) \/ ExpireCleanup(d) \/ DestroySucceeds(d) \/ DestroyFails(d)
  \/ Publish(d)

Next == (\E d \in Drills : DrillStep(d) \/ ServeLate(d))
        \/ StartReport \/ FinishReport \/ Returned

Spec == Init /\ [][Next]_vars

(***************************************************************************)
(* The deadline passes sooner or later, and a call that has its answer,    *)
(* or whose context has ended, returns.  Nothing says that a create, a     *)
(* preflight, a restore or a validation ever gets an answer by itself.     *)
(***************************************************************************)
Fairness ==
  /\ \A d \in Drills : WF_vars(Expire(d)) /\ WF_vars(Settle(d))
  /\ WF_vars(StartReport) /\ WF_vars(FinishReport)

FairSpec == Spec /\ Fairness

-----------------------------------------------------------------------------
(* Properties                                                              *)

\* Every variable has its type.
TypeOK ==
  /\ pc \in [Drills -> Steps]
  /\ expired \in [Drills -> BOOLEAN]
  /\ cleanupExpired \in [Drills -> BOOLEAN]
  /\ result \in [Drills -> Result]
  /\ results \in Seq(Result)
  /\ target \in [Drills -> {"none", "asked", "live", "gone"}]
  /\ data \in [Drills -> {"empty", "partial", "restored"}]
  /\ run \in {"drills", "reporting", "returned"}

\* The slots of results that a finished drill has filled.
Returns(d) == d \in DOMAIN results /\ results[d].name # 0

\* A target that outlives its drill, or is made after it, is announced: the
\* result in the slice, the one every reporter and the saved state see, has an
\* error or says that clean-up was skipped.  A clean-up error found in the
\* deferred function, a Create that failed half-way and a drill that timed out
\* all have to reach that slot.
NoSilentLeak ==
  \A d \in Drills :
    pc[d] = "done" /\ target[d] \in {"asked", "live"} =>
      /\ Returns(d)
      /\ results[d].Error # {} \/ results[d].CleanupSkipped

\* A drill counts as passed only if its restore succeeded, every check it
\* configures was read from that restored target and matched, and the target
\* is gone unless the operator keeps it.
PassIsEarned ==
  \A d \in Drills :
    Returns(d) /\ Passed(results[d]) =>
      /\ data[d] = "restored"
      /\ \A c \in ChecksOf[d] : results[d].Checks[c] = "match"
      /\ target[d] = "gone" \/ NoCleanup

\* Reporters, the saved state and the exit code get one finished result per
\* selected drill, each in the position of its drill, whatever order the
\* goroutines end in.
ReportIsComplete ==
  run # "drills" =>
    /\ Len(results) = N
    /\ \A d \in Drills : results[d] = result[d] /\ pc[d] = "done"

\* CleanupSkipped is what tells the operator to remove a target by hand: it is
\* set exactly for the drills whose Create returned a target under
\* --no-cleanup, and that target is still there and named in the result.
SkippedNamesKeptTarget ==
  \A d \in Drills :
    Returns(d) =>
      /\ results[d].CleanupSkipped => results[d].TargetID /\ target[d] = "live"
      /\ NoCleanup /\ target[d] = "live" =>
           results[d].CleanupSkipped \/ "create" \in results[d].Error

\* While the runtime answers and removes what it is asked to, only a create
\* call that the deadline cuts off can leave a target, and then the result
\* blames the create call and nothing else.  A target that Create returned is
\* removed with its drill, also when that fails or meets its deadline: the
\* clean-up context does not inherit the drill's deadline.
OnlyCutOffCreateLeaks ==
  ~NoCleanup /\ Faults \cap {"orphan", "destroy", "slow"} = {} =>
    \A d \in Drills :
      pc[d] = "done" /\ target[d] \in {"asked", "live"} =>
        /\ expired[d]
        /\ results[d].Error = {"create"}
        /\ ~results[d].TargetID

\* The per-drill timeout ends the drill: after the deadline the drill comes to
\* its clean-up and returns.
TimeoutEndsDrill ==
  \A d \in Drills : expired[d] ~> pc[d] = "done"
=============================================================================
