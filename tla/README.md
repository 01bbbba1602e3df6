# restore-drill: TLA+ models, checks and proofs

restore-drill restores backups into disposable targets, validates the restored
data and publishes the evidence. What makes such a tool trustworthy is what it
does when things go wrong: a call that fails half-way, a deadline that passes
during the clean-up, two processes that save at the same time, a server that
answers before it is ready. This directory models those parts of the code,
checks them with TLC on small instances, and proves the central ones with TLAPS
for all instances.

`PROJECT.json` is the index: the components, the runs, the mutants that show
that each property can fail, the source lines every definition stands for, the
hazards of the code, and the theorems. All paths below are relative to `src/`.

    tlc -config Engine_parallel.cfg MCDrillEngine     # one run
    tlapm DrillEngineProofs.tla                       # one module's proofs

## 1. The system

| Component | State it keeps | Operations | Hard behaviour |
|---|---|---|---|
| Drill engine `internal/engine/engine.go` | one `DrillResult` per drill, the slice of results, one target per drill | `Run`, `RunParallel`, `executeDrill` and its deferred clean-up | drills as goroutines, deadline, errors found after the result |
| Docker runtime `internal/runtime/docker` | containers and images of a daemon it shares | `Create`, `Exec`, `CopyTo`, `Destroy` | calls served although they failed, clean-up after the deadline |
| Kubernetes runtime `internal/runtime/k8s` | pods of a namespace it shares | `Create`, `waitPodReady`, `Exec`, `CopyTo`, `Destroy` | names from the clock, lost answers, pods that never start |
| Backup staging `internal/backup/staging.go` | a temporary directory, a pipe, a goroutine | `Stage`, `stageSource`, `writeTar`, `downloadS3`, `latestObjectKey` | a three-party stream in which each side can fail; a bucket others write to |
| Restore providers `internal/providers` | data directory and server of the target | `Preflight`, `Restore`, `Validate` for PostgreSQL, MySQL, Redis, etcd | a server that restarts while it is polled; retries; lost exit codes |
| State store `internal/state`, `saveState` in `internal/cli/reporting.go` | `last-run.json`, `history/` | `Save`, `AppendHistory`, `Load`, `LoadHistory` | concurrent processes, kills, power loss |
| Reporters `internal/reporter`, `buildReporter` | the chain of reporters | `Multi.Report`, `Conditional.Report`, `httpDelivery.post` | retries, lost answers, deduplication |
| Metrics push `internal/metrics/push.go` | the samples at the Pushgateway | `PushResults` | samples that outlive the run they tell of |
| Run command `internal/cli/commands.go`, `selection.go` | the errors it joins, report files, exit code | `runCmd`, `selectDrills`, `writeConfiguredReports` | evidence in four places, any of which can fail |
| Evidence reports `internal/reporter/evidence.go`, `status` and `report` in `internal/cli/commands.go`, `Load`, `LoadHistory` | the report | `LoadHistory`, `BuildEvidenceReport`, `evaluateEvidenceChecks` | a directory that is read while others write it; one verdict in three places |
| Configuration `internal/config` | the expanded text and its source lines, the tree, the first error | `interpolateEnv`, `validateConfig`, `configFieldNode` | line breaks made of two parts; merged and aliased mappings |
| Checks and quantities `internal/engine/eval.go`, `Validate` of the providers, `parseMemory`, `parseCPU` | the answers, the verdict, the limits of a target | `Validate`, `EvalExpression`, `parseMemory`, `parseCPU`, the limits in `Create` | expectations told by their beginnings, overflow, values that are dropped |
| Doctor `internal/cli/doctor.go` | its counts, and the directories it makes | `runDoctor`, `finalize` | rules that the run decides on its own, in other code |
| Logging, version, `main` | none | | |

How they interact: the run command reads the configuration, selects drills,
builds the reporter chain and calls the engine. The engine calls a provider for
each drill and gives it a target of the runtime; the provider calls staging,
staging calls `CopyTo` of the runtime. When all drills have ended the engine
calls the reporters, and the command then saves the state, writes the report
files, pushes the metrics and turns everything into an exit code. Drills of a
parallel run share the runtime and, at the end, one slice; `report` and `status` read what runs have
saved; `doctor` looks at the same environment beforehand; processes of
restore-drill share the state directory, the bucket, the Pushgateway, the
daemon and the namespace.

What makes each part correct:

* engine: a target that survives its drill is announced; a pass is earned; the
  report is complete and in order; the deadline ends a drill;
* runtimes: a target that was handed out stays until its drill releases it; a
  target is lost only if a request of its call failed, or was cut off by the
  drill's deadline;
* staging: what is staged is the whole source; nothing reads the source
  afterwards; the error names the side that failed; Stage returns;
* latest object: no older than any backup that was there all the time, and
  found if there is one;
* providers: what Restore accepts is the backup, applied once and served;
  a missing command is found by Preflight; Restore returns;
* state: never torn, each run recorded once, append-only;
* evidence: what a report counts is the history; failures are explained, and
  failed in one place is failed in all;
* reporters: nil means delivered; no duplicates without a lost answer; one
  reporter per alert;
* run command and metrics: exit code 0 is a gate; evidence survives a failing
  alert; reports and samples tell of the run they claim to tell of;
* configuration: an error points to the line of the file and to the value that
  the decoder took;
* checks: a drill passes exactly when the restored data is what the
  expectations say; limits are those asked for;
* doctor: no part of the run fails that doctor has seen work; section 6 lists
  what it does not look at.

## 2. The modules

| Module | Models | Relation |
|---|---|---|
| `DrillEngine` | `Run`, `RunParallel`, `executeDrill` | |
| `DrillLifecycle` | what a run promises to its operator, without the how | implemented by the engine |
| `DrillRefinement` | the mapping from the engine to the lifecycle | EXTENDS `DrillEngine`, INSTANCE `DrillLifecycle` |
| `DrillEngineProofs` | theorems on the engine and on the refinement | EXTENDS `DrillRefinement` |
| `StateStore` | `saveState`, `Save`, `AppendHistory` | |
| `Evidence` | `LoadHistory`, `BuildEvidenceReport`, `status`, `report`, beside processes that save | EXTENDS `StateStore` |
| `StateStoreProofs` | theorems on the store, alone and with its readers | EXTENDS `Evidence` |
| `Reporting`, `ReportingProofs` | `buildReporter`, `Multi`, `Conditional`, `httpDelivery` | |
| `RunCommand`, `RunCommandProofs` | `runCmd`, selection, report files, push, exit code | has the engine, the reporters and a save as single steps |
| `TargetService` | what `engine.Runtime` promises of `Create` and `Destroy` | implemented by both runtimes |
| `DockerTargets`, `KubernetesTargets` | `Create` and `Destroy` of each runtime | INSTANCE `TargetService` |
| `Runtimes` | `newRuntime`, and the drills on the runtime it chose | EXTENDS `KubernetesTargets`, INSTANCE `DockerTargets` |
| `RuntimesProofs` | theorems on each runtime, and on the one a command works with | EXTENDS `Runtimes` |
| `Staging` | `Stage`, `stageSource`, `writeTar`, both `CopyTo` | |
| `LatestObject` | `downloadS3`, `latestObjectKey` | |
| `StagingProofs` | theorems on both ways to a source | EXTENDS `Staging`, `LatestObject` |
| `ProviderRestore`, `ProviderRestoreProofs` | `Preflight` and `Restore` of the four providers | has staging as a single step |
| `Configuration` | `interpolateEnv`, `validateConfig`, `configFieldNode` | |
| `Checks` | `Validate` of the providers, `EvalExpression`, the verdict | EXTENDS `Configuration`, whose accepted types it uses |
| `Limits` | `parseMemory`, `parseCPU`, the limits of a target | |
| `Doctor` | `runDoctor`, and the run after it in the same environment | |
| `Commands` | the four of them as the commands that run them | EXTENDS `Checks`, `Limits`, `Doctor` |
| `CommandsProofs` | theorems on configuration, limits, doctor and checks, alone and together | EXTENDS `Commands` |
| `MC...` | the constants of small instances | |

The layers meet at named boundaries. To `DrillEngine` the runtime and the
provider are an environment that may do what the lower modules show them doing:
its fault "orphan", and a create call that the deadline cuts off, are
`TargetService` calls that are refused with their target lost; a restore that fails is any outcome of `ProviderRestore` but "restored".
`RunCommand` may draw any outcome per drill that `DrillEngine` can publish.
What is a match, mismatch or error of a check in `DrillEngine` is worked out in
`Checks`.

### DrillEngine

`pc[d]` is where `executeDrill` is for drill d, `result[d]` its named result,
`results` the slice of `Run` (appended to) or `RunParallel` (slots filled from
goroutines), `target[d]` and `data[d]` what is really there, `expired[d]` and
`cleanupExpired[d]` the two contexts. There is one action per call that
returns: `CreateSucceeds`, `CreateFails`, `CreateTimesOut`,
`PreflightSucceeds`, `RestoreSucceeds`, `ValidateSucceeds`, `PhaseFails`,
`PhaseTimesOut`; `CleanUp` is the deferred function up to `Destroy`,
`DestroySucceeds` and `DestroyFails` the rest of it, `Publish` the write to the
slice. `StartReport` and `FinishReport` are the call of the reporter.
A create request that nobody waits for any more is "asked"; `ServeLate` is the
runtime that serves it, while the drill goes on, after it, or after the report.

Abstractions: a check is read as match, mismatch or error (`Checks` has what
decides it); provider and runtime calls are
atomic when they return; `provider.Cleanup` returns nil in all four providers
but may fail here, as its interface allows; the command's own context never
ends, since nothing in the program handles signals. `ObservesContext` is TRUE
for a runtime whose calls return when the context ends (Kubernetes) and FALSE
for Docker's `Exec`, whose copy of the hijacked stream nothing interrupts.

### StateStore

A process is the run it saves. Each system call of `Save` and `AppendHistory`
is an action: `CreateTemp`, `WriteAndSync`, `Rename` with `SyncLastDir` for
`last-run.json`; `Link`, `LinkExists`, `SyncHistoryDir` for the history, with
the search for a free suffix. `Kill` stops a process between any two of them.
A file's content is torn, cached or flushed; `PowerLoss` tears what is only
cached and keeps any part of the directory changes that were not synchronised
(`lastDisk`, `onDisk`). Temporary files are never read, and the creation of the
directories themselves is taken to be durable.

### Evidence

The processes of `StateStore` save, are killed and lose power while a reader
runs `report` or `status`. `OpenHistory` takes the window and the directory,
`ReportHistory` is `LoadHistory` over any listing that has all of what was
there when it began and any part of what came later, the leftovers of killed
processes included (`DirEntry`), followed by `BuildEvidenceReport`, whose two
loops are recursive functions over the runs and over their results. Runs with equal times come in any
order, as `sort.Slice` is not stable. An entry never changes once it has its
name, which is why the files can be read in one step. The times spent and the
HTML, JSON and Markdown text are left out. One run may have been saved before
all others (`Earlier`).

### Reporting

`BuildNext` is the loop of `buildReporter` over the alerts with its `seen` map;
`SkipGated`, `ReportLocal`, `StartPost` and `GiveUp` are `Multi` and
`Conditional`; `PostAccepted`, `PostFails`, `PostAnswerLost`, `PostRejected`
are the attempts of `post`, which retries transport errors and 5xx answers and
returns at once on others. `received` and `lost` count what really happened at
the endpoints. The text of the messages is left out.

### RunCommand

One action per step of `runCmd`, in its order: select, run (engine and
reporters), save the last run, append to the history, render and write each
configured format, push, judge, exit. `errs` are the errors it joins, `logged`
those it only logs. Runs follow one another as a scheduler starts them, so that
stale state of the last run can be found. An HTML or Markdown report is rendered
from the history as `LoadHistory` returns it: entries that cannot be read or
decoded are passed over without a word (`skipped`). The run number is also the clock of
the retention; the configuration and the grouping of the push stay the same;
the layout of report paths is left out.

### TargetService, DockerTargets, KubernetesTargets

Each API call of `Create` and `Destroy` is an action that may be served and
still fail for its caller (`failed` remembers for whom). In
`KubernetesTargets` a pod is named after the clock, so two calls in a tick want
one name, and a delete goes by name; `GiveUpWaiting` is the poll's own five
minutes. In `DockerTargets` the daemon gives unique ids, images are shared and
can be pruned between two steps. Only `Destroy` and the daemon's users remove
targets; ports, labels and limits are left out. A create request whose answer is
lost, or not awaited because the deadline passed, is served at once, later or
never (`ServeCreate`). The mapping to `TargetService` calls a target lost when
its call has ended, it is still there, and the call missed the answer to its
create or its delete failed.

### Runtimes

`NewRuntime` is `newRuntime`: `--runtime` and, for "auto", the environment of
the cluster. From then on only the steps of the chosen runtime are taken. The
client that cannot be made is "refused", as is an unknown mode.

### Staging

`stage` is the caller in `stageSource`, `writer` the goroutine of `writeTar`,
`pipe` the unbuffered pipe between them, `pump` the copy loop of `CopyTo`,
`tar` the command in the target. An archive is a number of entries and a
trailer; `SourceFails` keeps the detail that `tar.Writer.Close` writes a
trailer after an error between two entries. The runtime is chosen with the
initial state, since Docker and Kubernetes differ in when `CopyTo` returns
(`DockerCopyReturns`, `KubernetesCopyReturns`). tar is taken to read its whole
input before it exits with 0.

### LatestObject

`NextPage` is one page of the listing with the comparison across pages,
`Choose`, `NoObjects` and `GetObject` the end of `downloadS3`. Other jobs
`Upload`, overwrite and `Delete` at any time, and the bucket's clock may stand
still, so that modification times are equal. A key that is already
listed shows later writes only in `GetObject`.

### ProviderRestore

`todo` is the plan of the tool, one step per call the provider makes in the
target; `server` is the image's server with its temporary and final phases;
`files`, `served`, `sent`, `applied` are what is really restored. `Checked` is
what `Preflight` asks for and `Needs` what a step really runs. `Connect`,
`AttemptFails` and `IsConnectionStartupError` are `execWhenStable` of
PostgreSQL. Commands with alternative names (mysql or mariadb) count as one.
`Validate` changes nothing; it is in `Checks`. A backup that is cut is noticed
where it is compressed or an archive; a plain dump that ends early and that the
tool takes for complete is not told from a short one, and not modelled.

### Configuration

`WriteLiteral` and `WritePlaceholder` are `writeText` on the parts of a file,
with `sourceLines`, `line` and `previousCR` as in the code; a text is a
sequence of line breaks and of "x" for everything else. `file`, `placeholders`
and `origin` only record: what was read, where placeholders began and ended,
and which place of the file each character of the expanded text comes from.

`ParseConfig` takes any document that can be spread over as many lines as the
text has: the tree of the YAML parser, with aliases and merge keys. Its nodes
are numbered so that a node comes before those it contains or points to
(`IsTree`), since yaml.v3 does not decode an anchor that contains itself.
`Rules` lists the rules of `validateConfig` in their order, and
`configFieldNode` finds the node of the field that the first broken rule names,
with `MappingValue` for `configMappingValue` and `FieldStep` for its loop. What
the decoder does with a document, as far as the code relies on it, is external:
`Fields` are the fields of each node once merge keys are resolved, `Way` the
nodes on the way to a field, `Decoded` the last of them. Errors of the parser
and the decoder themselves, which carry lines of their own, are left out.

### Checks

`StartChecks` takes the checks of an accepted configuration, `ValidateCheck` is
one command in the target, `EvaluateCheck` one call of `EvalExpression` with
its forms in the order in which the code tries them. What the code finds in a
text (a number, a timestamp, the items of a list) is a field of `Syntax` or
`Reading`; so the tests of the code are kept and the characters are not.
Durations are int64 (`Wrap`). Fractions, NaN and infinities are left out.

### Limits

`ParseResources` is `parseMemory` and `parseCPU` as `executeDrill` calls them,
`CreateOnDocker` and `CreateOnKubernetes` what the runtimes make of the two
numbers. int64 wraps (`Int64`); a float that is too large becomes what the
processor makes of it, which differs between amd64 and arm64.

### Doctor

`runDoctor` check by check, each with what it adds to the counts and what it
does to the file system, then a run in the same environment: `SetUp` up to the
client of the runtime, `CreateTargets` (the create requests, which need more than
the list or the ping that doctor asks for), `SaveState` (`Save`, and
`AppendHistory` with the directory of the history), `WriteReports` (the files,
and the history that HTML and Markdown are made of), each with the code's own way
of finding the path, the runtime and the namespace. A part fails also when the run
only logs it, as it does for the state. An environment is a record of what the two
can meet. Alerts and metrics are no part, since doctor looks at neither; the
tables and the JSON are left out.

`Commands` puts the four modules side by side: they share no state, each
behaviour is one of them.

## 3. The runs

All passing runs are exhaustive.

| Run | Shows |
|---|---|
| `engine_parallel` | two goroutine drills (two checks, one check), all faults: `NoSilentLeak`, `PassIsEarned`, `ReportIsComplete`, and that the engine implements `DrillLifecycle` |
| `engine_sequential_keep` | three drills one after the other with `--no-cleanup`, one without a provider: kept targets are named, the appended slice is complete |
| `engine_timeouts` | nothing answers unless it wants to: `TimeoutEndsDrill`, the fair lifecycle, and `OnlyCutOffCreateLeaks` |
| `store_readers` | a run in the history, two processes that save, two names per timestamp, kills, a power loss, and a reader: `NeverTorn`, `RecordedOnce`, `HistoryOnlyGrows`, `ReportIsTheHistory`, `LastStatusIsLatest`, `FailuresAreExplained` |
| `reporting_delivery` | five alerts with duplicates, gates and an alert without reporter: `NilMeansDelivered`, `DuplicatesNeedALostAnswer`, `OneReporterPerAlert` |
| `latest_object` | a listing in two pages while the bucket changes: `LatestIsFound` |
| `staging_faults` | both runtimes, all faults: `StagedIsWhole`, `WriterEndsFirst`, `CauseIsNamed`, `StageReturns` |
| `restore_faults` | ten tools, all origins, missing commands, failing servers: `RestoredIsTheBackup`, `DumpAppliedOnce`, `MissingCommandStopsPreflight`, `RestoreReturns` |
| `run_evidence` | three scheduled runs with failures and kills anywhere: `ExitZeroIsAGate`, `EvidenceSurvivesAlertFailure`, `ReportsShowTheirRun`, `SuccessIsCurrent` |
| `runtimes` | any `--runtime`, then two parallel drills, on pods in one or two clock ticks or on containers with a prune: `HandedTargetSurvives`, `KubernetesCreateReturns`, and `TargetService` for both |
| `commands` | each of the four modules of `Commands` over its inputs: `SourceLinesFollowTheFile`, `ErrorShowsTheValue`, `VerdictIsTheMeaning`, `LimitsAreKept`, `DoctorForeseesTheRun` |
| `run_alerts` | a violation of `FailureRaisesAlert`: see section 6 |

Bounds, and why they are enough:

* engine: the properties speak of one drill or of its place among the others,
  so two goroutines show every order, and three sequential drills show a first,
  a middle and a last one. The theorems hold for any number.
* store: `MaxAttempts` is 2 for 1000, so that the earlier run and two processes
  with its timestamp use up the names; two clock values give equal and
  different timestamps; one power loss, because after it the store is again in
  a state in which everything visible is flushed. Two drills, one of which some
  run leaves out and whose verdicts change from run to run, so that each run,
  line and drill can be told apart in a total.
* reporting: the five alerts have each case of the deduplication key once;
  `MaxAttempts` is the code's 3.
* staging: three entries let the pipe hold, have passed on and still lack one.
* latest object: four keys in pages of two, two of them folder markers, give
  pages with none, one or two candidates; times 1 and 2 give older, equal,
  newer.
* restore: two statements distinguish none, some and all of a dump. Images that
  serve on their own are given to the tools where this differs (`ServingImages`).
* run command: two drills and a retention of one run need three runs to push
  one of them out of the window.
* runtimes: names collide between two calls; each call's own story does not
  depend on a third.
* configuration: two placeholders and six literals with every kind of line
  break at their ends give every way in which a CR LF can be made of two parts;
  the documents have one drill with its own, one or two merged, listed or
  chained mappings, and each rule broken alone.
* checks: an answer and an expectation of each form and of each form that only
  looks like one, alone and in pairs. `MaxInt` is 15 units, so that an age
  that overflows is small.
* limits: an int64 ends at 500 and a milli is 10 nanos; quantities lie at,
  below and above each boundary.
* doctor: what concerns the set-up and the runtime, what concerns the report
  path, what concerns the state and its history, and the tools, each in full;
  they share nothing but the counts, and the reports the history.

`CHECK_DEADLOCK FALSE` is set for the modules whose calls simply end (staging,
targets, restore, latest object, run command, readers, `Commands`). The engine
has an action for the end instead, so that TLC looks for deadlocks.

Each property of a passing run has a mutant in the index: a definition replaced
by one with a plausible bug (a dropped guard, a missing reset, the wrong
context), for which the property fails.

## 4. Fairness

* Engine: the drill's deadline passes (`Expire`), and a step that waits for
  nothing is taken (`Settle`). Nothing says that a create, preflight, restore
  or validation ever gets an answer; this is why the timeout has to do it. The
  clean-up has a context of its own of 30 seconds, so its `Destroy` returns.
* Kubernetes targets: the caller's goroutine goes on and the API server serves
  a create request, once the runtime has been chosen (`RuntimesSpec`). No pod
  needs to start, a Get may fail for ever, and no deadline is assumed.
* Staging: goroutines run and files can be read; the deadline passes. When the
  target may stall, the delivery to it is not fair; this is only asked of the
  Kubernetes `CopyTo`, since Docker's does not watch its context (section 6).
* Restore: the provider goes on, and its own two deadlines ("wait", "retry")
  pass. Nothing is assumed of the server or of the drill's deadline.

## 5. What is proved

For every value of the constants that satisfies the assumption its module
states (`EngineAssumption`, `StoreAssumption` with `EvidenceAssumption`,
`KubernetesAssumption`, `ReportingAssumption`, `StagingAssumption`,
`LatestAssumption`, `RestoreAssumption` with `ToolsArePlanned`,
`CommandAssumption`, `ConfigurationAssumption`, `LimitsAssumption`,
`DoctorAssumption`, `ChecksAssumption` with `SyntaxAssumption`):

`DrillEngineProofs`, for any number of drills, sequential or parallel, kept or
cleaned up, under every set of faults:
`TypeCorrect`, `LeaksAreReported`, `PassesAreEarned`, `ReportsAreComplete`,
`KeptTargetsAreNamed`, `CutOffCreatesLeak`.
None of these properties is inductive. The invariant is

    IInv == TypeOK /\ StepInv(d) /\ OutcomeInv(d) (all d) /\ SliceInv /\ RunInv

* `StepInv` says what each step of `executeDrill` may take for granted: between
  `Create` and the clean-up the target is live and the result names it;
  validation reads restored data.
* `OutcomeInv` says what a result says of the world: a passed validation means
  matching checks on restored data; a target that is still there at the end
  comes with an error or a skipped clean-up, and, if the clean-up was asked
  for, with a fault that excuses it.
* `SliceInv` ties the slice to the drills. It is where `Run` and `RunParallel`
  differ: an appended slice ends with the last finished drill and at most one
  more has begun; a pre-sized slice holds the zero value in unfinished slots.
* `RunInv`: the report begins when all drills are done.

Each action has a lemma that says which parts it disturbs; `LocalTo(d)` does
the rest for the steps that only touch drill d.

`EngineImplementsLifecycle`, by showing that the
initial states map to initial states and every step, under IInv, to a step of
the lifecycle or to a stutter.

`StateStoreProofs`, for any number of processes, attempts and losses:
`TypeCorrect`, `FilesAreWhole`, `RunsAreRecordedOnce`, `HistoryIsAppendOnly`
from `IInv == TypeOK /\ Flushed /\ Recorded`: nothing gets a permanent name
before it is flushed, and an entry exists exactly at the steps of its process
that follow the link. The same holds with readers and an earlier run
(`ReadersInvariant`, `ReadersFindWholeFiles`, `ReadersFindRunsOnce`,
`ReadersSeeHistoryGrow`): a step of a reader is a stutter of the store
(`ReadersKeepTheStore`), and the new initial states satisfy IInv.

What a reader shows, for any number of processes, drills, checks and results:
`ReportsAreTheHistory`, `StatusIsTheLatest`, `FailuresHaveAReason`, from
`ReaderInvariant`. `ReaderInv` says that what was listed is still there
(`KnownInv`) and that a report `Tells` of the lines of the runs it counts: sums
over all and per drill, a latest verdict for each drill, a row for each failure.
A report is what two nested loops leave, so this is induction over data. It is
done without the induction theorems, which the provers cannot instantiate: a set
of numbers up to n that has 0 and with each i also i + 1 is all of 0..n, since a
smallest missing one would have a predecessor (`SmallestExists`, `UpTo`).
`Loop` shows in the same way that a loop has a function of its states, so that
the recursive functions, which TLA+ chooses, are what their equations say
(`AddRunLoops`, `BuildLoops`). `ResultAdded` is one pass of the inner loop,
`RunAdded` one of the outer, `BuildTells` the whole. Steps of the store keep a
report true because they only add entries with new names (`WriteGrows`,
`GrowthKeeps`). `EvidenceAssumption` asks that there be finitely many processes,
and that none records an empty run: a configuration without drills is refused.

`RuntimesProofs`, for any number of drills that share a namespace or a daemon:
`KubernetesLeaksNeedFailedCall` and `RuntimeImplementsService`, for pods also
`HandedTargetsSurvive`; `Docker...` are the same for containers. `Owned` says
at which steps a call has its target, and who is to blame for one that is left.
For pods it is not inductive alone: a delete goes by name, and two calls in one
tick pick the same name. `NamesAreUnique` adds that no two *existing* pods
share one, so that the name of a pod a call still owns can only hit that pod.
For the refinement `Owned` also excludes that a create is still outstanding
when a target has been released; a step of a call changes the mapping at that
call only (`OthersKeep`), which leaves one abstract step or a stutter to show.
`EachRuntimeIsItself` shows that a behaviour of `Runtimes` is one of both: what
is done on the runtime that was chosen is a stutter of the other. So everything
holds of the runtime that a command works with (`HandedTargetsSurviveRuntimes`,
`KubernetesServes`, `DockerServes`, `LeaksNeedAFailedCall`).

`ReportingProofs`, for any alerts, endpoints and attempts: `NilIsDelivery`,
`DuplicatesAreBounded`, `AlertsHaveOneReporter`. `ChainInv` says which alerts
the loop has turned into reporters, `BehindInv` that every reporter behind the
current one is served or gated, `CountInv` that the current post has been
received exactly as often as an answer to it was lost, and the later ones never.

`StagingProofs`, for a source of any length, both runtimes and any faults:
`StagedBackupsAreWhole`, `WritersEndFirst`, `CausesAreNamed`. `TargetInv` counts:
tar has what was written less the entry that CopyTo holds; `WriterInv` says that
a closed pipe is the caller's doing, so that "closed pipe" cannot be the error
of a copy that succeeded; `CallerInv` that the archive's error has been sent
whenever the caller acts on it.
For any number of keys, any page size and any other jobs: `LatestIsAlwaysFound`.
`BestSoFar` compares the best object with the stable backups that the cursor has
passed; since the bucket changes meanwhile, `Renewed` and `ChosenStays` say that
objects become only newer, or are deleted.

`ProviderRestoreProofs`, for any tools, origins, images, missing commands and
faults, and dumps of any size: `AppliedOnce`, `RestoredIsBackup`,
`PreflightFindsMissing`. `PlanInv` says that what is left to do is a suffix of
the plan of the tool, so that each step knows which ones it follows. `DumpInv`:
statements are applied only on a connection that loads, as many as were sent,
and a connection that failed before was none that had loaded. `PhysicalInv`
ties files and server together: no server runs on the directory until the files
of the backup are in it (`ServerInv`, `FilesInv`), the server that is then
started serves them (`ServedInv`), and a cut archive does not get past its
unpacking (`WholeInv`). It was in this proof that the third exception of
section 6 was found.

`RunCommandProofs`, for any drills, requests, formats, retention and number of
runs: `ExitZero`, `EvidenceSurvives`, `ReportsShow`, `SuccessCurrent`. The
command is a straight line that any of its steps may leave, so the invariant
has one part for each store of evidence, which holds from the step that writes
it on (`StateInv`, `FilesInv`, `PushInv`), and `SelectedInv`, `OutcomeInv` and
`JudgedInv`, which bring what was asked for, what was run and what is told
together.

`CommandsProofs`:
`LinesFollowTheFile`, for all texts and placeholders and any number of them.
`LinesInv` holds between two parts of a file. `Lies` says that origins and
placeholders are places of what was read, so that more of the file does not move
them (`Grown`); `Follows` that each line of the expanded text is told as the
least of the lines that it may be, and also the line that begins if a character
is written next, since that one is told before it has any; `Reached` that `line`
and `previousCR` are those of the file and of the text. Within a part, `Between`
is the invariant of the loop of `writeText` (`TextWritten`): a character is no
break, a new one, or the second half of one (`OneCharacter`), and only in the
third case a line that was told may change, which `EachLine` therefore allows of
the last line while the text ends in CR. Behind a placeholder `line` jumps by
its own breaks, which is what the exception of the property accounts for
(`PlaceholderEnds`). The exception had first named only the placeholder of the character before a
line. The attempt to prove it showed two more cases, which `MCPlaceholders` now
has: a placeholder of several lines with an empty value may follow the break,
and a CR LF made of two values is told when its CR is written.
`ErrorsShowTheValue`, for every document: `PlaceInv` says that the node of an
error is that which `configFieldNode` finds for a field of the rules, and the
rest is about data. Aliases, merged mappings and `configMappingValue` are
recursive over the document; as a node comes before those in it, induction goes
from the last node to the first (`DownTo`), and a function that solves the
equation exists because what is asked at a node depends on later ones only
(`Downward`; `FieldsAre`, `FindsIs`). `FindsTheField` compares the two: at each
node the search finds the decoder's field, in a list of merged mappings the
first that has it. `FieldNodeIs` follows both along the path of the field, as
loops. It needs that no rule names the field "<<" (`FieldType`, over all rules
and all lists of drills, checks, alerts and formats): for the name "<<" the two
differ.
`LimitsFollowTheConfiguration`, for any quantities and any width of the
integers, from what wrapping and the division by a milli do to a number
(`Int64Fits`, `Int64Bounded`, `WholeMillis`).
`DoctorForesees`, for every set of environments. `SoundSoFar` says what each
check that is behind doctor has established, unless it has counted a failure;
making its own directories does not undo it (`MkdirMakes`), and what the run
then meets is the same environment.
`VerdictsAreMeant`, for all lists of checks and all that clients print.
Answers and results are those of the checks in their order (`AnswersInv`,
`PassedInv`), which makes it a question of one expectation: what `EvalExpression`
accepts is meant (`EvalIsMeant`), and what is meant is accepted (`MeantIsEval`).
`ChecksAssumption` asks that the number a client prints be found again: alone,
or behind the label that `redis.go` cuts off. `SyntaxAssumption` asks that a
text be of one form: `EvalExpression` tries its patterns one behind the other,
each with `^` and a letter or operator of its own, and the model's syntax
records for each text what the pattern that is reached finds.
`EachCommandIsItself` takes the five to `CommandsSpec` (`CommandsFollowTheFile`,
`CommandsShowTheValue`, `CommandsKeepLimits`, `CommandsForesee`, `CommandsMean`).

Every safety invariant that a run checks is stated by a theorem. Only
model-checked: everything temporal that needs fairness (`TimeoutEndsDrill`,
the fair lifecycle, `StageReturns`, `RestoreReturns`,
`KubernetesCreateReturns`), which is outside what the proof system can do.
`LeakNeedsFailedCall` is proved for both runtimes and is part of what
`TargetService` asks, so that no run checks it by itself.

## 6. Where the code and its documents disagree

**The failure alert misses a drill whose clean-up failed** (run `run_alerts`).
`docs/reference/reporting.md:217-219` says that the failure alert and the
stale-success alert together see failed runs. `PushResults` sets
`validation_passed` from `ValidationPassed` alone (`internal/metrics/push.go:80`)
and drops `last_success_timestamp` when there is an error: a drill that
validated but could not remove its target is pushed with `validation_passed` 1
and without a last success, and neither expression fires, although the run
exits non-zero.

**The line behind a placeholder of several lines** (`Commands_lines.cfg`).
`docs/guides/configuration.md:22-23` says that semantic line numbers refer to the
original file, and that errors in inserted content point to the placeholder. A
default may contain line breaks, `${NAME:-a<LF>}b`. When the value ends with a
line break, the text behind the placeholder begins a line, and this line is told
as the one on which the placeholder begins and not as the one it is on: the break
was given that number when it was written (`internal/config/loader.go:175`), and
the placeholder's own breaks are counted only then (`loader.go:192`).
`SourceLinesFollowTheFile` says exactly which lines are affected: those before
which a placeholder of several lines has ended since the break that begins them
(`Lines`).

**doctor is not the run** (`NotForeseen` in `Doctor`). `doctor` trims `--runtime`
(`doctor.go:141`) and `newRuntime` does not, and it has none of the run's other
flags. It asks for a list of pods in the namespace "restore-drill"
(`doctor.go:176`) or pings the daemon; the run asks for new pods in
`--kube-namespace`, or for a container. It makes a new file in the state
directory; the run replaces `last-run.json`, stores its contents and links an
entry into the history, a directory that doctor does not look at
(`state.go:98-102`). It tries the report directory with a new file, so that a
report that exists and is locked goes unseen, as does a lack of room. HTML and
Markdown need the history to be listed (`reporting.go:177-180`). And with several
formats the run takes an output that names a file for a directory.

**A report may lack its own run** (`ReportsShowTheirRun`). `LoadHistory` passes
over entries that it cannot read or decode (`state.go:144-151`), and
`writeConfiguredReports` takes the current run only if nothing else is left
(`reporting.go:181`): with its own entry unreadable and another in the window, the
report shows the other run alone, and nothing is logged.

**A late create leaves a target** (`OnlyCutOffCreateLeaks`). When the deadline ends
the request for a new pod or container, the request may have been served or be
served later, on a runtime that works (`k8s.go:121`, `docker.go:102`): nobody
knows of the target. The result of the drill has the error of the create call.

**Expectations and quantities.** `VerdictIsTheMeaning` excepts an age whose
number of hours overflows a `time.Duration` (`Overflows`, `eval.go:111`), and
literals that begin like another form, such as "agent-1" or "<none>"
(`Misread`): they make a drill fail. `LimitsAreKept` excepts quantities that
are not understood or do not fit an int64, and a CPU below a milli on
Kubernetes: the target may then have no limit, and nothing is said.

Five more configurations show a property that the code does not have. They are
kept beside the runs, and each ends in a counterexample:

| Configuration | Property | What happens |
|---|---|---|
| `Engine_exec_hang.cfg` (`MCDrillEngine`) | `TimeoutEndsDrill` | Docker's `Exec` copies the hijacked stream without watching the context (`docker.go:193`): a command that hangs in the target outlives the drill's timeout |
| `Store_last_run.cfg` (`StateStore`) | `LastRunNeverGoesBack` | the timestamp is taken before the rename (`cli/reporting.go:98`): of two overlapping processes the earlier can save last |
| `Reporting_each_asked.cfg` (`MCReporting`) | `EachReporterIsAsked` | `Multi.Report` returns the first error (`multi.go:25`), and the reporters behind it are not asked |
| `Commands_lines.cfg` (`MCCommands`) | `LinesAreTheFiles` | a line that begins behind a placeholder of several lines is told as the one on which the placeholder begins (`config/loader.go:175`) |
| `Restore_strict.cfg` (`ProviderRestore`) | `RestoredIsAlwaysTheBackup` | `gzip -dc F \| psql` without pipefail (`postgres.go:237`, `mysql.go:175`) accepts a truncated dump; a hot standby answers before the recovery target is reached (`postgres.go:201`) |

`RestoredIsTheBackup`, which passes, excepts these two cases by name
(`Unprotected`) and a third one: an image whose own server is already running,
which `waitReady` of MySQL, Redis and etcd takes for the one just started;
only `pg_ctl` refuses to start a second server. And `MissingCommandStopsPreflight` excepts the tar of the
staging, which no Preflight asks for, and the form of an object that is chosen
later. The exceptions are the exact reach of the code's protection.

## 7. Not modelled

* Logging, version, `main`: no state of their own.
* Rendering: the text of messages, tables, HTML, JSON and Markdown. A writer
  succeeds or fails.
* The YAML parser and decoder, the clients of Docker, Kubernetes and S3, and the
  tools in the target: external, modelled from how the code uses them.
* Three hazards have no model: the retry of PostgreSQL does not know the
  message of a server that is shutting down (`postgres.go:346`), so that a dump
  that could be retried fails; `waitStopped` of MySQL takes a failing ping for
  a server that has ended (`mysql.go:301`); an overflow in the number of days
  of a retention. Each is a matter of texts or times below the steps here.
* The port bindings, labels, annotations and pull secrets of targets: they are
  handed on unchanged.

## 8. Plan

The order was: the engine with its abstract lifecycle and their proofs; the
state store and its proofs; reporters; the run command above them; the layers
below the engine (runtimes with `TargetService`, staging, latest object,
providers); the readers of the store; the choice of the runtime; what the
commands do beside their drills (configuration, checks, limits, doctor); the
proofs of reporting, staging, latest object and limits; the proofs of the run
command, the providers, doctor and the checks, of the compositions `Runtimes`
and `Commands`, of the readers' reports, and of the configuration.

What remains is one composition of `RunCommand` with the store's steps instead of
its save as a single step.
