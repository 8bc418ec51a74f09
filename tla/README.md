# A verification development for AliasAI

AliasAI is a local, single-user Electron program. It imports PDF files into
Matters, parses them with a Python worker, detects private values, resolves
them to Entities, lets a person review the result, replaces the values by
tokens, sends the sanitized text to an AI provider and restores the tokens in
the answer. All durable state is in one SQLite database; the main process is
one Node event loop over a *synchronous* SQLite driver.

This directory holds TLA+ modules of its state machines, the TLC
configurations that check them on small instances, and proofs for TLAPS.
Paths below are relative to the root of the repository.

Contents: [1 inventory](#1-inventory) · [2 plan](#2-plan) ·
[3 the models](#3-the-models) · [4 runs](#4-what-the-runs-check) ·
[5 proofs](#5-what-is-proved) · [6 disagreements](#6-where-the-code-and-its-words-disagree) ·
[7 not modelled](#7-what-is-not-modelled)

To repeat: `tlc -config MCDocumentAnalysis_races.cfg MCDocumentAnalysis`, and
the same for each `.cfg` with the module its name begins with;
`tlapm DocumentAnalysisProof.tla`, and the same for `WorkspaceLifecycleProof`,
`EntityReviewProof`, `ShutdownProof`, `AiExecutionProof`, `ProviderSettingsProof`,
`PythonBridgeProof` and `AnalysisWindowProof`. The runs of section 4 are those of `PROJECT.json`;
the other configurations are described in sections 4 and 6.

## 1 Inventory

### The parts, their state and their operations

| part | code | state | operations | what makes it correct |
|---|---|---|---|---|
| Background analysis run | `packages/application/src/document-analysis.ts`, `apps/desktop/main/src/document-analysis-runner.ts`, `packages/domain/src/analysis-stage.ts` | `#runs`, `#unrecordedFailures` of the runner; `#pendingTerminalFailures` of the service; the local variables of a suspended `analyze` | start, read the status, run a stage, wait for a stage of somebody else, record a failure, record it again at the next start | the reservation is given back; the renderer always has something to see; a failure is not retried unasked; the stages run in order |
| Analysis failure sink | `packages/database/src/analysis-failure.ts` | none of its own | `recordAnalysisFailure`: one transaction | it never overwrites the work of another owner, never moves a trashed Document, and never strands one |
| Stage services | `document-processing.ts`, `privacy-detection.ts`, `entity-resolution.ts`, `sanitization.ts` in `packages/application/src` | the local variables of a suspended call | begin, work, complete, fail | only the owner of a live stage ends it; a failed stage can be retried |
| Repositories | `packages/database/src/repositories.ts`, `review-queries.ts` | the rows of `documents`, `processing_jobs`, pages, mentions, entities, ... | the transactions of every service | the tables agree with each other after every transaction |
| Startup recovery | `packages/application/src/startup-recovery.ts`, `StartupRecoveryRepository` | none | once, before any handler is registered | no live row and no RUNNING job survives a start |
| Workspace lifecycle | `packages/database/src/workspace-lifecycle.ts`, `packages/application/src/workspace-lifecycle.ts`, `document-replacement.ts`, `index.ts` | `deleted_at`, the status of a Matter, lineage columns, lifecycle events | import, trash, restore, replace | one active Document per content hash; a linear lineage; nothing busy is moved |
| Entity review | `review-operations.ts`, `review-read.ts`, repositories | mentions, entities, aliases, candidates, constraints, events | assign, confirm, reject, merge, split, rename, constrain, add a mention | no reference to a merged Entity; constraints are respected |
| Resolution scoring | `packages/entity-resolution/src` | none | normalize, score, propose | hard rules win over scores |
| Sanitization and rehydration | `sanitized-preview.ts`, `sanitization.ts`, `packages/pseudonymization`, `packages/rehydration` | sanitized documents and token maps (immutable) | replace spans, restore tokens | what was replaced is what is restored |
| AI execution | `ai-execution.ts`, `packages/ai/src` | execution rows; the active `AbortController` | create, start, answer, fail, cancel, recover | a one-way lifecycle; one terminal state |
| AI provider configuration | `apps/desktop/main/src/ai-provider.ts` | a settings file, the chosen provider, a queue of mutations | save, clear, test, resolve | mutations in invocation order; fail closed |
| Shutdown | `quit-coordinator.ts`, `ipc-operations.ts`, `runtime.ts` in `apps/desktop/main/src` | intake flags, tracked operations, the drain | quit, drain with a deadline of 5 s, close | the database closes once, after what can finish has finished |
| Python worker client | `packages/python-bridge/src` | table of jobs, event queue, the child process | send, receive, exit, stop | each job gets one terminal event, from the child it was sent to |
| Python parser worker | `python/document_parser` | a table of threads, its two pipes | read a request, emit pages, emit one last event, cancel | one last event per job; a cancelled job stops |
| IPC handlers | `apps/desktop/main/src/ipc` | none | one handler per channel | guards before every lifecycle write |
| Renderer | `App.tsx`, `api/hooks.ts`, `components/AnalysisStatus.tsx` in `apps/desktop/renderer/src` | the last read of the Document, the analysis window, the revisions already seen, the polling loop, the schedules in flight | poll, schedule, resume, retry, select, refresh | progress is shown while there is progress, ends when it ends, and leaves a result or a retry |
| Keys | `packages/crypto`, `apps/desktop/main/src/keys.ts` | – | – | outside the models |

### How they interact

A handler calls a service; a service calls repositories, which run
synchronous transactions, and awaits four things: the inspection of the source
file, the Python worker, the detector (a port that may be asynchronous; the
production detector is not) and the AI provider. Two calls interleave *only*
at these awaits, at the macrotask a background run starts with, and at the
100 ms poll of a run that waits. Whatever a call read before an await may be
stale after it, so every write repeats its guards in its transaction. Beside
the database there is process memory: the reservation of the runner, the coded
failure it shows to the renderer, and the failure that the service will try to
record again. A crash loses all of it.

### What is hard

* Three writers may end the same stage: the stage service itself, the failure
  sink of the background run, and startup recovery; and a stage may be started
  by a background run and by a diagnostic IPC channel in the same moment.
* A stage can fail, fail to record that it failed, and then fail to record it
  through the sink.
* `FAILED` is one status for four stages and for failures before, in and after
  a stage; which stage may be retried is inferred from the job rows, in three
  places by three different queries.
* Every write refuses a timestamp below `updated_at`, and timestamps are read
  from the wall clock.
* The trash must stay closed for Documents in work, and Documents in the trash
  must stay as they are.
* An Entity lives on through merges, splits, renames and new Documents; rules,
  proposals, confirmations, links and sanitized artifacts point at it from five
  tables, and each operation repairs some of them.
* A cancellation, the answer of a provider, the trash, a new denied value and a
  crash all meet in one execution row.
* Lines of a replaced worker are still on their way when its successor runs.
* A configuration is in a file, in a keychain and in memory, and three writes
  are not one.
* The renderer sees the main process only through answers that are old when
  they arrive, and must tell an old failure from a new one.

`PROJECT.json` lists every hazard at its line with the properties that cover
it.

## 2 Plan

Each module is written to be proved about as well as checked: parameters are
CONSTANTS with named assumptions, one action per operation, invariants as
conjunctions of named parts, no RECURSIVE operator. The order was from the
centre outwards: what owns the database rows first, then what computes their
contents, then what surrounds them.

| # | modules | what | status |
|---|---|---|---|
| 1 | `DocumentStages`, `DocumentAnalysis`, `DocumentLifecycle`, `DocumentAnalysisProof`, `MCDocumentAnalysis` | the pipeline of one Document; what it promises; the proofs | done |
| 2 | `WorkspaceLifecycle`, `WorkspaceLifecycleProof`, `MCWorkspaceLifecycle` | import, trash, restore and replacement of several Documents and Matters; the proofs | done |
| 3 | `ResolutionRules`, `EntityReview`, `EntityReviewProof`, `MCResolutionRules`, `MCEntityReview` | the rules that decide about a mention; identities under resolution, review and sanitization; the proofs | done |
| 4 | `AiExecution`, `AiExecutionProof`, `ProviderSettings`, `ProviderSettingsProof` | executions among cancellation, settings, trash, clock and crash; the configuration in file, keychain and memory; the proofs of both | done |
| 5 | `PythonBridge`, `PythonBridgeProof`, `MCPythonBridge` | the client and its workers; the proofs | done |
| 6 | `Shutdown`, `ShutdownProof`, `MCShutdown` | quitting: intake, drain, deadline, close; the proofs | done |
| 7 | `OutboundScan`, `Pseudonymization`, `MCPseudonymization`, `MCAlgorithms` | the algorithms without state, each against a definition of what it must find or restore | done |
| 8 | `AnalysisWindow`, `AnalysisWindowProof` | the screen of one Document against the main process; the proofs | done |
| 9 | further proofs in `DocumentAnalysisProof` | `LifecycleSpec`; `RetryRoute`, `PagesCounted`, `TerminalSignal`, `NoSilentRetry`, `LiveHasOwner` | done |
| 10 | further proofs in `EntityReviewProof` and `AiExecutionProof` | `OrderIrrelevant` and `NoLinkByCompetition` of the decision rules; `ScanIsExact` for texts of any length | done |
| 11 | further proofs | `OpenMeansUnassigned`, unique aliases; `CompletedIsWhole` of `PythonBridge`; `StageBudget`; what rehydration does to texts of any length | open |

## 3 The models

### The analysis pipeline

`DocumentAnalysis` models one Document (nothing in the pipeline relates two),
its `processing_jobs`, the background run and any number of concurrent
single-stage channels.

| variable | in the code |
|---|---|
| `doc` | the `documents` row: `parse_status`, `updated_at`, `page_count` set or NULL (`counted`), page rows present (`pages`), mention rows present (`mentions`), `deleted_at` set or NULL (`trashed`) |
| `matterDeleted` | the parent Matter has status DELETED |
| `jobs` | the `processing_jobs` rows of the Document, oldest first; a job's id is its position |
| `call` | per caller: the suspended service call (`process`, `detect`, `resolve`, `sanitize`), where it is and its job id |
| `run` | the registered run and the local variables of `analyze`: `pc`, the stage in progress, the revision it was selected from, the ownership of a caught error, `observedExternalStage`, `ranStages`, and the revision at the moment it was accepted |
| `pending` | the entry of `#pendingTerminalFailures`, at most one |
| `unrecorded` | the entry of `#unrecordedFailures` |
| `clockBehind` | the wall clock reads less than `doc.updatedAt` |
| `up` | the process runs |
| `budget` | what is left of the bounds (not in the code) |

**Atomicity.** A transaction is one step. What happens between two awaits is
several steps (so that a crash can fall between them) that `EventLoopFree`
keeps other handlers out of: a call that has been entered but has not yet come
to its first await or transaction, a stage in `SyncStages` (its work contains
no await that yields), and a run that has just read or caught. `SyncStages` is
a parameter because the detector is a port: `{"RESOLVE", "SANITIZE"}` gives
the program with an asynchronous detector, and with `"DETECT"` added it is the
program with the rule-based detector that `runtime.ts` installs.

**A stage call** (`StageStep`): `InspectSource`/`SourceRejected` for parsing,
`ReuseResult` for an idempotent answer, `BeginStage`/`RefuseStage`/`BeginFault`
for the first transaction, then inside the guarded region `StageCompletes`,
`StageFails` (the work failed, or `complete` refused), `StageFailsOnCompleteFault`,
and `StageAbandoned`/`StageAbandonedOnFault` when `fail` itself is refused and
the error takes the ownership along (`analysisOwner`). The row after a stage,
which `page_count` it keeps, and what a channel or the run does with the
outcome are in `Stamped`, `FailedRow`, `CloseJob`, `Returned` and `Thrown`.

**The run** (`RunStep`): `RetryPending` (`retryPendingTerminalFailure`), then
the loop: `FinishRun`, `AwaitLiveStage`, `RunStage`, `StatusReadFault`,
`RecordStageFailure` (the catch block with its re-read) and
`RecordStageFailureFault`. `SelectAction` is `selectAnalysisAction`.

**The sink**: `SinkAccepts` and `SinkRecords` are the guards and the effect of
`recordAnalysisFailure`, with the inference of the stage (`SinkStage`), the
ownership branch (`OwnerAccepts`) and the revision and stage-family guards
(`PreStartAccepts`).

**The rest**: `StartAnalysis`, `ChannelCall`, `TrashDocument`,
`RestoreDocument`, `TrashMatter`, `RestoreMatter`, `CreateManualMention`,
`DocumentGet`, `Crash`, `Recover`, and the wall clock.

**Abstractions**, each of which a reader should know:

* Timestamps strictly increase: two writes in one millisecond, and with them
  the tie-break between job ids, are left out.
* The `updated_at` of the Matter is not modelled.
* The three attempts of a status read are one: a `"read"` fault is three
  refusals in a row.
* Whether a sanitized artifact exists is the status SANITIZED.
* A missing `sourcePath` and an undecryptable path are source rejections.
* Import and replacement start a run the way `document:analyze` does.
* Trash also looks for a running AI execution, and restore for a conflicting
  content hash; both are in `WorkspaceLifecycle`.
* Whether a Document has mentions is one flag.
* The branch behind `MAX_STAGES_PER_RUN` is not an action; `StageBudget` shows
  that a run never comes near it.

`DocumentLifecycle` is the abstract specification: status, the stage a failure
belongs to, and availability. A stage begins only in its source status or in
its own failure, of an available Document; a live stage completes or fails; an
accepted attempt may also fail before it begins; and the trash moves only
Documents at rest. It knows no jobs, callers, sink or crashes. The refinement
mapping takes `origin` from what the stage selection of the code reads out of
the job rows.

### The workspace

`WorkspaceLifecycle` models any number of Documents in several Matters, the
import and replacement calls that wait for a file, and the audit log. Here the
pipeline of a Document is only what these operations see of it.

| variable | in the code |
|---|---|
| `matter` | the status of each Matter, ACTIVE or DELETED (nothing writes ARCHIVED) |
| `docs` | the `documents` rows, oldest first, a row's id being its position: Matter, file hash, `deleted_at` set or NULL (`trashed`), `supersedes_document_id` (0 when NULL), and the reduced pipeline: `phase` and `ai`, the number of RUNNING executions of its sanitized artifact |
| `runs` | the reservations of `DocumentAnalysisRunner` |
| `op` | per caller: the import or replacement in progress and what it waits for |
| `log` | the `workspace_events` rows, oldest first |
| `up`, `budget` | the process runs; what is left of the bounds |

An import or a replacement is three steps, `PickImport`, `InspectImport` and
`ImportReuses`/`ImportCreates` or `PickReplacement`, `InspectReplacement` and
`Replace`, because `host.pickPdf()` and `inspectDocumentSource` are awaited;
the last step is the path from the inspection through the transaction to
`analysisRunner.start`, which contains no await that lets another handler in.
`OperationEnds` is a cancelled picker, an unreadable file, or any refusal.
Trash, restore, `document:analyze` and the steps of pipeline and AI execution
are one step each. `Analyze`, `BeginStage`, `EndStage`, `BeginExecution` and
`EndExecution` keep the guards that matter here (a stage and an execution
begin only on a visible Document), and may otherwise happen at any time.

Left out, so that the model allows more than the code: the two partial unique
indexes, the guards on timestamps, and which statuses a stage begins in.
`IdleWork` does not look at `processing_jobs`, as `assertDocumentIdle` does: a
RUNNING job goes with a live status, which `JobsMatch` proves of
`DocumentAnalysis`, and PENDING jobs are never written.

### Identities and their review

`ResolutionRules` holds the decision rules of `packages/entity-resolution` as
operators: which values a labelled field ties to a subject
(`LabeledContextLinks`), what the evidence about a candidate Entity is worth
(`ScoreCandidate`), and what is decided for a mention
(`NormalizeCandidates`, `ProposeResolution`).

`EntityReview` models the identities of one Matter over several Documents.

| variable | in the code |
|---|---|
| `document` | status (from DETECTED on) and `deleted_at` |
| `mention` | per span: a row exists, `entity_id`, `review_status`, `protected_value_id` set |
| `entity`, `alias` | status, type and `merged_into`; the primary alias and the former ones |
| `values`, `links` | `protected_values` and `entity_protected_values` |
| `candidate` | the resolution candidates of each mention with their state |
| `rules`, `recorded` | `entity_constraints`, and the rules of all CONSTRAINT_CREATED events |
| `trail` | what the resolution events say of a mention last |
| `artifact` | the immutable mappings of a sanitized Document |

Every service operation is one action, because the code runs each in one turn:
`Resolve` (which plans mention by mention, `ResolvedRun`, and then writes
Entities, values, links, mentions, candidates and events), `Assign`, `Confirm`,
`CreateEntity`, `Split`, `Rename`, `Reject`, `CreateManualMention`,
`AddConstraint`, `Merge`, `Sanitize`, `ToggleTrash`, and the failures of
resolution and sanitization. `Merge` redirects mentions, candidates, rules and
links and may be prohibited by a rule (`MergeProhibited`); `Sanitize` accepts
what `Replaceable`, `Pseudonymizes`, `Leaks` and `ArtifactAccepted` let through;
`Preview` is the list of blockers that the user sees instead.

Abstractions: texts are compared by their normal form, which is an input; a
span is either a mention from the start or one the user may mark; every
protected value has its token; the clock and the guards on timestamps are left
out; the ids of Entities grow with the time of creation.

### Executions

`AiExecution` models calls of `execute()` over the `ai_executions` rows. From
the call to the dispatch is one turn (`Execute`, with `ExecuteRefused` for what
leaves no row), and so is everything from the answer to the end (`Settle`); in
between come `CancelActive`, other calls, `ChangeSettings`, `ChangeDenied`,
`Trash`, `Restore`, `ClockMoves`, `Crash` and `Restart`. A sanitized text is
reduced to the protected values that detection left in it (`missed`), the
denylist to what its query returns: one row more than the cap, in no particular
order (`DenylistReads`). A denied value that cannot be indexed or read
(`OUTBOUND_DENYLIST_INTEGRITY_FAILURE`, `MAPPING_DECRYPTION_FAILED`) ends the
execution where a leak does, before the dispatch and with a recorded failure, and
is not told apart from one. `sent` is a history of what went out. The mock
provider answers within the turn. The restored response is not stored, and its
failure is an answer of its own (`AI_REHYDRATION_FAILED`).

### Provider settings

`ProviderSettings` has the file, whether it can be read, the machine (key
store and environment), the memory of `AiProviderManager`, and the queue of
requests. A request is `Begin` (everything up to the first file operation),
`Store` or `StoreFails` (a rename is all or nothing), and `Apply`. The queue
(`Turn`) is what makes them run in order. `Crash`, `Restart` (with `Loaded`, the
constructor's reading of the file), `Damage` and `MachineChanges` come at any
time. A base URL stands for the URL and the name of the model.

### The worker client

`PythonBridge` models `PythonWorkerClient`, its children, and the two pipes of
each: `ProcessDocument`, `CancelPending`, `Stop` on one side; `ReadLine`,
`HandlersReturn`, `HandlerFails`, `PipeFails` and `Close` for what a child
brings; and `ReadRequest`, `EmitPage`, `EmitEnd`, `LeaveTable`, `WriteStray`,
`Crash`, `Die` for the worker, whose threads are those of `native_worker.py`.
A line is taken from the pipe and then handled behind an await, during which
the child may be failed, stopped or replaced. Of the lines that settle nothing
only `page_result` is kept: the others pass the same guards and no handler
looks at them.

### Quitting

`Shutdown` has the operations (runs, diagnostic stages, AI calls, imports) and
what each waits for, the two intakes, the drain with its deadline, the database
connection, and the flags of the quit coordinator. `RequestQuit` is
`before-quit`; `BeginShutdown` is the synchronous part of `shutdown()`: intakes
closed, AI calls aborted, the worker stopped, the registered runs collected.
Then `Expire`, `CloseDatabase`, `OpenGate`, `Quit`, while the operations go on
by themselves: `AskWorker`, `Answered`, `Dismissed`, `Write`.

### Algorithms without state

`OutboundScan` is the pass over a text that looks for denied numbers while it
keeps a bounded suffix of the digits (`scanDigitRuns`), with `CloseGroup`,
`TakeDigit` and `TrailingX` as its branches; what it must find is defined apart
from it (`Rendered`). `Pseudonymization` has `pseudonymizeText`,
the checks of `sanitize` on a block, the restore policies, and the rehydration
of an answer. Texts are sequences of symbols.

Nothing here changes in time, so a behaviour grows an input: one more candidate
or field (`RulesSpec` of `MCResolutionRules`), one more symbol of a text with the
pass kept beside it (`ScanSpec` of `OutboundScan`), one more symbol of a block
or an edit of its answer (`MCPseudonymization`). `MCAlgorithms` puts the three
together, as one of three `part`s, so that one run covers them. It extends the
first two and keeps an empty input for the parts that are not grown. So every
behaviour of it is one of `RulesSpec` and one of `ScanSpec`, the two
specifications the theorems are about.

### The screen

`AnalysisWindow` models one Document on the screen of the renderer against what
of the main process it can see.

| variable | in the code |
|---|---|
| `row` | the Document: status, pages or none, and how often it changed (`persistedRevision`) |
| `run`, `unrecorded` | what the run waits for; the coded failure of the runner |
| `calls`, `answers` | `document:get` and `document:analyze` on their way, in order |
| `selected` | `documentId` is this Document |
| `ui` | the entry of `useDocumentStatus`; `analysisActiveIds` (`window`); the refs of `App` (`processed`, `refreshed`, `ignored`, `resumed`); `pending` and `failed` of the latest schedule |
| `poll` | a read is in flight, the next has its timer, or the loop has stopped |

The effects of `App` run after a render, in their order, which is why an action
of the renderer is a whole render: `Observed` and `Resumes` are the effects that
look at a snapshot, `Rendered` starts the loop anew whenever the window turns or
something refreshes, and drops the reads of the old one. A schedule supersedes
the ones before it (`Superseded`). Of the run only those steps are kept between
which other events are served; everything else about it is in
`DocumentAnalysis`.

### Fairness

* `DocumentAnalysis`: `WF(StageStep(c))` for each caller, `WF(RunStep)` and
  `WF(ClockCatchesUp)`. Node runs every ready callback, the poll of a waiting
  run is a timer, and an awaited source inspection is file I/O. A stage whose
  work is in the Python worker ends when the worker answers or exits:
  `worker-client.ts` has no timeout, so a worker that hangs for ever is outside
  what the liveness properties say. Real time passes, so a clock that stepped
  back catches up.
* `AiExecution`: `WF(Settle(e))`; a request is settled by its timeout at the
  latest.
* `ProviderSettings`: `WF` on the step of each request; file operations end.
* `PythonBridge`: `WF` on reading and handling lines and on the close of a
  child, and on the worker reading its requests and going on with each job. The
  last two are the claim above, that a worker does not hang; nothing makes a
  child crash or a user cancel.
* `Shutdown`: `WF` on the deadline, the close, the gate and the quit; *not* on
  the operations, which may wait for ever.
* `AnalysisWindow`: `WF(RunStep)` (what `RunTerminates` shows of the pipeline),
  and `WF` on the answers of the main process and on the renderer.

Nothing else is fair: no user has to retry or to press anything, and nobody has
to start the program again after a crash.

## 4 What the runs check

| run | instance | states | properties |
|---|---|---|---|
| `races` | two channels, asynchronous detector, every failure point, 4 requests, 2 refused transactions, 1 crash, 1 clock step | 851,541 | `StageOwnership`, `RunningJobsMatch`, `RetryRoute`, `TrashPreserved`, `TerminalSignal`, `NoSilentRetry` |
| `background` | one channel that can record its failures, asynchronous detector, 4 requests, 2 refused transactions, 1 crash | 124,625 | `LiveHasOwner`, `LifecycleSpec`, `RunTerminates` |
| `workspace` | one Matter, two contents, two concurrent imports or replacements, 6 requests, 1 crash | 1,901,745 | `UniqueActive`, `LinearLineage`, `QuietTrash`, `LogTellsTrash` |
| `review` | two Documents, four spans that are mentions (one name in both, a card, a number that is not valid) and two that may become one (another card, a longer name), four Entities, 3 review operations | 487,000 | `RulesFollow`, `NoGhosts`, `ConfirmationBinds`, `LinkForAssigned`, `ArtifactMatches`, `OnlyDetectionBlocks`, `NoSilentTwin` |
| `algorithms` | 3 candidates; one field in a block of 4; texts of 7 symbols; blocks of 3 symbols, one edit of the answer | 888,049 | `OrderIrrelevant`, `NoLinkByCompetition`, `ScanIsExact`, `RoundTrip`, `OnlyPseudonymsRestored` |
| `ai` | two executions of one artifact, two values, a cap of one, 1 failed write, 2 changes, 1 crash | 761,376 | `NothingDeniedLeaves`, `CancelledNeverCompletes`, `AnswerMatchesRow`, `CallsEnd` |
| `settings` | 3 requests, two URLs of which one is valid, two keys, two keychains, 1 fault, 1 change of the machine | 7,027,039 | `LastRequestWins`, `ForgottenKeyStaysAway`, `NoSilentMock` |
| `reuse` | two calls under one `jobId`, two children, one page, a stop, a cancellation, a fault | 293,332 | `OwnWorkerAnswers`, `ExitLosesNothing`, `CallsSettle` |
| `quit` | two runs, one stage, one AI call, two imports, 2 requests to quit, a database that may not close | 272,528 | `ExitIsOrderly`, `WritesKept`, `QuitEnds` |
| `window` | 3 clicks, 2 faults, one retry of the first read | 361,146 | `WindowIsWatched`, `WindowCloses` |

`stale_failed_job` and `attempt` expect a violation; see section 6.

The pipeline:

* `StageOwnership`: a call in the guarded region of its stage owns the live
  status and the RUNNING job, alone, and the Document is not in the trash.
* `RunningJobsMatch`: the two tables agree, also after refused transactions.
* `RetryRoute`: a Document at rest is never stranded: the transaction that
  begins the stage selected next would accept the row, its jobs and its pages.
* `TrashPreserved`: nobody moves the row or the jobs of a Document that stays
  in the trash.
* `TerminalSignal`: a run that ends leaves a new revision, the process-local
  signal, or a status that needs no run.
* `NoSilentRetry`: a run enters a stage from FAILED only as its first stage and
  never right after waiting for somebody else's.
* `LiveHasOwner`: a live stage always has a call, a catch block or a stored
  failure that will end it.
* `LifecycleSpec`: the pipeline implements `DocumentLifecycle`.
* `RunTerminates`: the reservation is always given back.

The workspace:

* `UniqueActive`: two active Documents of a Matter never have one content.
* `LinearLineage`: a Document replaces an older one of its Matter, and no two
  replace the same, also after old versions were restored.
* `QuietTrash`: nothing in the trash is scheduled, in a stage or at a provider.
* `LogTellsTrash`: what is in the trash is what the audit log sent there last, and
  each real transition has its one event: a repeated request adds none.

Identities:

* `RulesFollow`: a hard rule of the user holds for whoever stands for its two
  Entities after any merges, and a Cannot-Link pair never becomes one Entity.
* `NoGhosts`: a merged Entity is nowhere in use, and following merges ends at an
  active Entity of the same type.
* `ConfirmationBinds`: a confirmation is of the Entity the mention has now.
* `LinkForAssigned`: the Entity of an accepted mention holds its value, so that
  later Documents find it.
* `ArtifactMatches`: what a sanitized Document says can be restored as long as
  it exists.
* `OnlyDetectionBlocks`: in a Document that may be sanitized, the preview lists and
  the service refuses, mention by mention, exactly what was detected without a
  value to protect; nothing that the review does in any Document of the Matter
  (an assignment before resolution, a merge, a rename, a split) makes or clears
  such a blocker. What stops a sanitization besides (an overlap, a malformed
  alias, the self-check) is not in the preview: see `MCEntityReview_preview` in
  section 6.
* `NoSilentTwin`: a second Entity of one name only where identity cards
  contradict the first.

Algorithms:

* `OrderIrrelevant`: the decision does not depend on the order of candidates.
* `NoLinkByCompetition`: one more candidate never makes the program link
  another Entity than the one it speaks for.
* `ScanIsExact`: the pass finds exactly the renderings of denied numbers, and
  keeps a bounded suffix.
* `RoundTrip`: pseudonyms are put in their places, and an answer that quotes a
  sanitized text is restored to the original, as far as policy allows.
* `OnlyPseudonymsRestored`: however the answer was edited, only whole
  pseudonyms are replaced, and withheld values stay out.

Executions and settings:

* `NothingDeniedLeaves`: no request contains a value the Matter protects then.
* `CancelledNeverCompletes`: a cancelled execution never shows a response.
* `AnswerMatchesRow`: what the caller learns is what is stored.
* `CallsEnd`: every call comes to an end.
* `LastRequestWins`: the file holds what the last successful request asked for.
* `ForgottenKeyStaysAway`: a cleared key does not come back by itself.
* `NoSilentMock`: nothing falls back to Mock while an endpoint is configured.

Worker, quitting, screen:

* `OwnWorkerAnswers`: a job is settled by the worker it was sent to, with an
  event that worker wrote for it.
* `ExitLosesNothing`: a job that was finished is not reported as cut off.
* `CallsSettle`: every call comes to an end.
* `ExitIsOrderly`: the program is gone only after intakes and database are
  closed, and what still ran had its time.
* `WritesKept`: an operation meets a closed database only after the deadline.
* `QuitEnds`: a request to quit ends the program, whatever hangs.
* `WindowIsWatched`: while the window is open there is one next read.
* `WindowCloses`: the progress shell goes away for every end a run can have.

**Further configurations** ask what would double the listed runs; each is run by
hand with its `.cfg`:

| configuration | properties | states |
|---|---|---|
| `MCDocumentAnalysis_stages` | `TypeOK`, `IInv`, `PagesCounted`, `FallbackKept`, `StageBudget` (at most three stages per attempt), and the invariants of the proofs `Route`, `AttemptKnown`, `OneHolder`, `RetryIsFirst` | 851,541 |
| `MCEntityReview_identity` (two names with identity cards) | `TypeOK`, `LogTellsAssignment`, `OpenMeansUnassigned`, `OnlyDetectionBlocks`, `NoSilentTwin`, `ReviewClosed` | 405,168 |
| `MCResolutionRules_rules` (3 fields in a block) | `CannotLinkWins`, `SoftLinkNeedsLabel`, `NewEntityLastResort`, `OneOwner` | 820,870 |
| `ProviderSettings_queue` | `TypeOK`, `EndpointIsSaved`, `RequestsEnd` | 181,632 |
| `MCPythonBridge_beside` (two jobs at once, two pages) | `TypeOK`, `WaitingIsPending`, `CompletedIsWhole`, `NoFalseAlarm`, `CallsSettle` | 560,658 |

**Bounds.** In the pipeline `MaxRequests` bounds user requests (start, channel call, trash,
restore, mention, get), `MaxFaults` the transactions SQLite refuses,
`MaxCrashes` and `MaxClockSteps` the rest. Four requests are enough for two
channels and a run to meet, for a trash or restore on both sides of a run, and
for a failure followed by two retries; two faults are enough for a stage that
fails, fails to record it, and whose sink fails too (or for a fault in each of
two attempts); one crash falls at any point of any step, and recovery is a step
the other budgets may surround. There is one Document because no step of the
pipeline reads another one's rows. The job sequence grows only with requests.

In `workspace` a request is also what a user starts: picks, trash, restore,
analysis, a stage of a channel, an AI execution. Under a wrong guard,
two active Documents with one content take four requests (import, trash, import,
restore), and a forked lineage four or five (import, replace, trash, restore,
replace); six leave room for a second caller and for work in between. Contents and
callers are interchangeable (`SYMMETRY`). There is one Matter because every
guard on content and lineage stays inside a Matter; the proofs have any number.

In `review`, three review operations are a rule, a merge against it and one more
merge or a split; resolution, sanitization, trash and failures are not counted.
Four Entities leave one for the user beside one for each name. The two cards are
there for the one exception of `NoSilentTwin`, the broken number for
`OnlyDetectionBlocks`. In `ai` the cap of the denylist is one, so that both
"at the cap" and "one beyond" occur with two values. In `algorithms` the lengths
of numbers are scaled down with their proportions kept: a prefix that may be
glued to a number, a card one symbol longer than its digits, a group that may be
longer than any denied number, a buffer cut inside a run. In `settings` three
requests are a save, a change and a clear. In `reuse` the second worker is the
last one that can hold lines of the first against it. In `quit` one import
starts a run during the drain. In `window` two faults are a run that cannot
record its failure and a read that fails, and three clicks are a retry among a
change of Documents and back.

**Deadlock** is not checked: when the requests are used up and no work is left
the program really is idle.

`LiveHasOwner` and `RunTerminates` are checked with a channel that can always
record its failure: a diagnostic channel whose `fail` is refused (the failure
point `"orphan"`) has no sink behind it. Its row then stays live until the
program restarts, and a run that waits for it waits as long. The production
renderer does not use these channels.

Every listed property has a mutant of the code (in the module of the model,
marked *Mutant*) that breaks it in the same run: a dropped ownership, a status
guard that accepts one status too many, a reset forgotten, a recovery of one
table only. They are listed in `PROJECT.json`; the modules hold some more, for
the properties of the further configurations.

## 5 What is proved

`DocumentAnalysisProof` proves for any set of channels, any `SyncStages`, any
failure points and any bounds, from the four named assumptions on the
constants (the bounds are naturals, the runner is not a channel, the failure
points and the synchronous stages are subsets of their ranges):

| theorem | statement |
|---|---|
| `TypeCorrect` | `Spec => []TypeOK` |
| `Inductive` | `Spec => []IInv` |
| `StageOwned` | `Spec => []StageOwnership` |
| `JobsMatch` | `Spec => []RunningJobsMatch` |
| `TrashKept` | `Spec => TrashPreserved` |
| `SignalBacked` | `Spec => []FallbackKept` |
| `RouteInductive` | `Spec => [](IInv /\ Route)` |
| `NeverStranded` | `Spec => []RetryRoute` |
| `PagesAgree` | `Spec => []PagesCounted` |
| `AttemptInductive` | `Spec => [](IInv /\ Route /\ AttemptKnown)` |
| `EndIsSeen` | `Spec => TerminalSignal` |
| `RetryIsAsked` | `Spec => NoSilentRetry` |
| `ImplementsLifecycle` | `Spec => LifecycleSpec` |
| `NobodyStranded` | with `MaxClockSteps = 0` and `NoOrphans`, `Spec => []LiveHasOwner` |

**The argument.** A live status has at most one *claim* on it: a call in its
guarded region, the catch block of the run holding the ownership of an
abandoned stage, or the stored failure with that ownership. `StageOwnership` is
not inductive: without knowing who holds a live row after its call has gone,
the sink could close somebody else's job. `IInv` therefore adds that the
claims exclude each other (`CaughtHolds`, `PendingHolds`, `OneWorker`), that
every RUNNING job is the one claimed (`RunningHeld`, `HeldJob`), that a live
stage with jobs has one (`LiveHasJob`), that a live Document is available
(`LiveAvailable`), that the call of the runner and the run agree
(`RunnerInStage`), and that a dead process holds nothing (`DownForgets`). The
proof goes by the effect of a step on the claims: a stage that begins takes the
claim from rest (`BeginTakes`), one that ends releases it (`CloseReleases`),
one that is abandoned passes it on (`AbandonHolds`), the sink releases it
(`SinkReleases`), and every other step leaves row and jobs alone and may only
drop claims (`Undisturbed`, `RunLeaves`). The clock never matters to the
argument, and of `EventLoopFree` only that the process is up: ownership does not depend on the event loop
being single-threaded, only on atomic transactions.

The other theorems each add what their property leaves unsaid.

* `RetryRoute` looks at a Document at rest and asks whether the transaction that
  is selected next would accept it. It depends on the job rows of all the
  attempts before, so `Route` describes their shape: pages are there exactly
  when a status implies them (`PagesFollow`), a FAILED row without a failed job
  is one of parsing (`FailedParseOnly`), the newest job is the failed or the
  running one (`FailureIsLast`, `RunningIsLast`), and a failed job of a stage
  that was passed has a completed one after it (`FailuresSuperseded`).
* `TerminalSignal` compares the end of a run with the moment it was accepted, and
  between them the run may be anywhere. `AttemptKnown` says at each place of the
  run what it already knows: `Since`, a newer revision, a stored failure with
  its signal, or a status that needs no work.
* `NoSilentRetry` needs that a run in a stage is the only holder of its
  revision (`OneHolder`) and that a run that selected from FAILED has run no
  stage and waited for none (`RetryIsFirst`).
* `ImplementsLifecycle` maps every step to a step of `DocumentLifecycle` or a
  stutter; the abstract specification states no fairness, so this is the whole
  refinement. `SameStages` is there because both modules extend
  `DocumentStages`, which gives TLAPS two copies of its operators. `Route` is
  needed again: the origin of a failure, which the abstract Document keeps as a
  variable, is read out of the job rows.
* `NobodyStranded` has the two assumptions under which the run `background`
  checks it, because without them it is false: a clock that stepped back makes
  the sink refuse, and a diagnostic channel whose `fail` is refused has no sink.
  Both cases are kept in section 6 and below the table of section 4. Under them
  `Attended` says that whoever leaves a live row behind still has a step to end
  it.

`WorkspaceLifecycleProof` proves the four properties of `workspace`, for any Matters, contents, callers and bounds, from the one assumption that the bounds
are naturals:

| theorem | statement |
|---|---|
| `TypeCorrect` | `Spec => []TypeOK` |
| `ContentsUnique` | `Spec => []UniqueActive` |
| `LineageLinear` | `Spec => []LinearLineage` |
| `TrashQuiet` | `Spec => []QuietTrash` |
| `LogTruthful` | `Spec => []LogTellsTrash` |

The first four are inductive one by one, given the types. Because the model has
no unique index, `ContentsUnique` and `LineageLinear` say that the guards of the
transactions are enough and the indexes are never what stops a conflict. The
argument goes by what a step does to the rows: only `Moves` (an import, a
replacement, a trash, a restore) touch content, lineage or trash
(`OthersKeepRows`), and `ImportRows`, `ReplaceRows`, `TrashRows` say how. The
two parts of `LogTellsTrash` are not inductive alone: `LastEventTells` says nothing
of a Document that is still to come, and `OneEventPerTransition` needs to know
which event was last. `Audit` joins them (for every natural number, a Document
or not, and every Matter: it is in the trash iff its last event sent it there,
and its events alternate), and `StepLogs` shows that each step either moves
nothing and logs nothing, or appends one event that says what it moves.

`ShutdownProof` proves for any runs, operations and bounds, from the one
assumption on the constants (bounds are naturals, the run of an import is a
run):

| theorem | statement |
|---|---|
| `TypeCorrect` | `Spec => []TypeOK` |
| `Inductive` | `Spec => []IInv` |
| `OrderlyExit` | `Spec => []ExitIsOrderly` |
| `NoLateWrite` | `Spec => []WritesKept` |
| `QuitsOnce` | `Spec => []OneQuit` |
| `NetworkFree` | `Spec => []NetworkLetGo` |

`ExitIsOrderly` speaks of the exit only; `IInv` adds what leads to it. `Phases`
ties the flags of the coordinator, the promise of `shutdown()` and the database
to each other (the gate opens only after the database was closed, one
continuation hangs on the shutdown), and `Awaited` says that a run still waiting
during the drain is one the drain has registered, because the runner takes no
new one. A step of an operation leaves all flags alone (`OpInv`); a request to
quit, the end of the drain and the exit have a lemma each (`RequestInv`,
`CloseInv`, `EndInv`).

`AiExecutionProof` proves for any executions, Documents, bounds and finite set of
values, from the one assumption on the constants, and the last line for any
denylists and any text (`ScanAssumption`):

| theorem | statement |
|---|---|
| `TypeCorrect` | `Spec => []TypeOK` |
| `Inductive` | `Spec => []IInv` |
| `NothingLeaves` | `Spec => []NothingDeniedLeaves` |
| `CancelledStays` | `Spec => []CancelledNeverCompletes` |
| `AnswersTrue` | `Spec => []AnswerMatchesRow` |
| `RunningAccounted` | `Spec => []RunningIsAccountedFor` |
| `SourceKept` | `Spec => []SourceStays` |
| `EndsOnce` | `Spec => FinishedIsFinal` |
| `ExactScan` | `ScanSpec => []ScanIsExact` |

The properties need each other and one more, `WaitersLive`: a call that waits
has a RUNNING row and a living process, and only a call that was made can be
cancelled. Without it a late answer could write over a row that had ended, and
`RunningIsAccountedFor` would not survive a crash. The end of a call goes
through `Fits`: every outcome of `EndsFailed` and `EndsCompleted` is one row and
one answer that agree (`EndingFailed`, `EndingCompleted`), and whoever writes
such a pair over a row that has not ended keeps the invariant (`WriteInv`).
`NothingLeaves` rests on `ReadsAll`: because one row past the cap is asked for,
a list that passes the cap was read whole.

`ExactScan` is about the pass that decides whether such a value is in a request:
for texts, numbers and separators of any length, any country prefix and any
slack of the buffers, it finds what `Rendered` defines, in bounded memory. The
two sides look at a text in different ways. The definition takes every range of
the text apart; the pass sees each symbol once and keeps a suffix of the digits.
They meet in `Tails(text)`: what each range that starts a group of the current
run has read so far. `TailsDigit`, `TailsOther`, `EndedAppend` and `CardsAppend`
say what one more symbol does to the definition. `Follows` says that the buffers
hold exactly those tails that can still become a number, and that what was cut
off is longer than any window; `CloseOk`, `DigitOk` and `CardOk` say that each
branch of the pass keeps this. `ScanInv` adds that what was found so far is what
is denied among the numbers that ended and the cards (`FoundIn`). A
group longer than any denied number is the delicate case: it must hide the tails
before it and its own, but not those of the next group. That the memory is
bounded is part of `RunTyped`.

`ProviderSettingsProof` proves for any URLs, keys and keychains, any number of
requests and any failures, from the assumptions on the constants:

| theorem | statement |
|---|---|
| `Inductive` | `Spec => []IInv` |
| `TypeCorrect` | `Spec => []TypeOK` |
| `LastWins` | `Spec => []LastRequestWins` |
| `KeyStaysAway` | `Spec => []ForgottenKeyStaysAway` |
| `EndpointSaved` | `Spec => []EndpointIsSaved` |
| `MockIsChosen` | `Spec => []NoSilentMock` |

The queue is what everything rests on: `OneAtATime` says that whoever has begun
has only ended requests before it. With it a request that writes is the last
one that could have stored anything, and `FileFollows` can say that the file is
what the last request that stored has left (`LastStored`), or was damaged since.
`LastRequestWins` speaks of requests that succeeded; a request that stored and
then failed to apply, or was lost in a crash after its rename, makes the
difference, which is why `Written` follows a request from its beginning.
`KeysTyped` keeps for every key whether one was typed after the last request that
forgets keys (`TypedAfter`, `Forgets`): the file, the memory and the contents a
request is about to write hold no other.

`PythonBridgeProof` proves for any calls, jobIds and Documents, any number of
children, and any stops, cancellations, crashes, stray lines and failing
handlers:

| theorem | statement |
|---|---|
| `Inductive` | `Spec => []IInv` |
| `NoneForgotten` | `Spec => []WaitingIsPending` |
| `OwnAnswers` | `Spec => []OwnWorkerAnswers` |
| `ExitIsLast` | `Spec => []ExitLosesNothing` |
| `NoWorkerWronged` | `Spec => []NoFalseAlarm` |

Besides the bounds it assumes that the value that stands for `undefined` is no
call, no thread and no line (`IdleAssumption`). None of the four properties is
inductive: each speaks of what has arrived, and what decides is what is still in
the two pipes. The invariant describes them for the child the client has
(`AtCurrent`). Every line but a stray one is expected, and behind the last event
of a job there is no line of that job (`LinesExpected`, `HandExpected`): that is
why the client never meets a line of a job it has settled. What was written for
a call that waits is still under way (`Undelivered`): that is why an exit, which
comes after the last line, cuts off no finished job. A request that was not read
and a job whose thread still works are pending and unanswered
(`RequestsPending`, `ThreadsPending`): that is why the worker may refuse a jobId
that is still in its table with an error event, which ends the new call and no
other. Of a child that was replaced nothing is known but that what it carries
was sent to it (`Addressed`), which is enough, as its lines are not read. Each
step is one of three kinds: a step of one worker (`WorkerStep`), the end of the
current child (`FailStep`), or one of the four that move a line or a request.

`AnalysisWindowProof` proves for any number of clicks, faults and first reads,
from the assumption that these bounds are naturals:

| theorem | statement |
|---|---|
| `Inductive` | `Spec => []IInv` |
| `WindowWatched` | `Spec => []WindowIsWatched` |

`WindowIsWatched` counts: with an open window there is exactly one next read,
be it a timer, a request on its way or an answer that comes back. `Traffic` says
so of the loop in all its states: a loop that reads has one read in one of the
two queues, any other has none. A loop that is left takes its reads out of both
(`WithoutGets`), and one that starts puts one in. That a loop never stops while
the window is open depends on what the screen may have seen: a revision has one
status and READY is the last (`Known`), so an answer that is older than the
screen is not taken for news, and an open window has not seen READY (`Shown`).

`EntityReviewProof` proves for any Documents, spans, labelled fields, aliases
and Entities, and any number of review operations:

| theorem | statement |
|---|---|
| `Inductive` | `Spec => []IInv` |
| `RulesBind` | `Spec => []RulesFollow` |
| `MergedOutOfUse` | `Spec => []NoGhosts` |
| `ConfirmationBound` | `Spec => []ConfirmationBinds` |
| `IdentityIsFound` | `Spec => []LinkForAssigned` |
| `Restorable` | `Spec => []ArtifactMatches` |
| `OnlyDetected` | `Spec => []OnlyDetectionBlocks` |
| `TwinNeedsCards` | `Spec => NoSilentTwin` |
| `LogExplains` | `Spec => []LogTellsAssignment` |
| `ClosedStays` | `Spec => ReviewClosed` |
| `AnyOrder` | `RulesSpec => []OrderIrrelevant` |
| `OnlyOwnCandidate` | `RulesSpec => NoLinkByCompetition` |

The assumptions are that spans and Entities are finitely many, that ids are
numbers in the order of creation, that no alias is the value that stands for
absence, that what describes a span has its types, and that a labelled field ties an identifier to a name, which is what
`extractLabeledContextLinks` looks for. The properties of the tables need each
other: a rule follows a merge only if it names active Entities (`RulesActive`),
an artifact stays restorable only if the Entity of its mentions is not merged,
which the guard on the Documents of a merge sees only because an artifact goes
with SANITIZED (`SanitizedOnly`), and a proposal that is accepted names an active
Entity (`ProposalsActive`). Three parts carry most of the work.

* *Chains of merges.* `Canonical` follows `merged_into` as often as there are
  Entities. `MergesEnd` says more than that it ends: after as many steps as there
  are merged Entities the chain stands at an active Entity of the type. A merge
  adds one merged Entity and one step at the end of the chains that ended at its
  source (`IteratedRedirect`, `MergesMoved`), and a new Entity adds none
  (`MergesKept`).
* *Resolution.* A run plans mention by mention, and each plan is the input of the
  next. `RunOk` says what holds between two of them: what a mention, a candidate
  and a link of the plan name is active in the plan, no assignment is moved, and
  a new Entity takes the name of an old one only where the cards speak against
  it; and the unused ids suffice for the names that are left (`Enough`).
  `ResolvedOk` carries both through the pass. Beneath are the decision rules:
  `Normalized`, `TopOf` and `DecisionFacts` say that a decision speaks for an
  Entity that was a candidate, and that a new Entity means that every candidate
  was excluded by a hard rule.
* *Values.* `OnlyDetected` needs an invariant of its own, `Prepared`: an active
  Entity has a primary alias, what has a value could be protected, and from
  resolution on the converse holds for every mention. That a pass leaves none out
  is carried by `ResolvedOk` too (`ValuesPlanned`: a mention gets its value
  whichever way it is decided, and keeps it), although a mention that the user
  assigned before is not decided at all.

`AnyOrder` and `OnlyOwnCandidate` are about the decision for one mention, for any
parties and lists of candidates of any length. The code folds the list into
rows, one for every Entity, sorts them and looks at the first two.
`Sums` describes the rows without an order: the highest score and the strongest
rule of each Entity. `Decides` does the same for the decision: an Entity is linked
exactly if it `Wins`, that is, if it is the only one with a Must-Link, or, for a
mention that is no PERSON and without any Must-Link, has 90 points and a margin
of 15 over every other that is not excluded; so there is one at most. Lists with
the same candidates in another order agree in all of this (`OrderedAlike`,
`WinsAlike`). One more candidate changes the row of its own Entity and no other
(`Grown`), and whoever wins against more candidates has won against fewer
(`Competition`).

`LogExplains` adds that the log names Entities that exist (`LogTold`). `Resolve`
has the bound of the model as a guard: there are ids for all names of the
Document.

**Induction.** The provers cannot instantiate the library's induction theorems,
which take an operator. These proofs use sets of numbers instead: `SetInduction`
(a set that has 0 and with n also n + 1 has all naturals) follows from the
well-foundedness of `<` on the naturals, and the recursive functions `WithoutGets`,
`Iterated`, `Repeated` and `RenderNumberDigits` are reasoned about with it.

**Only model-checked**: `RoundTrip` and `OnlyPseudonymsRestored`, which say what
folds over a block and its answer compute, for inputs up to a bound;
that aliases are unique in the Matter and `OpenMeansUnassigned`; `StageBudget`;
`CompletedIsWhole` and the range of `handled` in `PythonBridge`, which count
lines; the other properties of the rules in `MCResolutionRules_rules`.
Liveness under fairness (`RunTerminates`, `CallsEnd`, `CallsSettle`,
`QuitEnds`, `WindowCloses`, `RequestsEnd`) is out of the prover's reach, and so is
`ENABLED`. No module declares a RECURSIVE operator.

## 6 Where the code and its words disagree

Each of these configurations checks one property that a document or a comment of
the repository states, on a small instance, and TLC finds it violated by what
the code does. The first two are runs of `PROJECT.json`; the others are run by
hand, as `tlc -config MCEntityReview_rejection.cfg MCEntityReview`.

* `MCDocumentAnalysis_stale_failed_job` (`PendingIsResolvable`). Detection fails and its retry
  succeeds; then resolution fails before its transaction. The status read takes
  the failed job from the *latest job of each type* (`document-analysis.ts:247`),
  where detection is COMPLETED, and finds none; the sink compares the newest
  FAILED row *of the table* (`analysis-failure.ts:186`), which is the old
  detection job. The failure is IGNORED, is stored, and is IGNORED again at
  every retry.
* `AnalysisWindow_attempt` (`WindowCoversRun`). A read answers IMPORTED; the run
  that the import started fails; then the resume effect (`App.tsx:341-354`)
  schedules, and a second run starts on a FAILED Document that "waits for the
  single explicit retry action" (`docs/architecture.md:114-115`). The next read
  brings the failure of the first run, which the window, opened from IMPORTED,
  takes for its own ("any DIFFERENT FAILED revision belongs to this attempt",
  `App.tsx:118-123`): it closes, and the retry is offered, while the second run
  works. No failure of anything else and no click is needed.
* `AnalysisWindow_stranded` (`NobodyStranded`). "A transient `document:get`
  failure can never strand the loop on stale data" (`hooks.ts:143-144`). A run
  fails and cannot record it; the read that says so closes the window; that
  starts the loop anew; and if *this* read fails, the loop has IMPORTED as last
  status, no window, and stops, and the error it shows is no longer the one that
  offers the retry. Selecting the Document again repairs it. With one fault and
  two clicks the property holds (59,954 states). With three clicks it does not:
  who retries after an unrecorded failure, goes to another Document and is back
  before that has loaded, shows the old signal again, which closes the new window.
* `MCDocumentAnalysis_unattributed_parse` (`PendingIsResolvable`). A failed native parse has no job
  row. When its retry fails before the transaction, because the file is gone,
  the sink finds no failed job (`analysis-failure.ts:200`) and answers IGNORED;
  every later retry ends the same way even when the file is back.
* `MCDocumentAnalysis_clock_step` (`RunTerminates`). The clock steps back inside a stage:
  `complete`, `fail` and the sink all refuse the timestamp. The row stays live
  and the run, or the next one, polls it for ever, although the clock is right
  again.
* `MCDocumentAnalysis_manual_mention` (`FailedDetectionRetryable`). A mention may be added by hand
  to a Document whose detection failed; `begin` of detection then refuses the
  Document because it has a mention (`repositories.ts:533-539`).
* `MCEntityReview_rejection` (`RejectionStands`). A mention rejected before
  resolution is given an Entity by it, and a later merge of that Entity sets
  every mention of it UNREVIEWED (`repositories.ts:2379`), so the rejected
  mention is replaced by sanitization after all; "explicitly rejected false
  positives are omitted" (`docs/domain-model.md:148-149`).
* `MCEntityReview_preview` (`EmptyPreviewMeansSanitized`). A rejected mention is
  assigned again after an overlapping one was marked by hand: the preview lists
  no blocker and sanitization refuses the overlap. "Blocker predicates mirror
  PseudonymizationService.sanitize exactly" (`sanitized-preview.ts:48-50`).
* `MCEntityReview_alias` (`AliasIsNoValue`). An alias "must be checked against
  every ProtectedValue class in the Matter" (`entity-resolution.ts:92-96`), and
  is, when it is given; a Document or a manual mention may bring the same text
  later.
* `AiExecution_cancelled` (`CancelledIsRecorded`). "Each aborted execution fails
  closed as AI_CANCELLED with the same [...] record as any other failure"
  (`ai-execution.ts:193-195`). When the wall clock stepped back, the failure is
  not written, the row stays RUNNING until the next start, and the caller sees
  AI_PERSISTENCE_FAILURE.
* `MCPseudonymization_surrounding` (`SurroundingKept`). Rehydration takes the
  longest current or former alias before a token. When a former alias ends with
  the current one ("Plaintiff A" renamed to "A"), text of the document that
  completes the former alias is lost; `docs/domain-model.md:679-682` has only the
  exact span replaced.
* `ProviderSettings_attribution` (`AttributedToSelection`). When the file of a
  selected endpoint cannot be read or parsed at the start, the selection falls to
  Mock, and with it the id under which executions are recorded; the comment at
  `ai-provider.ts:247-251` has failures attributed to the configured target.
* `MCShutdown_waiter` (`WorkerLetGo`). A run that inspects its file while the
  worker is stopped starts a new worker afterwards, and the drain waits for it
  until the deadline; `runtime.ts:231-235` has the two unbounded waiters settled
  first.

In the three of `MCDocumentAnalysis` that concern the sink and the clock, a
restart of the program repairs the Document (process memory is gone, and
recovery fails live rows); in those that concern the sink a trash and restore
does too.

## 7 What is not modelled

* **Text.** The PDF, its extraction and geometry; the detectors, and the normal form
  of a text; matching other than digits in the outbound scan. Their results are
  inputs of the models.
* **Encryption and keys** (`packages/crypto`, `keys.ts`): pure functions and the
  key store of the OS, no protocol. A cipher that cannot be opened is a failure.
* **The schema** beyond the constraints that transactions rely on, migrations,
  paging, and read models.
* **The renderer** beyond the analysis of one Document: lists, forms, pages, the
  texts of `i18n.tsx`, layout. `useDocumentReview`, `useSanitizedPreview` and the
  list hooks repeat their reads a bounded number of times and write nothing.
* **IPC** validation and envelopes; build, packaging, the window of Electron.
* **Several Documents on the screen**, and what forgets the state of a
  trashed one (`forgetAnalysisState`): each has its own entry in the same maps.
* **The end of a worker** by the close of its stdin, and the schema checks of its
  lines, which are one outcome.
* The branch behind `MAX_STAGES_PER_RUN`, which `StageBudget` shows to be out of
  reach.
