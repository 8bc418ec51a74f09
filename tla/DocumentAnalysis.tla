-------------------------- MODULE DocumentAnalysis --------------------------
(***************************************************************************)
(* The analysis pipeline of one Document: the documents row and its        *)
(* processing_jobs rows, the four stage services that move the row         *)
(* (DocumentProcessingService, PrivacyDetectionService,                    *)
(* EntityResolutionService, PseudonymizationService), the background run   *)
(* of DocumentAnalysisService behind DocumentAnalysisRunner, the failure   *)
(* sink, the single-stage IPC channels, the trash, the review write that   *)
(* touches the pipeline, and crash with startup recovery.                  *)
(*                                                                         *)
(* Everything runs in one Node process over a synchronous SQLite driver:   *)
(* a transaction is one atomic step, and the code between two awaits that  *)
(* really yield is not interleaved with other handlers.  EventLoopFree is  *)
(* that rule; only a crash or a step of the wall clock can fall inside.    *)
(***************************************************************************)
EXTENDS DocumentStages, Naturals, Sequences, FiniteSets

CONSTANTS
    Channels,       \* concurrent single-stage IPC calls (document:process, ...)
    Runner,         \* the stage call made by the background run
    SyncStages,     \* stages whose guarded region never yields to the event loop
    Failures,       \* the <<stage, point>> pairs at which a failure may happen
    MaxRequests,    \* bound: user requests (analyze, channel calls, trash moves)
    MaxFaults,      \* bound: transactions or reads that SQLite refuses
    MaxCrashes,     \* bound: process deaths
    MaxClockSteps   \* bound: backward steps of the wall clock

\* Where a stage can fail: before the guarded region ("source": the awaited
\* source inspection, "begin": its first transaction), inside it ("work",
\* "complete"), while persisting its own failure ("finalize" in a stage of the
\* run, "orphan" in one of a channel, which nobody looks after then); for the
\* run itself, in the failure sink ("sink") or the status read ("read").
FailurePoints ==
    {"source", "begin", "work", "complete", "finalize", "orphan", "sink", "read"}

ASSUME ChannelsAssumption == Runner \notin Channels
ASSUME SyncAssumption == SyncStages \subseteq Stages
ASSUME FailuresAssumption == Failures \subseteq Stages \X FailurePoints
ASSUME BoundsAssumption ==
    /\ MaxRequests \in Nat
    /\ MaxFaults \in Nat
    /\ MaxCrashes \in Nat
    /\ MaxClockSteps \in Nat

Callers == Channels \cup {Runner}

-----------------------------------------------------------------------------

VARIABLES
    doc,            \* the documents row: parse_status, updated_at, page_count
                    \*   set or NULL (counted), page rows (pages), mention rows
                    \*   (mentions) and deleted_at set or NULL (trashed)
    matterDeleted,  \* the parent Matter has status DELETED
    jobs,           \* its processing_jobs rows, oldest first
    call,           \* the stage call each caller has in progress
    run,            \* the background run registered in DocumentAnalysisRunner
    pending,        \* the entry of #pendingTerminalFailures: {} or a singleton
    unrecorded,     \* the runner holds ANALYSIS_FAILURE_UNRECORDED
    clockBehind,    \* the wall clock reads less than doc.updatedAt
    up,             \* the process is running
    budget          \* what is left of the bounds above

vars == <<doc, matterDeleted, jobs, call, run, pending, unrecorded,
          clockBehind, up, budget>>

JobRows == [type: Stages, status: {"RUNNING", "COMPLETED", "FAILED"}]
Documents == [status: Statuses, updatedAt: Nat, counted: BOOLEAN,
              pages: BOOLEAN, mentions: BOOLEAN, trashed: BOOLEAN]

\* The ownership an error carries: none, or the stage (and its job) that could
\* not be closed.
NoOwner == [held |-> FALSE, job |-> 0]
Owners == {NoOwner} \cup [held: {TRUE}, job: Nat]

Revisions == [status: Statuses, updatedAt: Nat, failedJob: Nat]

\* What the sink is asked to record; ANY stands for an omitted stage, which
\* only a failed status read produces, and then nothing is expected either.
FailureInputs == [stage: AnalysisStages \cup {"ANY"}, expects: BOOLEAN,
                  revision: Revisions, owner: Owners]

\* A call is entered (the service runs up to its first transaction or yield),
\* waits for the inspection of the source file, or works in the guarded region.
Calls == [pc: {"idle", "entered", "source", "working"}, stage: Stages, job: Nat]
IdleCall == [pc |-> "idle", stage |-> "PARSE", job |-> 0]

RunPcs == {"off", "deferred", "reading", "waiting", "inStage", "caught"}
Runs == [pc: RunPcs, stage: AnalysisStages, snapshot: Revisions, owner: Owners,
         external: BOOLEAN, ran: Nat, accepted: Revisions]
NoRevision == [status |-> "IMPORTED", updatedAt |-> 0, failedJob |-> 0]
OffRun == [pc |-> "off", stage |-> "PARSE", snapshot |-> NoRevision,
           owner |-> NoOwner, external |-> FALSE, ran |-> 0,
           accepted |-> NoRevision]

Budgets == [requests: Nat, faults: Nat, crashes: Nat, clockSteps: Nat]

TypeOK ==
    /\ doc \in Documents
    /\ matterDeleted \in BOOLEAN
    /\ jobs \in Seq(JobRows)
    /\ call \in [Callers -> Calls]
    /\ run \in Runs
    /\ pending \in SUBSET FailureInputs
    /\ \A f, g \in pending : f = g
    /\ unrecorded \in BOOLEAN
    /\ clockBehind \in BOOLEAN
    /\ up \in BOOLEAN
    /\ budget \in Budgets

-----------------------------------------------------------------------------
(* Reads of the two tables.                                                *)

\* The greatest element of S, 0 when it has none.
Latest(S) == IF \E i \in S : \A j \in S : j <= i
             THEN CHOOSE i \in S : \A j \in S : j <= i ELSE 0

JobsOf(s) == {i \in DOMAIN jobs : jobs[i].type = s}

\* findLatestJobs: the newest row of each type, which is what a status read
\* returns; the orchestrator and the stage selection see only these rows.
StatusJobs == {Latest(JobsOf(s)) : s \in Stages} \ {0}

\* The newest FAILED row among the rows of a status read ...
StatusFailedJob == Latest({i \in StatusJobs : jobs[i].status = "FAILED"})

\* ... and the newest FAILED row of the whole table, which the sink compares.
LatestFailed == Latest({i \in DOMAIN jobs : jobs[i].status = "FAILED"})

LatestOfTypeFailed(s) ==
    Latest(JobsOf(s)) # 0 /\ jobs[Latest(JobsOf(s))].status = "FAILED"

Revision == [status |-> doc.status, updatedAt |-> doc.updatedAt,
             failedJob |-> StatusFailedJob]

Available == ~doc.trashed /\ ~matterDeleted

\* Mutant: a detected Document is sent to detection again.
SelectDetectionTwice ==
    CASE doc.status \in {"READY", "SANITIZED"} -> "ALREADY_ANALYZED"
      [] doc.status = "IMPORTED" -> "PARSE"
      [] doc.status \in {"PARSED", "DETECTED"} -> "DETECT"
      [] doc.status \in LiveStatuses -> "WAITING_FOR_LIVE_STAGE"
      [] OTHER -> IF StatusFailedJob = 0 THEN "PARSE" ELSE jobs[StatusFailedJob].type

\* selectAnalysisAction, with RUN_<stage> written as the stage.
SelectAction ==
    CASE doc.status \in {"READY", "SANITIZED"} -> "ALREADY_ANALYZED"
      [] doc.status = "IMPORTED" -> "PARSE"
      [] doc.status = "PARSED"   -> "DETECT"
      [] doc.status = "DETECTED" -> "RESOLVE"
      [] doc.status \in LiveStatuses -> "WAITING_FOR_LIVE_STAGE"
      [] OTHER -> IF StatusFailedJob = 0 THEN "PARSE"
                  ELSE IF jobs[StatusFailedJob].type = "SANITIZE"
                       THEN "SANITIZE_RETRY_OWNED"
                       ELSE jobs[StatusFailedJob].type

-----------------------------------------------------------------------------
(* Scheduling and faults.                                                  *)

\* A call that holds the event loop: nothing else of the process can run.
HoldsLoop(c) ==
    \/ call[c].pc = "entered"
    \/ call[c].pc = "working" /\ call[c].stage \in SyncStages

EventLoopFree ==
    /\ up
    /\ run.pc \notin {"reading", "caught"}
    /\ \A c \in Callers : ~HoldsLoop(c)

Fault(s, point) == budget.faults > 0 /\ <<s, point>> \in Failures

\* SQLite refuses the sink or the status read, which belong to no stage.
RunFault(point) == \E s \in Stages : Fault(s, point)

SpendFault == budget' = [budget EXCEPT !.faults = @ - 1]

Request ==
    /\ EventLoopFree
    /\ budget.requests > 0
    /\ budget' = [budget EXCEPT !.requests = @ - 1]

\* A write of the documents row: now() is at least updated_at, and the write
\* leaves a later stamp.
Stamped(row) == [row EXCEPT !.updatedAt = @ + 1]

-----------------------------------------------------------------------------
(* How a stage call ends for its caller.                                   *)

\* A channel that succeeded drops the process-local failure of the Document
\* (preview:generate does not); the run goes on to its next status read.
Returned(c, s) ==
    /\ call' = [call EXCEPT ![c] = IdleCall]
    /\ run' = IF c = Runner
              THEN [run EXCEPT !.pc = "reading", !.ran = @ + 1]
              ELSE run
    /\ pending' = IF c # Runner /\ s # "SANITIZE" THEN {} ELSE pending
    /\ unrecorded' = (unrecorded /\ ~(c # Runner /\ s # "SANITIZE"))

\* The error reaches the catch block of the run, with the stage ownership the
\* error carries; a channel only reports it to the renderer.
Thrown(c, owner) ==
    /\ call' = [call EXCEPT ![c] = IdleCall]
    /\ run' = IF c = Runner
              THEN [run EXCEPT !.pc = "caught", !.owner = owner]
              ELSE run
    /\ UNCHANGED <<pending, unrecorded>>

-----------------------------------------------------------------------------
(* The first transaction of a stage.                                       *)

\* Mutants: parsing is accepted on a live row; on a row that is parsed already.
RowAcceptsLive(s) ==
    /\ doc.status \in {Source[s], Live[s], "FAILED"}
    /\ s # "PARSE" => doc.counted /\ doc.pages

RowAcceptsParsed(s) ==
    /\ \/ doc.status = Source[s]
       \/ doc.status = "FAILED" /\ (s = "PARSE" \/ LatestOfTypeFailed(s))
    /\ s # "PARSE" => doc.counted /\ doc.pages

\* The row is where stage s starts, or failed in stage s, and is parsed.
RowAccepts(s) ==
    /\ \/ doc.status = Source[s]
       \/ /\ doc.status = "FAILED"
          /\ IF s = "PARSE" THEN ~doc.pages ELSE LatestOfTypeFailed(s)
    /\ s # "PARSE" => doc.counted /\ doc.pages

BeginAccepts(s) ==
    /\ Available
    /\ ~clockBehind
    /\ RowAccepts(s)
    /\ s = "DETECT" => ~doc.mentions

AlreadyDone(s) ==
    /\ Available
    /\ doc.status = Done[s]
    /\ \E i \in JobsOf(s) : jobs[i].status = "COMPLETED"

-----------------------------------------------------------------------------
(* The stage calls, from their entry to their outcome.                     *)

Entered(s) == [pc |-> "entered", stage |-> s, job |-> 0]

\* Document processing inspects the source file first, which yields.
InspectSource(c) ==
    /\ call[c] = Entered("PARSE")
    /\ IF Available
       THEN /\ call' = [call EXCEPT ![c].pc = "source"]
            /\ UNCHANGED <<run, pending, unrecorded>>
       ELSE Thrown(c, NoOwner)
    /\ UNCHANGED <<doc, jobs, budget>>

\* The inspection answered that the file is missing or has changed.
SourceRejected(c) ==
    /\ call[c].pc = "source"
    /\ <<"PARSE", "source">> \in Failures
    /\ Thrown(c, NoOwner)
    /\ UNCHANGED <<doc, jobs, budget>>

\* The other services answer with a completed result when there is one.
ReuseResult(c) ==
    /\ call[c].pc = "entered"
    /\ call[c].stage # "PARSE"
    /\ AlreadyDone(call[c].stage)
    /\ Returned(c, call[c].stage)
    /\ UNCHANGED <<doc, jobs, budget>>

\* The first transaction is next, whatever has happened to the row since the
\* source inspection started.
Beginning(c) ==
    \/ call[c].pc = "source"
    \/ call[c].pc = "entered" /\ call[c].stage # "PARSE" /\ ~AlreadyDone(call[c].stage)

BeginStage(c) ==
    LET s == call[c].stage IN
    /\ Beginning(c)
    /\ BeginAccepts(s)
    /\ doc' = Stamped([doc EXCEPT !.status = Live[s],
                                  !.counted = @ /\ s # "PARSE"])
    /\ jobs' = IF s = "PARSE" THEN jobs
               ELSE Append(jobs, [type |-> s, status |-> "RUNNING"])
    /\ call' = [call EXCEPT ![c].pc = "working",
                            ![c].job = IF s = "PARSE" THEN 0 ELSE Len(jobs) + 1]
    /\ UNCHANGED <<run, pending, unrecorded, budget>>

\* begin() refuses the row: an error thrown before the guarded region.
RefuseStage(c) ==
    /\ Beginning(c)
    /\ ~BeginAccepts(call[c].stage)
    /\ Thrown(c, NoOwner)
    /\ UNCHANGED <<doc, jobs, budget>>

BeginFault(c) ==
    /\ Beginning(c)
    /\ Fault(call[c].stage, "begin")
    /\ SpendFault
    /\ Thrown(c, NoOwner)
    /\ UNCHANGED <<doc, jobs>>

Working(c) == call[c].pc = "working"

JobRunning(c) ==
    call[c].stage # "PARSE" =>
        /\ call[c].job \in DOMAIN jobs
        /\ jobs[call[c].job] = [type |-> call[c].stage, status |-> "RUNNING"]

\* The guards shared by complete() and fail() of a stage; only
\* completeProcessing looks at the trash again.
FinishAccepts(c) ==
    /\ ~clockBehind
    /\ doc.status = Live[call[c].stage]
    /\ JobRunning(c)

CompleteAccepts(c) == FinishAccepts(c) /\ (call[c].stage = "PARSE" => Available)

\* Mutant: a failed job is stored under a status of another vocabulary.
CloseJobAsError(i, outcome) ==
    jobs' = IF i = 0 THEN jobs
            ELSE [jobs EXCEPT ![i].status =
                     IF outcome = "FAILED" THEN "ERROR" ELSE outcome]

CloseJob(i, outcome) ==
    jobs' = IF i = 0 THEN jobs ELSE [jobs EXCEPT ![i].status = outcome]

\* Mutant: every failure resets page_count.
FailedRowUncounted(s) == Stamped([doc EXCEPT !.status = "FAILED", !.counted = FALSE])

\* FAILED keeps page_count except when parsing failed.
FailedRow(s) == Stamped([doc EXCEPT !.status = "FAILED", !.counted = @ /\ s # "PARSE"])

StageCompletes(c) ==
    LET s == call[c].stage IN
    /\ Working(c)
    /\ CompleteAccepts(c)
    /\ \E found \in BOOLEAN :
          /\ found => s = "DETECT"
          /\ doc' = Stamped([doc EXCEPT !.status = Done[s],
                                        !.counted = @ \/ s = "PARSE",
                                        !.pages = @ \/ s = "PARSE",
                                        !.mentions = @ \/ found])
    /\ CloseJob(call[c].job, "COMPLETED")
    /\ Returned(c, s)
    /\ UNCHANGED budget

\* The worker, the detector or the resolver reported an error, or complete()
\* refused: the stage's own fail() then finalizes the row and its job.
StageFails(c) ==
    /\ Working(c)
    /\ <<call[c].stage, "work">> \in Failures \/ ~CompleteAccepts(c)
    /\ FinishAccepts(c)
    /\ doc' = FailedRow(call[c].stage)
    /\ CloseJob(call[c].job, "FAILED")
    /\ Thrown(c, NoOwner)
    /\ UNCHANGED budget

\* SQLite refuses complete(), and fail() still goes through.
StageFailsOnCompleteFault(c) ==
    /\ Working(c)
    /\ Fault(call[c].stage, "complete")
    /\ FinishAccepts(c)
    /\ SpendFault
    /\ doc' = FailedRow(call[c].stage)
    /\ CloseJob(call[c].job, "FAILED")
    /\ Thrown(c, NoOwner)

\* fail() itself refuses, because the clock reads less than updated_at (then
\* complete() refused as well) or SQLite does: the row stays live, and the
\* error names the ownership that the stage could not give up.
StageAbandoned(c) ==
    /\ Working(c)
    /\ ~FinishAccepts(c)
    /\ Thrown(c, [held |-> TRUE, job |-> call[c].job])
    /\ UNCHANGED <<doc, jobs, budget>>

StageAbandonedOnFault(c) ==
    /\ Working(c)
    /\ Fault(call[c].stage, IF c = Runner THEN "finalize" ELSE "orphan")
    /\ SpendFault
    /\ Thrown(c, [held |-> TRUE, job |-> call[c].job])
    /\ UNCHANGED <<doc, jobs>>

StageStep(c) ==
    /\ HoldsLoop(c) \/ EventLoopFree
    /\ \/ InspectSource(c) \/ SourceRejected(c) \/ ReuseResult(c)
       \/ BeginStage(c) \/ RefuseStage(c) \/ BeginFault(c)
       \/ StageCompletes(c) \/ StageFails(c) \/ StageFailsOnCompleteFault(c)
       \/ StageAbandoned(c) \/ StageAbandonedOnFault(c)
    /\ UNCHANGED <<matterDeleted, clockBehind, up>>

\* The IPC handlers document:process, document:detect, document:resolve and
\* preview:generate call their service.
ChannelCall(c, s) ==
    /\ Request
    /\ call[c].pc = "idle"
    /\ call' = [call EXCEPT ![c] = Entered(s)]
    /\ UNCHANGED <<doc, matterDeleted, jobs, run, pending, unrecorded, clockBehind, up>>

-----------------------------------------------------------------------------
(* The failure sink: recordAnalysisFailure, one transaction.               *)

NoFailure == [stage |-> "ANY", expects |-> FALSE, revision |-> NoRevision,
              owner |-> NoOwner]

\* The stage an input is attributed to; ANY when none can be inferred.
SinkStage(f) ==
    IF f.stage # "ANY" THEN f.stage
    ELSE CASE doc.status = "IMPORTED" -> "PARSE"
           [] doc.status = "PARSED"   -> "DETECT"
           [] doc.status = "DETECTED" -> "RESOLVE"
           [] doc.status = "FAILED" /\ LatestFailed = 0 -> "PARSE"
           [] doc.status = "FAILED" /\ LatestFailed # 0
                /\ jobs[LatestFailed].type # "SANITIZE" -> jobs[LatestFailed].type
           [] OTHER -> "ANY"

\* Mutant: the source status is required of an abandoned stage too.
OwnerAcceptsAtSource(f) == doc.status = Source[SinkStage(f)]

\* An abandoned stage may be closed only in its live status and, when it has
\* a job, only while that very job is RUNNING.
OwnerAccepts(f) ==
    /\ doc.status = Live[SinkStage(f)]
    /\ f.owner.job # 0 =>
          /\ f.owner.job \in DOMAIN jobs
          /\ jobs[f.owner.job] = [type |-> SinkStage(f), status |-> "RUNNING"]

\* A failure before the guarded region must find the revision it started
\* from, in the stage's source status or in a failure of the same stage.
PreStartAccepts(f) ==
    /\ f.expects =>
          /\ doc.status = f.revision.status
          /\ doc.updatedAt = f.revision.updatedAt
          /\ LatestFailed = f.revision.failedJob
    /\ \/ doc.status = Source[SinkStage(f)]
       \/ /\ doc.status = "FAILED"
          /\ LatestFailed # 0
          /\ jobs[LatestFailed].type = SinkStage(f)

SinkAccepts(f) ==
    /\ Available
    /\ SinkStage(f) # "ANY"
    /\ ~clockBehind
    /\ IF f.owner.held THEN OwnerAccepts(f) ELSE PreStartAccepts(f)

\* Mutant: a synthetic FAILED job is added beside the owner's.
SinkRecordsBeside(f) ==
    /\ doc' = FailedRow(SinkStage(f))
    /\ jobs' = Append(jobs, [type |-> SinkStage(f), status |-> "FAILED"])

\* RECORDED: the owner's job is closed, or a synthetic FAILED job is added.
SinkRecords(f) ==
    /\ doc' = FailedRow(SinkStage(f))
    /\ jobs' = IF f.owner.job # 0
               THEN [jobs EXCEPT ![f.owner.job].status = "FAILED"]
               ELSE Append(jobs, [type |-> SinkStage(f), status |-> "FAILED"])

-----------------------------------------------------------------------------
(* The background run: DocumentAnalysisService.analyze under the           *)
(* reservation of DocumentAnalysisRunner.                                  *)

\* Mutant: the runner does not keep the coded failure.
RunEndsSilently(reported) == run' = OffRun /\ UNCHANGED unrecorded

RunEnds(reported) ==
    /\ run' = OffRun
    /\ unrecorded' = (unrecorded \/ reported)

\* document:analyze; import and replacement start their run the same way.
StartAnalysis ==
    /\ Request
    /\ Available
    /\ run.pc = "off"
    /\ run' = [OffRun EXCEPT !.pc = "deferred", !.accepted = Revision]
    /\ unrecorded' = FALSE
    /\ UNCHANGED <<doc, matterDeleted, jobs, call, pending, clockBehind, up>>

\* The first thing a run does, one macrotask later: it records again the
\* failure that the previous run could not record.
PendingSuperseded(f) ==
    /\ SelectAction # "WAITING_FOR_LIVE_STAGE"
    /\ f.expects => Revision # f.revision

RetryPending ==
    /\ run.pc = "deferred"
    /\ EventLoopFree
    /\ \/ /\ \/ /\ \A f \in pending : ~SinkAccepts(f) /\ PendingSuperseded(f)
                /\ UNCHANGED <<doc, jobs>>
             \/ \E f \in pending : SinkAccepts(f) /\ SinkRecords(f)
          /\ pending' = {}
          /\ run' = [run EXCEPT !.pc = "reading"]
          /\ UNCHANGED unrecorded
       \/ /\ \E f \in pending : ~SinkAccepts(f) /\ ~PendingSuperseded(f)
          /\ RunEnds(TRUE)
          /\ UNCHANGED <<doc, jobs, pending>>
    /\ UNCHANGED budget

RetryPendingFault ==
    /\ run.pc = "deferred"
    /\ EventLoopFree
    /\ \E f \in pending : RunFault("sink") \/ (~SinkAccepts(f) /\ RunFault("read"))
    /\ SpendFault
    /\ RunEnds(TRUE)
    /\ UNCHANGED <<doc, jobs, pending>>

\* Mutant: the run does not poll a stage it waits for.
ObservingOnce == run.pc = "reading"

\* The run reads the status right after a stage returned, or when the poll
\* interval of a live stage owned by a channel has passed.
Observing == run.pc = "reading" \/ (run.pc = "waiting" /\ EventLoopFree)

AwaitLiveStage ==
    /\ Observing
    /\ SelectAction = "WAITING_FOR_LIVE_STAGE"
    /\ run' = [run EXCEPT !.pc = "waiting", !.external = TRUE]
    /\ UNCHANGED <<doc, jobs, call, pending, unrecorded, budget>>

\* Mutant: a failure of an external owner is retried.
RetryExternalFailure == FALSE

\* A failure that an external owner left is the result of this attempt.
ExternalFailure == run.external /\ doc.status = "FAILED"

FinishRun ==
    /\ Observing
    /\ SelectAction # "WAITING_FOR_LIVE_STAGE"
    /\ SelectAction \notin AnalysisStages \/ ExternalFailure
    /\ RunEnds(FALSE)
    /\ UNCHANGED <<doc, jobs, call, pending, budget>>

RunStage ==
    /\ Observing
    /\ SelectAction \in AnalysisStages
    /\ ~ExternalFailure
    /\ run' = [run EXCEPT !.pc = "inStage", !.stage = SelectAction,
                          !.snapshot = Revision, !.external = FALSE]
    /\ call' = [call EXCEPT ![Runner] = Entered(SelectAction)]
    /\ UNCHANGED <<doc, jobs, pending, unrecorded, budget>>

\* The status cannot be read: a failure that names no stage goes to the sink.
StatusReadFault ==
    /\ Observing
    /\ RunFault("read")
    /\ SpendFault
    /\ \/ /\ SinkAccepts(NoFailure)
          /\ SinkRecords(NoFailure)
          /\ pending' = {}
          /\ RunEnds(FALSE)
       \/ /\ ~SinkAccepts(NoFailure) \/ RunFault("sink")
          /\ pending' = {NoFailure}
          /\ RunEnds(TRUE)
          /\ UNCHANGED <<doc, jobs>>
    /\ UNCHANGED call

\* Mutant: the ownership that the error carries is dropped.
StageFailureUnowned == [stage |-> run.stage, expects |-> TRUE,
                        revision |-> run.snapshot, owner |-> NoOwner]

\* The catch block of a stage: the failure goes to the sink with the revision
\* the stage was selected from and the ownership its error carries.
StageFailure == [stage |-> run.stage, expects |-> TRUE,
                 revision |-> run.snapshot, owner |-> run.owner]

RecordStageFailure ==
    /\ run.pc = "caught"
    /\ IF SinkAccepts(StageFailure)
       THEN /\ SinkRecords(StageFailure)
            /\ pending' = {}
            /\ RunEnds(FALSE)
       ELSE /\ IF Revision = run.snapshot
               THEN pending' = {StageFailure} /\ RunEnds(TRUE)
               ELSE /\ pending' = {}
                    /\ IF doc.status = "FAILED"
                       THEN RunEnds(FALSE)
                       ELSE /\ run' = [run EXCEPT !.pc = "reading", !.external = TRUE,
                                                  !.owner = NoOwner]
                            /\ UNCHANGED unrecorded
            /\ UNCHANGED <<doc, jobs>>
    /\ UNCHANGED <<call, budget>>

RecordStageFailureFault ==
    /\ run.pc = "caught"
    /\ RunFault("sink") \/ (~SinkAccepts(StageFailure) /\ RunFault("read"))
    /\ SpendFault
    /\ pending' = {StageFailure}
    /\ RunEnds(TRUE)
    /\ UNCHANGED <<doc, jobs, call>>

RunStep ==
    /\ \/ (RetryPending \/ RetryPendingFault) /\ UNCHANGED call
       \/ AwaitLiveStage \/ FinishRun \/ RunStage \/ StatusReadFault
       \/ RecordStageFailure \/ RecordStageFailureFault
    /\ UNCHANGED <<matterDeleted, clockBehind, up>>

-----------------------------------------------------------------------------
(* The lifecycle and review operations that meet the pipeline.             *)

\* Mutant: only jobs count as running work.
IdleByJobs == \A i \in DOMAIN jobs : jobs[i].status # "RUNNING"

Idle == doc.status \notin LiveStatuses /\ \A i \in DOMAIN jobs : jobs[i].status # "RUNNING"

\* Mutant: the runner's signal outlives the stored failure.
ClearPendingOnly == pending' = {} /\ UNCHANGED unrecorded

ClearFailure == pending' = {} /\ unrecorded' = FALSE

TrashDocument ==
    /\ Request
    /\ run.pc = "off"
    /\ Available
    /\ ~clockBehind
    /\ Idle
    /\ doc' = Stamped([doc EXCEPT !.trashed = TRUE])
    /\ ClearFailure
    /\ UNCHANGED <<matterDeleted, jobs, call, run, clockBehind, up>>

RestoreDocument ==
    /\ Request
    /\ doc.trashed
    /\ ~matterDeleted
    /\ ~clockBehind
    /\ doc' = Stamped([doc EXCEPT !.trashed = FALSE])
    /\ UNCHANGED <<matterDeleted, jobs, call, run, pending, unrecorded, clockBehind, up>>

\* The Matter's own updated_at guards it; the Document row is not written.
TrashMatter ==
    /\ Request
    /\ run.pc = "off"
    /\ ~matterDeleted
    /\ Idle
    /\ matterDeleted' = TRUE
    /\ ClearFailure
    /\ UNCHANGED <<doc, jobs, call, run, clockBehind, up>>

RestoreMatter ==
    /\ Request
    /\ matterDeleted
    /\ matterDeleted' = FALSE
    /\ UNCHANGED <<doc, jobs, call, run, pending, unrecorded, clockBehind, up>>

\* A reviewer marks a passage: the mention needs a block of the parsed model
\* and a review that sanitization has not closed.
CreateManualMention ==
    /\ Request
    /\ Available
    /\ doc.pages
    /\ doc.status \notin {"SANITIZING", "SANITIZED"}
    /\ doc' = [doc EXCEPT !.mentions = TRUE]
    /\ UNCHANGED <<matterDeleted, jobs, call, run, pending, unrecorded, clockBehind, up>>

\* document:get of an analyzed Document drops what the run left behind.
DocumentGet ==
    /\ Request
    /\ Available
    /\ doc.status \in {"READY", "SANITIZED"}
    /\ ClearFailure
    /\ UNCHANGED <<doc, matterDeleted, jobs, call, run, clockBehind, up>>

UserStep ==
    \/ StartAnalysis
    \/ \E c \in Channels, s \in Stages : ChannelCall(c, s)
    \/ TrashDocument \/ RestoreDocument \/ TrashMatter \/ RestoreMatter
    \/ CreateManualMention \/ DocumentGet

-----------------------------------------------------------------------------
(* The environment: the wall clock, and process death with recovery.       *)

ClockStepsBack ==
    /\ up
    /\ budget.clockSteps > 0
    /\ ~clockBehind
    /\ clockBehind' = TRUE
    /\ budget' = [budget EXCEPT !.clockSteps = @ - 1]
    /\ UNCHANGED <<doc, matterDeleted, jobs, call, run, pending, unrecorded, up>>

ClockCatchesUp ==
    /\ clockBehind
    /\ clockBehind' = FALSE
    /\ UNCHANGED <<doc, matterDeleted, jobs, call, run, pending, unrecorded, up, budget>>

\* What only the process knew is gone, at any point of any step above.
Crash ==
    /\ up
    /\ budget.crashes > 0
    /\ budget' = [budget EXCEPT !.crashes = @ - 1]
    /\ up' = FALSE
    /\ call' = [c \in Callers |-> IdleCall]
    /\ run' = OffRun
    /\ ClearFailure
    /\ UNCHANGED <<doc, matterDeleted, jobs, clockBehind>>

\* Mutant: recovery repairs the Document but not its jobs.
RecoverRowOnly ==
    /\ ~up
    /\ up' = TRUE
    /\ doc' = IF doc.status \in LiveStatuses
              THEN [doc EXCEPT !.status = "FAILED", !.updatedAt = @ + 1] ELSE doc
    /\ UNCHANGED <<matterDeleted, jobs, call, run, pending, unrecorded, clockBehind, budget>>

\* StartupRecoveryService runs before any handler is registered; it never
\* writes a stamp below the one it finds, trashed or not.
Recover ==
    /\ ~up
    /\ up' = TRUE
    /\ jobs' = [i \in DOMAIN jobs |->
                   IF jobs[i].status = "RUNNING"
                   THEN [jobs[i] EXCEPT !.status = "FAILED"] ELSE jobs[i]]
    /\ doc' = IF doc.status \in LiveStatuses
              THEN [doc EXCEPT !.status = "FAILED",
                               !.updatedAt = IF clockBehind THEN @ ELSE @ + 1,
                               !.counted = @ /\ doc.status # "PARSING"]
              ELSE doc
    /\ UNCHANGED <<matterDeleted, call, run, pending, unrecorded, clockBehind, budget>>

-----------------------------------------------------------------------------

Init ==
    /\ doc = [status |-> "IMPORTED", updatedAt |-> 0, counted |-> FALSE,
              pages |-> FALSE, mentions |-> FALSE, trashed |-> FALSE]
    /\ matterDeleted = FALSE
    /\ jobs = <<>>
    /\ call = [c \in Callers |-> IdleCall]
    /\ run = OffRun
    /\ pending = {}
    /\ unrecorded = FALSE
    /\ clockBehind = FALSE
    /\ up = TRUE
    /\ budget = [requests |-> MaxRequests, faults |-> MaxFaults,
                 crashes |-> MaxCrashes, clockSteps |-> MaxClockSteps]

Next ==
    \/ \E c \in Callers : StageStep(c)
    \/ RunStep
    \/ UserStep
    \/ ClockStepsBack \/ ClockCatchesUp
    \/ Crash \/ Recover

Spec == Init /\ [][Next]_vars

\* The event loop runs what is ready: a stage call goes on (the parser worker
\* answers or exits), so does the run (its poll timer fires), and real time
\* passes.  Nobody has to retry, and nobody has to start the program again.
Fairness ==
    /\ \A c \in Callers : WF_vars(StageStep(c))
    /\ WF_vars(RunStep)
    /\ WF_vars(ClockCatchesUp)

FairSpec == Spec /\ Fairness

-----------------------------------------------------------------------------
(* Properties.                                                             *)

\* A stage call inside its guarded region owns the Document: the row is in
\* the live status of that stage, the call's own job is the one RUNNING, no
\* second call is in a guarded region, and the Document is not in the trash.
\* It is what makes complete() and fail() unable to hit another owner's work
\* (begin, complete and fail of every stage; the sink; trash; recovery).
WorkerOwns(c) ==
    /\ doc.status = Live[call[c].stage]
    /\ JobRunning(c)
    /\ Available

StageOwnership ==
    /\ \A c \in Callers : Working(c) => WorkerOwns(c)
    /\ \A c, d \in Callers : Working(c) /\ Working(d) => c = d

\* The two tables agree: a RUNNING job is the only one and belongs to the live
\* stage the row shows, and a live stage that has jobs has a RUNNING one, also
\* after faults and crashes and while an abandoned stage waits for the sink.
RunningJobsMatch ==
    LET running == {i \in DOMAIN jobs : jobs[i].status = "RUNNING"} IN
    /\ \A i \in running : doc.status = Live[jobs[i].type]
    /\ Cardinality(running) =
           IF doc.status \in {"DETECTING", "RESOLVING", "SANITIZING"} THEN 1 ELSE 0

\* A Document at rest is never stranded by its own rows: begin() of the stage
\* that comes next (or that failed, as the stage selection attributes it)
\* accepts the status, the latest job of the stage and the parsed model.
NextStage ==
    CASE doc.status = "READY" -> "SANITIZE"
      [] doc.status # "READY" -> IF SelectAction = "SANITIZE_RETRY_OWNED"
                                 THEN "SANITIZE" ELSE SelectAction

RetryRoute ==
    doc.status \notin LiveStatuses \cup {"SANITIZED"} => RowAccepts(NextStage)

\* Pages and page_count are written and reset together, so that no stage
\* after a failed parse works on a partial Document Model.
PagesCounted == doc.counted = doc.pages

\* What the renderer is told of an unrecorded failure, the next run can still
\* try to record: the signal never outlives the stored failure.
FallbackKept == unrecorded => pending # {}

\* One accepted attempt runs each analysis stage at most once, far below
\* MAX_STAGES_PER_RUN: the stall branch after the loop is not reached.
StageBudget == run.ran <= 3

\* While nobody runs, reads or will retry, no stage is left live in the
\* database: an abandoned stage always has a run or a stored failure behind it.
LiveHasOwner ==
    up /\ doc.status \in LiveStatuses =>
        \/ \E c \in Callers : Working(c)
        \/ run.pc = "caught"
        \/ \E f \in pending : f.owner.held

\* Neither a stage that was under way, nor the sink, nor recovery moves a
\* Document that stays in the trash.
TrashPreserved ==
    [][~Available /\ ~Available' =>
          UNCHANGED <<doc.status, doc.counted, doc.pages, jobs>>]_vars

\* A run that ends leaves something to see: a row or a failed job other than
\* the accepted one, the unrecorded signal, or a status that needs no run.
TerminalSignal ==
    [][run.pc # "off" /\ run'.pc = "off" /\ up' =>
          \/ unrecorded'
          \/ Revision' # run.accepted
          \/ SelectAction' \in {"ALREADY_ANALYZED", "SANITIZE_RETRY_OWNED"}]_vars

\* An attempt never retries a failure by itself: a run enters a stage from
\* FAILED only as the first stage it runs, and not after waiting for a stage
\* of somebody else, whose failure is already the result of the attempt.
NoSilentRetry ==
    [][run.pc # "inStage" /\ run'.pc = "inStage" /\ doc.status = "FAILED" =>
          run.ran = 0 /\ run.pc # "waiting"]_vars

\* The inductive invariant behind StageOwnership, RunningJobsMatch and
\* TrashPreserved, part by part.  An abandoned stage, whose owner is in the
\* catch block of the run or in the stored failure, still holds its live row.
NobodyWorks == \A c \in Callers : ~Working(c)

CallsOwn      == \A c \in Callers : Working(c) => WorkerOwns(c)
OneWorker     == \A c, d \in Callers : Working(c) /\ Working(d) => c = d
LiveAvailable == doc.status \in LiveStatuses => Available
RunnerInStage == call[Runner].pc # "idle" =>
                     run.pc = "inStage" /\ run.stage = call[Runner].stage
CaughtHolds   == run.pc = "caught" /\ run.owner.held =>
                     doc.status = Live[run.stage] /\ NobodyWorks
PendingHolds  == \A f \in pending : f.owner.held =>
                     f.stage # "ANY" /\ doc.status = Live[f.stage] /\ NobodyWorks

\* A RUNNING job belongs to the live stage and to whoever holds that stage.
HeldJob(i) ==
    /\ jobs[i].type # "PARSE" /\ doc.status = Live[jobs[i].type]
    /\ \A c \in Callers : Working(c) => call[c].job = i
    /\ run.pc = "caught" /\ run.owner.held => run.owner.job = i
    /\ \A f \in pending : f.owner.held => f.owner.job = i
    /\ \A j \in DOMAIN jobs : jobs[j].status = "RUNNING" => i = j

RunningHeld == \A i \in DOMAIN jobs : jobs[i].status = "RUNNING" => HeldJob(i)
LiveHasJob  == doc.status \in {"DETECTING", "RESOLVING", "SANITIZING"} =>
                   \E i \in DOMAIN jobs : jobs[i].status = "RUNNING"
DownForgets == ~up => /\ run.pc = "off"
                      /\ pending = {}
                      /\ \A c \in Callers : call[c].pc = "idle"

IInv ==
    /\ TypeOK /\ CallsOwn /\ OneWorker /\ LiveAvailable /\ RunnerInStage
    /\ CaughtHolds /\ PendingHolds /\ RunningHeld /\ LiveHasJob /\ DownForgets

\* The inductive invariant behind RetryRoute and the lifecycle: a Document has
\* its pages from the end of parsing on, before that only parsing can have
\* failed, and a parsed Document that failed shows its stage in the last row,
\* while every earlier failure has been followed by a later job of its stage.
PagesFollow ==
    /\ doc.status \in {"IMPORTED", "PARSING"} => ~doc.pages
    /\ doc.status \notin {"IMPORTED", "PARSING", "FAILED"} => doc.pages
FailedParseOnly ==
    ~doc.pages => \A i \in DOMAIN jobs : jobs[i] = [type |-> "PARSE", status |-> "FAILED"]
FailureIsLast ==
    doc.status = "FAILED" /\ doc.pages =>
        /\ jobs # <<>>
        /\ jobs[Len(jobs)].status = "FAILED" /\ jobs[Len(jobs)].type # "PARSE"
RunningIsLast ==
    \A i \in DOMAIN jobs : jobs[i].status = "RUNNING" => i = Len(jobs)

FailuresSuperseded ==
    \A i \in DOMAIN jobs : jobs[i].status = "FAILED" /\ jobs[i].type # "PARSE" =>
        \/ doc.status = "FAILED" /\ jobs[Len(jobs)].type = jobs[i].type
        \/ \E k \in DOMAIN jobs :
              i < k /\ jobs[k].type = jobs[i].type /\ jobs[k].status # "FAILED"

Route ==
    /\ PagesCounted /\ PagesFollow /\ FailedParseOnly /\ FailureIsLast
    /\ RunningIsLast /\ FailuresSuperseded

\* The inductive invariant behind TerminalSignal: the revision a run was
\* accepted at, or started a stage from, is the present one or an older one,
\* and after a wait for somebody else it is not the failure that is found.
Since(r) == /\ r.updatedAt <= doc.updatedAt
            /\ r.updatedAt = doc.updatedAt => r = Revision

AttemptKnown ==
    /\ run.pc # "off" =>
          /\ Since(run.accepted)
          /\ run.external => \/ run.accepted.status # "FAILED"
                             \/ run.accepted.updatedAt < doc.updatedAt
    /\ run.pc \in {"inStage", "caught"} =>
          /\ Since(run.snapshot)
          /\ run.accepted.updatedAt <= run.snapshot.updatedAt

\* The inductive invariant behind NoSilentRetry: one call at most holds the
\* event loop and none while the run itself does; a run that goes on after a
\* stage has not found a failure of its own.
OneHolder ==
    /\ \A c, d \in Callers : HoldsLoop(c) /\ HoldsLoop(d) => c = d
    /\ run.pc \in {"reading", "caught"} => \A c \in Callers : ~HoldsLoop(c)
RetryIsFirst ==
    /\ run.pc = "waiting" => run.external
    /\ run.pc = "deferred" => run.ran = 0
    /\ run.pc = "reading" /\ run.ran > 0 => run.external \/ doc.status # "FAILED"

\* The inductive invariant behind LiveHasOwner, which needs a clock that does
\* not step back and channels that can record their own failures: a run drops
\* no stored failure, and parsing, which has no job, claims none.
Attended ==
    /\ ~clockBehind /\ budget.clockSteps = 0
    /\ run.pc \notin {"off", "deferred"} => pending = {}
    /\ \A c \in Callers : Working(c) /\ call[c].stage = "PARSE" => call[c].job = 0
    /\ run.pc = "caught" /\ run.owner.held /\ run.stage = "PARSE" => run.owner.job = 0
    /\ \A f \in pending : f.owner.held /\ f.stage = "PARSE" => f.owner.job = 0
    /\ up /\ doc.status \in LiveStatuses =>
          \/ \E c \in Callers : Working(c)
          \/ run.pc = "caught" /\ run.owner.held
          \/ \E f \in pending : f.owner.held

\* The whole pipeline implements the lifecycle; the stage a failure belongs
\* to is the one the stage selection reads out of the job rows.
Lifecycle == INSTANCE DocumentLifecycle WITH
    status    <- doc.status,
    origin    <- IF doc.status = "FAILED" THEN NextStage ELSE "NONE",
    available <- Available

LifecycleSpec == Lifecycle!Spec

\* The reservation of the runner is always given back.
RunTerminates == run.pc # "off" ~> run.pc = "off"

-----------------------------------------------------------------------------
(* What documents and comments of the repository promise, and the code     *)
(* does not keep (see the findings).                                       *)

\* "Explicit retry first retries that terminal write, then reruns the failed
\* stage": with a working clock the stored failure of a Document at rest can
\* be recorded, or has been superseded, so that the next run gets past it.
PendingIsResolvable ==
    up /\ ~clockBehind /\ Available /\ doc.status \notin LiveStatuses =>
        \A f \in pending : SinkAccepts(f) \/ PendingSuperseded(f)

\* "failures retain no partial Mentions and can be retried": a Document whose
\* next stage is detection has no mention that begin() would refuse.
FailedDetectionRetryable ==
    doc.status = "FAILED" /\ SelectAction = "DETECT" => ~doc.mentions

=============================================================================
