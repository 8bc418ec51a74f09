----------------------- MODULE DocumentAnalysisProof ------------------------
(***************************************************************************)
(* Proofs about DocumentAnalysis, for every set of channels and of         *)
(* synchronous stages, every failure pattern and every bound: its type     *)
(* invariant, the ownership of stages, and what it implies for jobs and    *)
(* for the trash; the route of every Document to its next stage; the end   *)
(* of an attempt and its retry; the refinement of DocumentLifecycle; and   *)
(* who attends to a live stage.                                            *)
(***************************************************************************)
EXTENDS DocumentAnalysis, FiniteSetTheorems, TLAPS

(***************************************************************************)
(* Types.                                                                  *)
(***************************************************************************)

\* The greatest row number of a set of rows is a natural number, 0 included.
LEMMA LatestType ==
    ASSUME NEW S \in SUBSET Nat
    PROVE  Latest(S) \in Nat
BY DEF Latest

\* What a row of the job table is.
LEMMA JobRowType ==
    ASSUME TypeOK, NEW i \in DOMAIN jobs
    PROVE  i \in Nat \ {0} /\ jobs[i] \in JobRows
<1>1. jobs \in Seq(JobRows)
  BY DEF TypeOK
<1>2. DOMAIN jobs = 1..Len(jobs) /\ Len(jobs) \in Nat
  BY <1>1
<1> QED
  BY <1>1, <1>2

\* Closing a job, or leaving the table alone, yields a table of jobs.
LEMMA ClosedJobType ==
    ASSUME NEW table \in Seq(JobRows), NEW i \in Nat,
           NEW outcome \in {"RUNNING", "COMPLETED", "FAILED"}
    PROVE  [table EXCEPT ![i].status = outcome] \in Seq(JobRows)
<1>1. PICK n \in Nat : table \in [1..n -> JobRows]
  OBVIOUS
<1>2. [table EXCEPT ![i].status = outcome] \in [1..n -> JobRows]
  BY <1>1 DEF JobRows
<1> QED
  BY <1>2

\* The newest failed job of a status read and of the table, as row numbers,
\* and the revision that a status read yields.
LEMMA FailedJobType ==
    ASSUME TypeOK
    PROVE  StatusFailedJob \in Nat /\ LatestFailed \in Nat /\ Revision \in Revisions
<1>1. DOMAIN jobs \subseteq Nat
  BY JobRowType
<1>2. \A s \in Stages : Latest(JobsOf(s)) \in Nat
  BY <1>1, LatestType DEF JobsOf
<1>3. StatusJobs \subseteq Nat
  BY <1>2 DEF StatusJobs
<1>4. StatusFailedJob \in Nat
  BY <1>3, LatestType DEF StatusFailedJob
<1>5. LatestFailed \in Nat
  BY <1>1, LatestType DEF LatestFailed
<1> QED
  BY <1>4, <1>5 DEF Revision, Revisions, TypeOK, Documents

\* A row that the sink or a stage marks FAILED is a Document row.
LEMMA FailedRowType ==
    ASSUME TypeOK, NEW s
    PROVE  FailedRow(s) \in Documents
<1> DEFINE kept == doc.counted /\ s # "PARSE"
           row == [doc EXCEPT !.status = "FAILED", !.counted = kept]
<1>1. kept \in BOOLEAN
  OBVIOUS
<1>2. row \in Documents
  <2> HIDE DEF kept
  <2> QED
    BY <1>1 DEF TypeOK, Documents, Statuses, RestStatuses
<1>3. [row EXCEPT !.updatedAt = @ + 1] \in Documents
  <2> HIDE DEF row
  <2> QED
    BY <1>2 DEF Documents
<1> QED
  BY <1>3 DEF FailedRow, Stamped

\* The two kinds of ownership that an error carries; a job is named only by
\* an abandoned stage.
LEMMA OwnerType == NoOwner \in Owners /\ \A j \in Nat : [held |-> TRUE, job |-> j] \in Owners
BY DEF NoOwner, Owners

LEMMA OwnerJobType ==
    ASSUME NEW owner \in Owners
    PROVE  owner.job \in Nat /\ (owner.job # 0 => owner.held)
<1>1. CASE owner = NoOwner
  BY <1>1 DEF NoOwner
<1>2. CASE owner \in [held: {TRUE}, job: Nat]
  BY <1>2
<1> QED
  BY <1>1, <1>2 DEF Owners

\* A stage that the sink accepts is one of the stages.
LEMMA SinkStageType ==
    ASSUME TypeOK, NEW f \in FailureInputs, SinkAccepts(f)
    PROVE  SinkStage(f) \in Stages
<1>1. SinkStage(f) # "ANY"
  BY DEF SinkAccepts
<1>2. CASE f.stage # "ANY"
  BY <1>2 DEF SinkStage, FailureInputs, AnalysisStages
<1>3. CASE f.stage = "ANY"
  <2>1. LatestFailed # 0 => LatestFailed \in DOMAIN jobs
    BY DEF LatestFailed, Latest
  <2>2. LatestFailed # 0 => jobs[LatestFailed].type \in Stages
    BY <2>1, JobRowType DEF JobRows
  <2> QED
    BY <1>1, <1>3, <2>2 DEF SinkStage, Stages
<1> QED
  BY <1>2, <1>3

\* Recording a failure keeps both tables well formed.
LEMMA SinkRecordsType ==
    ASSUME TypeOK, NEW f \in FailureInputs, SinkAccepts(f), SinkRecords(f)
    PROVE  doc' \in Documents /\ jobs' \in Seq(JobRows)
<1>1. doc' \in Documents
  BY FailedRowType DEF SinkRecords
<1>2. f.owner.job \in Nat /\ jobs \in Seq(JobRows)
  BY OwnerJobType DEF FailureInputs, TypeOK
<1>3. ASSUME f.owner.job # 0 PROVE jobs' \in Seq(JobRows)
  BY <1>2, <1>3, ClosedJobType DEF SinkRecords
<1>4. ASSUME f.owner.job = 0 PROVE jobs' \in Seq(JobRows)
  <2>1. [type |-> SinkStage(f), status |-> "FAILED"] \in JobRows
    BY SinkStageType DEF JobRows
  <2> QED
    BY <1>2, <1>4, <2>1 DEF SinkRecords
<1> QED
  BY <1>1, <1>3, <1>4

\* The variables that the end of a stage call writes, and their types.
CallsTyped ==
    /\ call \in [Callers -> Calls]
    /\ run \in Runs
    /\ pending \in SUBSET FailureInputs
    /\ \A f, g \in pending : f = g
    /\ unrecorded \in BOOLEAN

\* A stage call that returns or throws leaves its caller well formed.
LEMMA ReturnedType ==
    ASSUME TypeOK, NEW c \in Callers, NEW s \in Stages, Returned(c, s)
    PROVE  CallsTyped'
<1>1. call' \in [Callers -> Calls]
  BY DEF Returned, TypeOK, IdleCall, Calls, Stages
<1>2. run' \in Runs
  <2>1. run' = run \/ run' = [run EXCEPT !.pc = "reading", !.ran = @ + 1]
    BY Zenon DEF Returned
  <2>2. run \in Runs
    BY DEF TypeOK
  <2>3. [run EXCEPT !.pc = "reading", !.ran = @ + 1] \in Runs
    <3> DEFINE ran == run.ran + 1
    <3>1. ran \in Nat
      BY <2>2 DEF Runs
    <3> HIDE DEF ran
    <3>2. [run EXCEPT !.pc = "reading", !.ran = ran] \in Runs
      BY <2>2, <3>1 DEF Runs, RunPcs
    <3> QED
      BY <3>2 DEF ran
  <2> QED
    BY <2>1, <2>2, <2>3
<1>3. pending' = {} \/ pending' = pending
  BY DEF Returned
<1>4. unrecorded' \in BOOLEAN
  <2> DEFINE kept == unrecorded /\ ~(c # Runner /\ s # "SANITIZE")
  <2>1. kept \in BOOLEAN
    OBVIOUS
  <2>2. unrecorded' = kept
    BY DEF Returned
  <2> HIDE DEF kept
  <2> QED
    BY <2>1, <2>2
<1> QED
  BY <1>1, <1>2, <1>3, <1>4 DEF CallsTyped, TypeOK

LEMMA ThrownType ==
    ASSUME TypeOK, NEW c \in Callers, NEW owner \in Owners, Thrown(c, owner)
    PROVE  CallsTyped'
<1>1. call' \in [Callers -> Calls]
  BY DEF Thrown, TypeOK, IdleCall, Calls, Stages
<1>2. run' \in Runs
  BY DEF Thrown, TypeOK, Runs, RunPcs
<1> QED
  BY <1>1, <1>2 DEF Thrown, CallsTyped, TypeOK

\* Only a positive budget is spent.
LEMMA SpendFaultType ==
    ASSUME TypeOK, NEW s, NEW point, Fault(s, point), SpendFault
    PROVE  budget' \in Budgets
BY DEF TypeOK, Fault, SpendFault, Budgets

\* Every step of a stage call preserves the types.
LEMMA StageStepType ==
    ASSUME TypeOK, NEW c \in Callers, StageStep(c)
    PROVE  TypeOK'
<1> DEFINE s == call[c].stage
<1>1. s \in Stages /\ call[c].job \in Nat /\ call[c] \in Calls
  BY DEF TypeOK, Calls
<1>2. UNCHANGED <<matterDeleted, clockBehind, up>>
  BY DEF StageStep
<1>3. SUFFICES /\ doc' \in Documents
               /\ jobs' \in Seq(JobRows)
               /\ CallsTyped'
               /\ budget' \in Budgets
  BY <1>2 DEF TypeOK, CallsTyped
<1>4. FailedRow(s) \in Documents
  BY FailedRowType
<1>5. ASSUME NEW outcome \in {"RUNNING", "COMPLETED", "FAILED"}, CloseJob(call[c].job, outcome)
      PROVE  jobs' \in Seq(JobRows)
  BY <1>1, <1>5, ClosedJobType DEF CloseJob, TypeOK
<1>6. CASE InspectSource(c)
  <2>1. doc' \in Documents /\ jobs' \in Seq(JobRows) /\ budget' \in Budgets
    BY <1>6 DEF InspectSource, TypeOK
  <2>2. CASE Available
    <3>1. call' \in [Callers -> Calls]
      BY <1>1, <1>6, <2>2 DEF InspectSource, TypeOK, Calls
    <3> QED
      BY <1>6, <2>1, <2>2, <3>1 DEF InspectSource, TypeOK, CallsTyped
  <2>3. CASE ~Available
    BY <1>6, <2>1, <2>3, ThrownType, OwnerType DEF InspectSource
  <2> QED
    BY <2>2, <2>3
<1>7. CASE SourceRejected(c)
  BY <1>7, ThrownType, OwnerType DEF SourceRejected, TypeOK
<1>8. CASE ReuseResult(c)
  BY <1>1, <1>8, ReturnedType DEF ReuseResult, TypeOK
<1>9. CASE BeginStage(c)
  <2>1. doc' \in Documents
    <3> DEFINE kept == doc.counted /\ s # "PARSE"
               row == [doc EXCEPT !.status = Live[s], !.counted = kept]
    <3>1. kept \in BOOLEAN
      OBVIOUS
    <3>2. row \in Documents
      <4>1. Live[s] \in Statuses
        BY <1>1 DEF Live, Stages, Statuses, LiveStatuses
      <4> HIDE DEF kept
      <4> QED
        BY <3>1, <4>1 DEF TypeOK, Documents
    <3>3. [row EXCEPT !.updatedAt = @ + 1] \in Documents
      <4> HIDE DEF row
      <4> QED
        BY <3>2 DEF Documents
    <3> QED
      BY <1>9, <3>3 DEF BeginStage, Stamped
  <2>2. jobs' \in Seq(JobRows) /\ Len(jobs) \in Nat
    <3>1. [type |-> s, status |-> "RUNNING"] \in JobRows
      BY <1>1 DEF JobRows
    <3> QED
      BY <1>9, <3>1 DEF BeginStage, TypeOK
  <2>3. call' \in [Callers -> Calls]
    <3> DEFINE job == IF s = "PARSE" THEN 0 ELSE Len(jobs) + 1
    <3>1. job \in Nat
      BY <2>2
    <3>2. call' = [call EXCEPT ![c].pc = "working", ![c].job = job]
      BY <1>9 DEF BeginStage
    <3> HIDE DEF job
    <3> QED
      BY <1>1, <3>1, <3>2 DEF TypeOK, Calls
  <2> QED
    BY <1>9, <2>1, <2>2, <2>3 DEF BeginStage, TypeOK, CallsTyped
<1>10. CASE RefuseStage(c)
  BY <1>10, ThrownType, OwnerType DEF RefuseStage, TypeOK
<1>11. CASE BeginFault(c)
  BY <1>11, ThrownType, OwnerType, SpendFaultType DEF BeginFault, TypeOK
<1>12. CASE StageCompletes(c)
  <2>1. PICK found \in BOOLEAN :
           doc' = Stamped([doc EXCEPT !.status = Done[s],
                                      !.counted = @ \/ s = "PARSE",
                                      !.pages = @ \/ s = "PARSE",
                                      !.mentions = @ \/ found])
    BY <1>12 DEF StageCompletes
  <2>2. doc' \in Documents
    <3> DEFINE counted == doc.counted \/ s = "PARSE"
               pages == doc.pages \/ s = "PARSE"
               mentions == doc.mentions \/ found
               row == [doc EXCEPT !.status = Done[s], !.counted = counted,
                                  !.pages = pages, !.mentions = mentions]
    <3>1. counted \in BOOLEAN /\ pages \in BOOLEAN /\ mentions \in BOOLEAN
      OBVIOUS
    <3>2. row \in Documents
      <4>1. Done[s] \in Statuses
        BY <1>1 DEF Done, Stages, Statuses, RestStatuses
      <4> HIDE DEF counted, pages, mentions
      <4> QED
        BY <3>1, <4>1 DEF TypeOK, Documents
    <3>3. [row EXCEPT !.updatedAt = @ + 1] \in Documents
      <4> HIDE DEF row
      <4> QED
        BY <3>2 DEF Documents
    <3> QED
      BY <2>1, <3>3 DEF Stamped
  <2> QED
    BY <1>1, <1>5, <1>12, <2>2, ReturnedType DEF StageCompletes, TypeOK
<1>13. CASE StageFails(c)
  BY <1>4, <1>5, <1>13, ThrownType, OwnerType DEF StageFails, TypeOK
<1>14. CASE StageFailsOnCompleteFault(c)
  BY <1>4, <1>5, <1>14, ThrownType, OwnerType, SpendFaultType
     DEF StageFailsOnCompleteFault, TypeOK
<1>15. CASE StageAbandoned(c)
  BY <1>1, <1>15, ThrownType, OwnerType DEF StageAbandoned, TypeOK
<1>16. CASE StageAbandonedOnFault(c)
  BY <1>1, <1>16, ThrownType, OwnerType, SpendFaultType DEF StageAbandonedOnFault, TypeOK
<1> QED
  BY <1>6, <1>7, <1>8, <1>9, <1>10, <1>11, <1>12, <1>13, <1>14, <1>15, <1>16 DEF StageStep

\* A run that ends leaves the idle record and a Boolean signal.
LEMMA RunEndsType ==
    ASSUME TypeOK, NEW reported \in BOOLEAN, RunEnds(reported)
    PROVE  run' \in Runs /\ unrecorded' \in BOOLEAN
<1>1. OffRun \in Runs
  BY DEF OffRun, Runs, RunPcs, AnalysisStages, Stages, NoRevision, Revisions,
         Statuses, RestStatuses, NoOwner, Owners
<1>2. (unrecorded \/ reported) \in BOOLEAN
  OBVIOUS
<1> QED
  BY <1>1, <1>2 DEF RunEnds

\* What the run hands to the sink is a failure input.
LEMMA FailureInputType ==
    ASSUME TypeOK
    PROVE  StageFailure \in FailureInputs /\ NoFailure \in FailureInputs
<1>1. StageFailure \in FailureInputs
  BY DEF TypeOK, Runs, StageFailure, FailureInputs
<1>2. NoFailure \in FailureInputs
  BY DEF NoFailure, FailureInputs, NoRevision, Revisions, Statuses, RestStatuses,
         NoOwner, Owners
<1> QED
  BY <1>1, <1>2

\* Every step of the background run preserves the types.
LEMMA RunStepType ==
    ASSUME TypeOK, RunStep
    PROVE  TypeOK'
<1>1. UNCHANGED <<matterDeleted, clockBehind, up>>
  BY DEF RunStep
<1>2. SUFFICES /\ doc' \in Documents
               /\ jobs' \in Seq(JobRows)
               /\ CallsTyped'
               /\ budget' \in Budgets
  BY <1>1 DEF TypeOK, CallsTyped
<1>3. ASSUME RunFault("sink") \/ RunFault("read"), SpendFault
      PROVE  budget' \in Budgets
  BY <1>3, SpendFaultType DEF RunFault
<1>4. ASSUME NEW f, pending' = {} \/ pending' = pending \/ pending' = {f},
             f \in FailureInputs
      PROVE  pending' \in SUBSET FailureInputs /\ \A g, h \in pending' : g = h
  BY <1>4 DEF TypeOK
<1>5. CASE RetryPending /\ UNCHANGED call
  <2>1. CASE RunEnds(TRUE) /\ UNCHANGED <<doc, jobs, pending>>
    BY <1>5, <2>1, RunEndsType DEF RetryPending, TypeOK, CallsTyped
  <2>2. CASE /\ \/ UNCHANGED <<doc, jobs>>
                \/ \E f \in pending : SinkAccepts(f) /\ SinkRecords(f)
             /\ pending' = {}
             /\ run' = [run EXCEPT !.pc = "reading"]
             /\ UNCHANGED unrecorded
    <3>1. doc' \in Documents /\ jobs' \in Seq(JobRows)
      BY <2>2, SinkRecordsType DEF TypeOK
    <3>2. run' \in Runs
      BY <2>2 DEF TypeOK, Runs, RunPcs
    <3> QED
      BY <1>5, <2>2, <3>1, <3>2 DEF RetryPending, TypeOK, CallsTyped
  <2> QED
    BY <1>5, <2>1, <2>2 DEF RetryPending
<1>6. CASE RetryPendingFault /\ UNCHANGED call
  <2>1. budget' \in Budgets
    BY <1>3, <1>6 DEF RetryPendingFault
  <2> QED
    BY <1>6, <2>1, RunEndsType DEF RetryPendingFault, TypeOK, CallsTyped
<1>7. CASE AwaitLiveStage
  <2>1. run' \in Runs
    BY <1>7 DEF AwaitLiveStage, TypeOK, Runs, RunPcs
  <2> QED
    BY <1>7, <2>1 DEF AwaitLiveStage, TypeOK, CallsTyped
<1>8. CASE FinishRun
  BY <1>8, RunEndsType DEF FinishRun, TypeOK, CallsTyped
<1>9. CASE RunStage
  <2>1. run' \in Runs
    BY <1>9, FailedJobType DEF RunStage, TypeOK, Runs, RunPcs
  <2>2. call' \in [Callers -> Calls]
    BY <1>9 DEF RunStage, TypeOK, Calls, Entered, AnalysisStages
  <2> QED
    BY <1>9, <2>1, <2>2 DEF RunStage, TypeOK, CallsTyped
<1>10. CASE StatusReadFault
  <2>1. budget' \in Budgets
    BY <1>3, <1>10 DEF StatusReadFault
  <2>2. CASE SinkAccepts(NoFailure) /\ SinkRecords(NoFailure) /\ pending' = {} /\ RunEnds(FALSE)
    BY <1>10, <2>1, <2>2, SinkRecordsType, FailureInputType, RunEndsType
       DEF StatusReadFault, TypeOK, CallsTyped
  <2>3. CASE pending' = {NoFailure} /\ RunEnds(TRUE) /\ UNCHANGED <<doc, jobs>>
    BY <1>4, <1>10, <2>1, <2>3, FailureInputType, RunEndsType
       DEF StatusReadFault, TypeOK, CallsTyped
  <2> QED
    BY <1>10, <2>2, <2>3 DEF StatusReadFault
<1>11. CASE RecordStageFailure
  <2>1. call' = call /\ budget' = budget
    BY <1>11 DEF RecordStageFailure
  <2>2. CASE SinkAccepts(StageFailure)
    BY <1>11, <2>1, <2>2, SinkRecordsType, FailureInputType, RunEndsType
       DEF RecordStageFailure, TypeOK, CallsTyped
  <2>3. CASE ~SinkAccepts(StageFailure)
    <3>1. doc' = doc /\ jobs' = jobs
      BY <1>11, <2>3 DEF RecordStageFailure
    <3>2. pending' = {} \/ pending' = {StageFailure}
      BY <1>11, <2>3 DEF RecordStageFailure
    <3>3. \/ RunEnds(TRUE) \/ RunEnds(FALSE)
          \/ /\ run' = [run EXCEPT !.pc = "reading", !.external = TRUE, !.owner = NoOwner]
             /\ UNCHANGED unrecorded
      BY <1>11, <2>3 DEF RecordStageFailure
    <3>4. run' \in Runs /\ unrecorded' \in BOOLEAN
      BY <3>3, RunEndsType, OwnerType DEF TypeOK, Runs, RunPcs
    <3> QED
      BY <1>4, <2>1, <3>1, <3>2, <3>4, FailureInputType DEF TypeOK, CallsTyped
  <2> QED
    BY <2>2, <2>3
<1>12. CASE RecordStageFailureFault
  <2>1. budget' \in Budgets
    BY <1>3, <1>12 DEF RecordStageFailureFault
  <2> QED
    BY <1>4, <1>12, <2>1, FailureInputType, RunEndsType
       DEF RecordStageFailureFault, TypeOK, CallsTyped
<1> QED
  BY <1>5, <1>6, <1>7, <1>8, <1>9, <1>10, <1>11, <1>12 DEF RunStep

\* Every request of a user, and every step of the environment.
LEMMA UserStepType ==
    ASSUME TypeOK, UserStep
    PROVE  TypeOK'
<1>1. ASSUME Request
      PROVE  budget' \in Budgets
  BY <1>1 DEF Request, TypeOK, Budgets
<1>2. CASE StartAnalysis
  <2>1. run' \in Runs
    <3>1. OffRun \in Runs
      BY DEF OffRun, Runs, RunPcs, AnalysisStages, Stages, NoRevision, Revisions,
             Statuses, RestStatuses, NoOwner, Owners
    <3> QED
      BY <1>2, <3>1, FailedJobType DEF StartAnalysis, Runs, RunPcs
  <2> QED
    BY <1>1, <1>2, <2>1 DEF StartAnalysis, TypeOK
<1>3. ASSUME NEW c \in Channels, NEW s \in Stages, ChannelCall(c, s)
      PROVE  TypeOK'
  <2>1. call' \in [Callers -> Calls]
    BY <1>3 DEF ChannelCall, TypeOK, Calls, Entered
  <2> QED
    BY <1>1, <1>3, <2>1 DEF ChannelCall, TypeOK
<1>4. CASE TrashDocument
  <2>1. doc' \in Documents
    <3> DEFINE row == [doc EXCEPT !.trashed = TRUE]
    <3>1. row \in Documents
      BY DEF TypeOK, Documents
    <3>2. doc' = [row EXCEPT !.updatedAt = @ + 1]
      BY <1>4 DEF TrashDocument, Stamped
    <3> HIDE DEF row
    <3> QED
      BY <3>1, <3>2 DEF Documents
  <2> QED
    BY <1>1, <1>4, <2>1 DEF TrashDocument, ClearFailure, TypeOK
<1>5. CASE RestoreDocument
  <2>1. doc' \in Documents
    <3> DEFINE row == [doc EXCEPT !.trashed = FALSE]
    <3>1. row \in Documents
      BY DEF TypeOK, Documents
    <3>2. doc' = [row EXCEPT !.updatedAt = @ + 1]
      BY <1>5 DEF RestoreDocument, Stamped
    <3> HIDE DEF row
    <3> QED
      BY <3>1, <3>2 DEF Documents
  <2> QED
    BY <1>1, <1>5, <2>1 DEF RestoreDocument, TypeOK
<1>6. CASE TrashMatter
  BY <1>1, <1>6 DEF TrashMatter, ClearFailure, TypeOK
<1>7. CASE RestoreMatter
  BY <1>1, <1>7 DEF RestoreMatter, TypeOK
<1>8. CASE CreateManualMention
  <2>1. doc' \in Documents
    BY <1>8 DEF CreateManualMention, TypeOK, Documents
  <2> QED
    BY <1>1, <1>8, <2>1 DEF CreateManualMention, TypeOK
<1>9. CASE DocumentGet
  BY <1>1, <1>9 DEF DocumentGet, ClearFailure, TypeOK
<1> QED
  BY <1>2, <1>3, <1>4, <1>5, <1>6, <1>7, <1>8, <1>9 DEF UserStep

LEMMA EnvironmentType ==
    ASSUME TypeOK, ClockStepsBack \/ ClockCatchesUp \/ Crash \/ Recover
    PROVE  TypeOK'
<1>1. CASE ClockStepsBack
  BY <1>1 DEF ClockStepsBack, TypeOK, Budgets
<1>2. CASE ClockCatchesUp
  BY <1>2 DEF ClockCatchesUp, TypeOK
<1>3. CASE Crash
  <2>1. IdleCall \in Calls /\ OffRun \in Runs
    BY DEF IdleCall, Calls, OffRun, Runs, RunPcs, AnalysisStages, Stages,
           NoRevision, Revisions, Statuses, RestStatuses, NoOwner, Owners
  <2>2. budget' \in Budgets
    BY <1>3 DEF Crash, TypeOK, Budgets
  <2> QED
    BY <1>3, <2>1, <2>2 DEF Crash, ClearFailure, TypeOK
<1>4. CASE Recover
  <2>1. jobs' \in Seq(JobRows)
    <3>1. PICK n \in Nat : jobs \in [1..n -> JobRows]
      BY DEF TypeOK
    <3>2. jobs' \in [1..n -> JobRows]
      BY <1>4, <3>1 DEF Recover, JobRows
    <3> QED
      BY <3>2
  <2>2. doc' \in Documents
    <3>1. CASE doc.status \in LiveStatuses
      <4> DEFINE kept == doc.counted /\ doc.status # "PARSING"
                 stamp == IF clockBehind THEN doc.updatedAt ELSE doc.updatedAt + 1
      <4>1. kept \in BOOLEAN
        OBVIOUS
      <4>2. stamp \in Nat
        BY DEF TypeOK, Documents
      <4>3. doc' = [doc EXCEPT !.status = "FAILED", !.updatedAt = stamp, !.counted = kept]
        BY <1>4, <3>1 DEF Recover
      <4> HIDE DEF kept, stamp
      <4> QED
        BY <4>1, <4>2, <4>3 DEF TypeOK, Documents, Statuses, RestStatuses
    <3>2. CASE doc.status \notin LiveStatuses
      BY <1>4, <3>2 DEF Recover, TypeOK
    <3> QED
      BY <3>1, <3>2
  <2> QED
    BY <1>4, <2>1, <2>2 DEF Recover, TypeOK
<1> QED
  BY <1>1, <1>2, <1>3, <1>4

\* The initial state, and every step of the system or of its environment.
LEMMA InitType == Init => TypeOK
<1> SUFFICES ASSUME Init PROVE TypeOK
  OBVIOUS
<1>1. IdleCall \in Calls /\ OffRun \in Runs
  BY DEF IdleCall, Calls, OffRun, Runs, RunPcs, AnalysisStages, Stages,
         NoRevision, Revisions, Statuses, RestStatuses, NoOwner, Owners
<1>2. doc \in Documents
  BY DEF Init, Documents, Statuses, RestStatuses
<1>3. budget \in Budgets
  BY BoundsAssumption DEF Init, Budgets
<1>4. jobs \in Seq(JobRows)
  BY DEF Init
<1> QED
  BY <1>1, <1>2, <1>3, <1>4 DEF Init, TypeOK

LEMMA NextType == TypeOK /\ [Next]_vars => TypeOK'
<1> SUFFICES ASSUME TypeOK, [Next]_vars PROVE TypeOK'
  OBVIOUS
<1>1. CASE UNCHANGED vars
  BY <1>1 DEF vars, TypeOK
<1>2. CASE Next
  BY <1>2, StageStepType, RunStepType, UserStepType, EnvironmentType DEF Next
<1> QED
  BY <1>1, <1>2

\* Every reachable state is well formed: the rows, the calls, the run, the
\* stored failure and the bounds keep the shapes that the code gives them.
THEOREM TypeCorrect == Spec => []TypeOK
BY InitType, NextType, PTL DEF Spec

(***************************************************************************)
(* Ownership.  The lemmas say what the invariant gives in a state where no *)
(* stage is live, what is enough to re-establish it there, and what a step *)
(* may do that leaves the status and the jobs alone.                       *)
(***************************************************************************)

Ownership ==
    /\ CallsOwn /\ OneWorker /\ LiveAvailable /\ RunnerInStage
    /\ CaughtHolds /\ PendingHolds /\ RunningHeld /\ LiveHasJob /\ DownForgets

NothingRuns == \A i \in DOMAIN jobs : jobs[i].status # "RUNNING"

CaughtHeld == run.pc = "caught" /\ run.owner.held

LEMMA LiveStatus == \A s \in Stages : Live[s] \in LiveStatuses
BY DEF Stages, Live, LiveStatuses

LEMMA RestStatus ==
    /\ \A s \in Stages : Source[s] \notin LiveStatuses /\ Done[s] \notin LiveStatuses
    /\ "FAILED" \notin LiveStatuses
BY DEF Stages, Source, Done, LiveStatuses

\* A Document whose status is at rest is held by nobody.
LEMMA RestIsFree ==
    ASSUME IInv, doc.status \notin LiveStatuses
    PROVE  /\ NobodyWorks
           /\ NothingRuns
           /\ ~CaughtHeld
           /\ \A f \in pending : ~f.owner.held
<1>1. NobodyWorks
  <2> SUFFICES ASSUME NEW c \in Callers, Working(c) PROVE FALSE
    BY DEF NobodyWorks
  <2>1. doc.status = Live[call[c].stage]
    BY DEF IInv, CallsOwn, WorkerOwns
  <2>2. call[c].stage \in Stages
    BY DEF IInv, TypeOK, Calls
  <2> QED
    BY <2>1, <2>2, LiveStatus
<1>2. NothingRuns
  <2> SUFFICES ASSUME NEW i \in DOMAIN jobs, jobs[i].status = "RUNNING" PROVE FALSE
    BY DEF NothingRuns
  <2>1. doc.status = Live[jobs[i].type]
    BY DEF IInv, RunningHeld, HeldJob
  <2>2. jobs[i].type \in Stages
    BY JobRowType DEF IInv, JobRows
  <2> QED
    BY <2>1, <2>2, LiveStatus
<1>3. ~CaughtHeld
  <2>1. run.stage \in Stages
    BY DEF IInv, TypeOK, Runs, AnalysisStages
  <2> QED
    BY <2>1, LiveStatus DEF IInv, CaughtHolds, CaughtHeld
<1>4. \A f \in pending : ~f.owner.held
  <2> SUFFICES ASSUME NEW f \in pending, f.owner.held PROVE FALSE
    OBVIOUS
  <2>1. f.stage # "ANY" /\ doc.status = Live[f.stage]
    BY DEF IInv, PendingHolds
  <2>2. f.stage \in Stages
    BY <2>1 DEF IInv, TypeOK, FailureInputs, AnalysisStages
  <2> QED
    BY <2>1, <2>2, LiveStatus
<1> QED
  BY <1>1, <1>2, <1>3, <1>4

\* Conversely a step that leaves the Document at rest and held by nobody
\* establishes the invariant.
LEMMA FreeIsOwned ==
    ASSUME doc'.status \notin LiveStatuses, NobodyWorks', NothingRuns',
           ~CaughtHeld', \A f \in pending' : ~f.owner.held,
           RunnerInStage', DownForgets'
    PROVE  Ownership'
<1>1. CallsOwn' /\ OneWorker'
  BY DEF NobodyWorks, CallsOwn, OneWorker
<1>2. LiveAvailable' /\ LiveHasJob'
  BY DEF LiveAvailable, LiveHasJob, LiveStatuses
<1>3. CaughtHolds' /\ PendingHolds'
  BY DEF CaughtHolds, CaughtHeld, PendingHolds
<1>4. RunningHeld'
  BY DEF RunningHeld, NothingRuns
<1> QED
  BY <1>1, <1>2, <1>3, <1>4 DEF Ownership

\* A step that changes neither the status nor the jobs preserves the
\* invariant when it starts no work and creates no new claim on the row.
LEMMA Undisturbed ==
    ASSUME IInv, jobs' = jobs, doc'.status = doc.status,
           doc.status \in LiveStatuses => Available',
           \A c \in Callers : Working(c)' => Working(c) /\ call'[c] = call[c],
           CaughtHeld' => CaughtHeld /\ run'.stage = run.stage /\ run'.owner = run.owner,
           \A f \in pending' : f.owner.held =>
               f \in pending \/ (CaughtHeld /\ f = StageFailure),
           RunnerInStage', DownForgets'
    PROVE  Ownership'
<1>1. CallsOwn'
  <2> SUFFICES ASSUME NEW c \in Callers, Working(c)' PROVE WorkerOwns(c)'
    BY DEF CallsOwn
  <2>1. WorkerOwns(c) /\ call'[c] = call[c]
    BY DEF IInv, CallsOwn
  <2>2. call[c].stage \in Stages
    BY DEF IInv, TypeOK, Calls
  <2>3. Available'
    BY <2>1, <2>2, LiveStatus DEF WorkerOwns
  <2> QED
    BY <2>1, <2>3 DEF WorkerOwns, JobRunning
<1>2. OneWorker'
  BY DEF IInv, OneWorker
<1>3. LiveAvailable' /\ LiveHasJob'
  BY DEF IInv, LiveAvailable, LiveHasJob
<1>4. NobodyWorks => NobodyWorks'
  BY DEF NobodyWorks
<1>5. CaughtHolds'
  BY <1>4 DEF IInv, CaughtHolds, CaughtHeld
<1>6. PendingHolds'
  <2> SUFFICES ASSUME NEW f \in pending', f.owner.held
               PROVE  f.stage # "ANY" /\ doc.status = Live[f.stage] /\ NobodyWorks
    BY <1>4 DEF PendingHolds
  <2>1. CASE f \in pending
    BY <2>1 DEF IInv, PendingHolds
  <2>2. CASE CaughtHeld /\ f = StageFailure
    <3>1. f.stage = run.stage /\ run.stage \in AnalysisStages
      BY <2>2 DEF StageFailure, IInv, TypeOK, Runs
    <3> QED
      BY <2>2, <3>1 DEF IInv, CaughtHolds, CaughtHeld, AnalysisStages, Stages
  <2> QED
    BY <2>1, <2>2
<1>7. RunningHeld'
  <2> SUFFICES ASSUME NEW i \in DOMAIN jobs, jobs[i].status = "RUNNING"
               PROVE  HeldJob(i)'
    BY DEF RunningHeld
  <2>1. HeldJob(i)
    BY DEF IInv, RunningHeld
  <2>2. \A c \in Callers : Working(c)' => call'[c].job = i
    BY <2>1 DEF HeldJob
  <2>3. CaughtHeld' => run'.owner.job = i
    BY <2>1 DEF HeldJob, CaughtHeld
  <2>4. \A f \in pending' : f.owner.held => f.owner.job = i
    BY <2>1 DEF HeldJob, CaughtHeld, StageFailure
  <2>5. jobs'[i].type # "PARSE" /\ doc'.status = Live[jobs'[i].type]
    BY <2>1 DEF HeldJob
  <2>6. \A j \in DOMAIN jobs' : jobs'[j].status = "RUNNING" => i = j
    BY <2>1 DEF HeldJob
  <2> QED
    BY <2>2, <2>3, <2>4, <2>5, <2>6 DEF HeldJob, CaughtHeld
<1> QED
  BY <1>1, <1>2, <1>3, <1>5, <1>6, <1>7 DEF Ownership

\* While a call works, no abandoned stage claims the row.
LEMMA WorkerIsAlone ==
    ASSUME IInv, NEW c \in Callers, Working(c)
    PROVE  /\ \A d \in Callers : Working(d) => d = c
           /\ ~CaughtHeld
           /\ \A f \in pending : ~f.owner.held
BY DEF IInv, OneWorker, CaughtHolds, PendingHolds, CaughtHeld, NobodyWorks

\* The run that is given back a call claims no abandoned stage.
LEMMA NoClaim ==
    ASSUME run \in Runs, NEW c \in Callers,
           Thrown(c, NoOwner) \/ (\E s \in Stages : Returned(c, s))
    PROVE  run' = run \/ ~CaughtHeld'
<1>1. CASE c # Runner
  <2>1. run' = run
    BY <1>1, Zenon DEF Thrown, Returned
  <2> QED
    BY <2>1
<1>2. CASE c = Runner
  <2>1. \/ run' = [run EXCEPT !.pc = "reading", !.ran = @ + 1]
        \/ run' = [run EXCEPT !.pc = "caught", !.owner = NoOwner]
    BY <1>2, Zenon DEF Thrown, Returned
  <2>2. CASE run' = [run EXCEPT !.pc = "reading", !.ran = @ + 1]
    <3>1. run'.pc = "reading"
      BY <2>2 DEF Runs
    <3> QED
      BY <3>1 DEF CaughtHeld
  <2>3. CASE run' = [run EXCEPT !.pc = "caught", !.owner = NoOwner]
    <3>1. run'.owner = NoOwner
      BY <2>3 DEF Runs
    <3>2. ~NoOwner.held
      BY DEF NoOwner
    <3> QED
      BY <3>1, <3>2 DEF CaughtHeld
  <2> QED
    BY <2>1, <2>2, <2>3
<1> QED
  BY <1>1, <1>2

\* A call that returns or throws before its guarded region leaves no trace.
LEMMA CallLeaves ==
    ASSUME IInv, up, UNCHANGED <<doc, jobs, matterDeleted, up>>,
           NEW c \in Callers, call[c].pc # "idle", ~Working(c),
           Thrown(c, NoOwner) \/ (\E s \in Stages : Returned(c, s))
    PROVE  Ownership'
<1>1. call' = [call EXCEPT ![c] = IdleCall] /\ call \in [Callers -> Calls]
  BY DEF Thrown, Returned, IInv, TypeOK
<1>2. \/ c # Runner /\ run' = run
      \/ c = Runner /\ run' = [run EXCEPT !.pc = "reading", !.ran = @ + 1]
      \/ c = Runner /\ run' = [run EXCEPT !.pc = "caught", !.owner = NoOwner]
  BY Zenon DEF Thrown, Returned
<1>3. pending' \subseteq pending
  BY DEF Thrown, Returned
<1>4. run \in Runs
  BY DEF IInv, TypeOK
<1>5. doc.status \in LiveStatuses => Available'
  BY DEF IInv, LiveAvailable, Available
<1>6. \A d \in Callers : Working(d)' => Working(d) /\ call'[d] = call[d]
  BY <1>1 DEF Working, IdleCall
<1>7. CaughtHeld' => CaughtHeld /\ run'.stage = run.stage /\ run'.owner = run.owner
  BY <1>4, NoClaim DEF CaughtHeld
<1>8. RunnerInStage'
  BY <1>1, <1>2 DEF IInv, RunnerInStage, IdleCall, Callers
<1>9. DownForgets'
  BY DEF DownForgets
<1> QED
  BY <1>3, <1>5, <1>6, <1>7, <1>8, <1>9, Undisturbed

\* The first transaction of a stage takes a Document that nobody holds.
LEMMA BeginTakes ==
    ASSUME IInv, up, UNCHANGED <<matterDeleted, up>>, NEW c \in Callers, BeginStage(c)
    PROVE  Ownership'
<1> DEFINE s == call[c].stage
           job == IF s = "PARSE" THEN 0 ELSE Len(jobs) + 1
           row == [type |-> s, status |-> "RUNNING"]
<1>1. s \in Stages /\ call \in [Callers -> Calls] /\ jobs \in Seq(JobRows) /\ doc \in Documents
  BY DEF IInv, TypeOK, Calls
<1>2. call[c].pc # "idle"
  BY DEF BeginStage, Beginning
<1>3. Available /\ doc.status \notin LiveStatuses
  BY <1>1, RestStatus DEF BeginStage, BeginAccepts, RowAccepts
<1>4. /\ NobodyWorks /\ NothingRuns /\ ~CaughtHeld
      /\ \A f \in pending : ~f.owner.held
  BY <1>3, RestIsFree
<1>5. doc'.status = Live[s] /\ doc'.trashed = doc.trashed
  BY <1>1 DEF BeginStage, Stamped, Documents
<1>6. call' = [call EXCEPT ![c].pc = "working", ![c].job = job]
  BY DEF BeginStage
<1>7. /\ \A d \in Callers : Working(d)' => d = c
      /\ call'[c].stage = s /\ call'[c].job = job
      /\ call'[Runner].pc # "idle" => call[Runner].pc # "idle"
      /\ call'[Runner].stage = call[Runner].stage
  BY <1>1, <1>2, <1>4, <1>6 DEF NobodyWorks, Working, Calls, Callers
<1>8. UNCHANGED <<run, pending>>
  BY DEF BeginStage
<1>9. Available'
  BY <1>3, <1>5 DEF Available
<1>10. CASE s = "PARSE"
  <2>1. jobs' = jobs /\ doc'.status = "PARSING"
    BY <1>5, <1>10 DEF BeginStage, Live
  <2>2. CallsOwn' /\ OneWorker'
    BY <1>5, <1>7, <1>9, <1>10 DEF CallsOwn, OneWorker, WorkerOwns, JobRunning
  <2>3. RunningHeld' /\ LiveHasJob'
    BY <1>4, <2>1 DEF RunningHeld, LiveHasJob, NothingRuns
  <2> QED
    BY <1>4, <1>7, <1>8, <1>9, <2>2, <2>3
       DEF Ownership, LiveAvailable, IInv, RunnerInStage, CaughtHolds, CaughtHeld,
           PendingHolds, DownForgets
<1>11. CASE s # "PARSE"
  <2>1. jobs' = Append(jobs, row) /\ job = Len(jobs) + 1
    BY <1>11 DEF BeginStage
  <2>2. /\ Len(jobs) \in Nat /\ DOMAIN jobs = 1..Len(jobs)
        /\ DOMAIN jobs' = 1..(Len(jobs) + 1)
        /\ jobs'[job] = row
        /\ \A i \in DOMAIN jobs : jobs'[i] = jobs[i]
    BY <1>1, <2>1
  <2>3. CallsOwn' /\ OneWorker'
    BY <1>5, <1>7, <1>9, <2>1, <2>2 DEF CallsOwn, OneWorker, WorkerOwns, JobRunning
  <2>4. \A i \in DOMAIN jobs' : jobs'[i].status = "RUNNING" => i = job
    BY <1>4, <2>1, <2>2 DEF NothingRuns
  <2>5. RunningHeld'
    BY <1>4, <1>5, <1>7, <1>8, <2>2, <2>4 DEF RunningHeld, HeldJob, CaughtHeld
  <2>6. LiveHasJob'
    BY <2>1, <2>2 DEF LiveHasJob
  <2> QED
    BY <1>4, <1>7, <1>8, <1>9, <2>3, <2>5, <2>6
       DEF Ownership, LiveAvailable, IInv, RunnerInStage, CaughtHolds, CaughtHeld,
           PendingHolds, DownForgets
<1> QED
  BY <1>10, <1>11

\* A stage that ends by its own transaction leaves the Document at rest.
LEMMA CloseReleases ==
    ASSUME IInv, up, UNCHANGED <<matterDeleted, up>>, NEW c \in Callers, Working(c),
           doc'.status \notin LiveStatuses,
           NEW outcome \in {"COMPLETED", "FAILED"}, CloseJob(call[c].job, outcome),
           Thrown(c, NoOwner) \/ (\E s \in Stages : Returned(c, s))
    PROVE  Ownership'
<1>1. call' = [call EXCEPT ![c] = IdleCall] /\ call \in [Callers -> Calls] /\ run \in Runs
  BY DEF Thrown, Returned, IInv, TypeOK
<1>2. \/ c # Runner /\ run' = run
      \/ c = Runner /\ run' = [run EXCEPT !.pc = "reading", !.ran = @ + 1]
      \/ c = Runner /\ run' = [run EXCEPT !.pc = "caught", !.owner = NoOwner]
  BY Zenon DEF Thrown, Returned
<1>3. pending' \subseteq pending
  BY DEF Thrown, Returned
<1>4. NobodyWorks'
  BY <1>1, WorkerIsAlone DEF NobodyWorks, Working, IdleCall
<1>5. ~CaughtHeld'
  BY <1>1, NoClaim, WorkerIsAlone DEF CaughtHeld
<1>6. \A f \in pending' : ~f.owner.held
  BY <1>3, WorkerIsAlone
<1>7. NothingRuns'
  <2> SUFFICES ASSUME NEW i \in DOMAIN jobs', jobs'[i].status = "RUNNING" PROVE FALSE
    BY DEF NothingRuns
  <2>1. jobs \in Seq(JobRows) /\ call[c].job \in Nat
    BY <1>1 DEF IInv, TypeOK, Calls
  <2>2. DOMAIN jobs' = DOMAIN jobs
    BY <2>1 DEF CloseJob
  <2>3. \A j \in DOMAIN jobs : jobs[j].status = "RUNNING" => call[c].job = j /\ j # 0
    BY JobRowType DEF IInv, RunningHeld, HeldJob
  <2>4. CASE i = call[c].job
    <3>1. jobs[i] \in JobRows /\ i # 0
      BY <2>2, JobRowType DEF IInv
    <3>2. jobs'[i].status = outcome
      BY <2>1, <2>2, <2>4, <3>1 DEF CloseJob, JobRows
    <3> QED
      BY <3>2
  <2>5. CASE i # call[c].job
    BY <2>2, <2>3, <2>5 DEF CloseJob
  <2> QED
    BY <2>4, <2>5
<1>8. RunnerInStage'
  BY <1>1, <1>2 DEF IInv, RunnerInStage, IdleCall, Callers
<1>9. DownForgets'
  BY DEF DownForgets
<1> QED
  BY <1>4, <1>5, <1>6, <1>7, <1>8, <1>9, FreeIsOwned

\* A stage that cannot finalize leaves its row and its job live, held by the
\* run when the run called it, and by nobody when a channel did.
LEMMA AbandonHolds ==
    ASSUME IInv, up, UNCHANGED <<doc, jobs, matterDeleted, up>>,
           NEW c \in Callers, Working(c), Thrown(c, [held |-> TRUE, job |-> call[c].job])
    PROVE  Ownership'
<1>1. call' = [call EXCEPT ![c] = IdleCall] /\ call \in [Callers -> Calls] /\ run \in Runs
  BY DEF Thrown, IInv, TypeOK
<1>2. /\ \A d \in Callers : Working(d) => d = c
      /\ ~CaughtHeld
      /\ \A f \in pending : ~f.owner.held
  BY WorkerIsAlone
<1>3. NobodyWorks'
  BY <1>1, <1>2 DEF NobodyWorks, Working, IdleCall
<1>4. pending' = pending
  BY DEF Thrown
<1>5. CallsOwn' /\ OneWorker' /\ PendingHolds'
  BY <1>2, <1>3, <1>4 DEF CallsOwn, OneWorker, PendingHolds, NobodyWorks
<1>6. LiveAvailable' /\ LiveHasJob' /\ DownForgets'
  BY DEF IInv, LiveAvailable, Available, LiveHasJob, DownForgets
<1>7. CASE c = Runner
  <2>1. run' = [run EXCEPT !.pc = "caught", !.owner = [held |-> TRUE, job |-> call[c].job]]
    BY <1>7 DEF Thrown
  <2>2. /\ run'.pc = "caught" /\ run'.stage = run.stage
        /\ run'.owner.job = call[c].job
    BY <1>1, <2>1 DEF Runs
  <2>3. run.stage = call[c].stage
    BY <1>7 DEF IInv, RunnerInStage, Working
  <2>4. CaughtHolds'
    BY <1>3, <2>2, <2>3 DEF CaughtHolds, IInv, CallsOwn, WorkerOwns
  <2>5. RunnerInStage'
    BY <1>1, <1>7 DEF RunnerInStage, IdleCall, Callers
  <2>6. RunningHeld'
    BY <1>2, <1>3, <1>4, <2>2 DEF IInv, RunningHeld, HeldJob, NobodyWorks
  <2> QED
    BY <1>5, <1>6, <2>4, <2>5, <2>6 DEF Ownership
<1>8. CASE c # Runner
  <2>1. run' = run
    BY <1>8 DEF Thrown
  <2>2. CaughtHolds' /\ RunnerInStage'
    BY <1>1, <1>2, <1>8, <2>1
       DEF CaughtHolds, CaughtHeld, IInv, RunnerInStage, IdleCall, Callers
  <2>3. RunningHeld'
    BY <1>2, <1>3, <1>4, <2>1 DEF IInv, RunningHeld, HeldJob, NobodyWorks, CaughtHeld
  <2> QED
    BY <1>5, <1>6, <2>2, <2>3 DEF Ownership
<1> QED
  BY <1>7, <1>8

\* Every step of a stage call preserves the invariant.
LEMMA StageStepOwned ==
    ASSUME IInv, NEW c \in Callers, StageStep(c)
    PROVE  Ownership'
<1>1. up /\ UNCHANGED <<matterDeleted, up>>
  <2>1. HoldsLoop(c) => call[c].pc # "idle"
    BY DEF HoldsLoop
  <2> QED
    BY <2>1 DEF StageStep, EventLoopFree, IInv, DownForgets
<1>2. call[c].stage \in Stages /\ call \in [Callers -> Calls] /\ doc \in Documents
  BY DEF IInv, TypeOK, Calls
<1>3. FailedRow(call[c].stage).status = "FAILED"
  BY <1>2 DEF FailedRow, Stamped, Documents
<1>4. CASE InspectSource(c)
  <2>1. CASE Available
    <3>1. call' = [call EXCEPT ![c].pc = "source"] /\ call[c].pc = "entered"
          /\ UNCHANGED <<doc, jobs, run, pending>>
      BY <1>4, <2>1 DEF InspectSource, Entered
    <3>2. \A d \in Callers : Working(d)' => Working(d) /\ call'[d] = call[d]
      BY <1>2, <3>1 DEF Working, Calls
    <3>3. RunnerInStage'
      BY <1>2, <3>1 DEF IInv, RunnerInStage, Callers, Calls
    <3>4. doc.status \in LiveStatuses => Available'
      BY <1>1, <2>1, <3>1 DEF Available
    <3> QED
      BY <1>1, <3>1, <3>2, <3>3, <3>4, Undisturbed DEF CaughtHeld, DownForgets
  <2>2. CASE ~Available
    BY <1>1, <1>4, <2>2, CallLeaves DEF InspectSource, Entered, Working
  <2> QED
    BY <2>1, <2>2
<1>5. CASE SourceRejected(c)
  BY <1>1, <1>5, CallLeaves DEF SourceRejected, Working
<1>6. CASE ReuseResult(c)
  BY <1>1, <1>2, <1>6, CallLeaves DEF ReuseResult, Working
<1>7. CASE BeginStage(c)
  BY <1>1, <1>7, BeginTakes
<1>8. CASE RefuseStage(c)
  BY <1>1, <1>8, CallLeaves DEF RefuseStage, Beginning, Working
<1>9. CASE BeginFault(c)
  BY <1>1, <1>9, CallLeaves DEF BeginFault, Beginning, Working
<1>10. CASE StageCompletes(c)
  <2>1. doc'.status = Done[call[c].stage]
    BY <1>2, <1>10 DEF StageCompletes, Stamped, Documents
  <2> QED
    BY <1>1, <1>2, <1>10, <2>1, RestStatus, CloseReleases DEF StageCompletes
<1>11. CASE StageFails(c)
  BY <1>1, <1>3, <1>11, RestStatus, CloseReleases DEF StageFails
<1>12. CASE StageFailsOnCompleteFault(c)
  BY <1>1, <1>3, <1>12, RestStatus, CloseReleases DEF StageFailsOnCompleteFault
<1>13. CASE StageAbandoned(c)
  BY <1>1, <1>13, AbandonHolds DEF StageAbandoned
<1>14. CASE StageAbandonedOnFault(c)
  BY <1>1, <1>14, AbandonHolds DEF StageAbandonedOnFault
<1> QED
  BY <1>4, <1>5, <1>6, <1>7, <1>8, <1>9, <1>10, <1>11, <1>12, <1>13, <1>14 DEF StageStep

\* What the sink records closes whatever the row and its jobs still had open.
LEMMA SinkReleases ==
    ASSUME IInv, NEW f \in FailureInputs, SinkAccepts(f), SinkRecords(f),
           f.owner.held => /\ f.stage # "ANY" /\ doc.status = Live[f.stage]
                           /\ NobodyWorks
                           /\ \A i \in DOMAIN jobs :
                                 jobs[i].status = "RUNNING" => f.owner.job = i,
           pending' = {}, call' = call, run'.pc \in {"off", "reading"},
           call[Runner].pc = "idle", up, up' = up
    PROVE  Ownership'
<1>1. /\ doc \in Documents /\ jobs \in Seq(JobRows)
      /\ f.owner.job \in Nat /\ (f.owner.job # 0 => f.owner.held)
  BY OwnerJobType DEF IInv, TypeOK, FailureInputs
<1>2. doc'.status = "FAILED"
  BY <1>1 DEF SinkRecords, FailedRow, Stamped, Documents
<1>3. NobodyWorks /\ (\A i \in DOMAIN jobs : jobs[i].status = "RUNNING" => f.owner.job = i)
  <2>1. CASE f.owner.held
    BY <2>1
  <2>2. CASE ~f.owner.held
    <3>1. SinkStage(f) \in Stages
      BY SinkStageType DEF IInv
    <3>2. doc.status \notin LiveStatuses
      BY <2>2, <3>1, RestStatus DEF SinkAccepts, PreStartAccepts
    <3> QED
      BY <3>2, RestIsFree DEF NothingRuns
  <2> QED
    BY <2>1, <2>2
<1>4. NothingRuns'
  <2> SUFFICES ASSUME NEW i \in DOMAIN jobs', jobs'[i].status = "RUNNING" PROVE FALSE
    BY DEF NothingRuns
  <2>1. CASE f.owner.job # 0
    <3>1. jobs' = [jobs EXCEPT ![f.owner.job].status = "FAILED"]
      BY <2>1 DEF SinkRecords
    <3>2. i \in DOMAIN jobs
      BY <1>1, <3>1
    <3>3. jobs[i] \in JobRows
      BY <3>2, JobRowType DEF IInv
    <3> QED
      BY <1>1, <1>3, <3>1, <3>2, <3>3 DEF JobRows
  <2>2. CASE f.owner.job = 0
    <3> DEFINE row == [type |-> SinkStage(f), status |-> "FAILED"]
    <3>1. jobs' = Append(jobs, row)
      BY <2>2 DEF SinkRecords
    <3>2. /\ Len(jobs) \in Nat /\ DOMAIN jobs = 1..Len(jobs)
          /\ DOMAIN jobs' = 1..(Len(jobs) + 1)
          /\ jobs'[Len(jobs) + 1] = row
          /\ \A j \in DOMAIN jobs : jobs'[j] = jobs[j]
      BY <1>1, <3>1
    <3>3. i \in DOMAIN jobs \/ i = Len(jobs) + 1
      BY <3>2
    <3>4. i \notin DOMAIN jobs
      BY <1>3, <2>2, <3>2
    <3> QED
      BY <3>2, <3>3, <3>4
  <2> QED
    BY <2>1, <2>2
<1>5. NobodyWorks' /\ ~CaughtHeld'
  BY <1>3 DEF NobodyWorks, Working, CaughtHeld
<1>6. RunnerInStage' /\ DownForgets'
  BY DEF RunnerInStage, DownForgets
<1> QED
  BY <1>2, <1>4, <1>5, <1>6, RestStatus, FreeIsOwned

\* A step of the run that leaves both tables and the calls alone, and that
\* stores nothing but the failure it caught or one that claims nothing.
LEMMA RunLeaves ==
    ASSUME IInv, UNCHANGED <<doc, jobs, matterDeleted, up, call>>,
           run.pc \notin {"off", "inStage"}, run'.pc \in {"off", "reading", "waiting"},
           \A f \in pending' : \/ f \in pending \/ f = NoFailure
                               \/ run.pc = "caught" /\ f = StageFailure
    PROVE  Ownership'
<1>1. up /\ call[Runner].pc = "idle"
  BY DEF IInv, DownForgets, RunnerInStage
<1>2. \A c \in Callers : Working(c)' => Working(c) /\ call'[c] = call[c]
  BY DEF Working
<1>3. ~CaughtHeld'
  BY DEF CaughtHeld
<1>4. \A f \in pending' : f.owner.held => f \in pending \/ (CaughtHeld /\ f = StageFailure)
  <2>1. ~NoFailure.owner.held
    BY DEF NoFailure, NoOwner
  <2>2. StageFailure.owner = run.owner
    BY DEF StageFailure
  <2> QED
    BY <2>1, <2>2 DEF CaughtHeld
<1>5. RunnerInStage' /\ DownForgets'
  BY <1>1 DEF RunnerInStage, DownForgets
<1>6. doc.status \in LiveStatuses => Available'
  BY DEF IInv, LiveAvailable, Available
<1> QED
  BY <1>2, <1>3, <1>4, <1>5, <1>6, Undisturbed

\* What a claim on the row says, whether it is stored or just caught.
LEMMA ClaimHolds ==
    ASSUME IInv, NEW f, f.owner.held,
           f \in pending \/ (run.pc = "caught" /\ f = StageFailure)
    PROVE  /\ f.stage # "ANY" /\ doc.status = Live[f.stage]
           /\ NobodyWorks
           /\ \A i \in DOMAIN jobs : jobs[i].status = "RUNNING" => f.owner.job = i
<1>1. CASE f \in pending
  BY <1>1 DEF IInv, PendingHolds, RunningHeld, HeldJob
<1>2. CASE run.pc = "caught" /\ f = StageFailure
  <2>1. f.owner = run.owner /\ f.stage = run.stage /\ run.stage \in AnalysisStages
    BY <1>2 DEF StageFailure, IInv, TypeOK, Runs
  <2>2. run.stage # "ANY"
    BY <2>1 DEF AnalysisStages, Stages
  <2> QED
    BY <1>2, <2>1, <2>2 DEF IInv, CaughtHolds, RunningHeld, HeldJob
<1> QED
  BY <1>1, <1>2

\* Every step of the background run preserves the invariant.
LEMMA RunStepOwned ==
    ASSUME IInv, RunStep
    PROVE  Ownership'
<1>1. UNCHANGED <<matterDeleted, up>>
  BY DEF RunStep
<1>2. ASSUME run.pc \notin {"off", "inStage"}
      PROVE  up /\ call[Runner].pc = "idle"
  BY <1>2 DEF IInv, DownForgets, RunnerInStage
<1>3. ASSUME NEW reported, RunEnds(reported)
      PROVE  run'.pc = "off"
  BY <1>3 DEF RunEnds, OffRun
<1>4. NoFailure \in FailureInputs /\ StageFailure \in FailureInputs /\ ~NoFailure.owner.held
  BY FailureInputType DEF IInv, NoFailure, NoOwner
<1>5. run \in Runs /\ pending \subseteq FailureInputs
  BY DEF IInv, TypeOK
<1>6. CASE RetryPending /\ UNCHANGED call
  <2>1. run.pc = "deferred"
    BY <1>6 DEF RetryPending
  <2>2. CASE RunEnds(TRUE) /\ UNCHANGED <<doc, jobs, pending>>
    BY <1>1, <1>3, <1>6, <2>1, <2>2, RunLeaves
  <2>3. CASE /\ UNCHANGED <<doc, jobs>>
             /\ pending' = {} /\ run' = [run EXCEPT !.pc = "reading"]
    <3>1. run'.pc = "reading"
      BY <1>5, <2>3 DEF Runs
    <3> QED
      BY <1>1, <1>6, <2>1, <2>3, <3>1, RunLeaves
  <2>4. CASE /\ \E f \in pending : SinkAccepts(f) /\ SinkRecords(f)
             /\ pending' = {} /\ run' = [run EXCEPT !.pc = "reading"]
    <3>1. PICK f \in pending : SinkAccepts(f) /\ SinkRecords(f)
      BY <2>4
    <3>2. run'.pc = "reading"
      BY <1>5, <2>4 DEF Runs
    <3> QED
      BY <1>1, <1>2, <1>5, <1>6, <2>1, <2>4, <3>1, <3>2, ClaimHolds, SinkReleases
  <2> QED
    BY <1>6, <2>2, <2>3, <2>4 DEF RetryPending
<1>7. CASE RetryPendingFault /\ UNCHANGED call
  BY <1>1, <1>3, <1>7, RunLeaves DEF RetryPendingFault
<1>8. CASE AwaitLiveStage
  <2>1. run'.pc = "waiting"
    BY <1>5, <1>8 DEF AwaitLiveStage, Runs
  <2> QED
    BY <1>1, <1>8, <2>1, RunLeaves DEF AwaitLiveStage, Observing
<1>9. CASE FinishRun
  BY <1>1, <1>3, <1>9, RunLeaves DEF FinishRun, Observing
<1>10. CASE RunStage
  <2>1. run.pc \in {"reading", "waiting"}
    BY <1>10 DEF RunStage, Observing
  <2>2. call' = [call EXCEPT ![Runner] = Entered(SelectAction)] /\ call \in [Callers -> Calls]
    BY <1>10 DEF RunStage, IInv, TypeOK
  <2>3. run'.pc = "inStage" /\ run'.stage = SelectAction
    BY <1>5, <1>10 DEF RunStage, Runs
  <2>4. \A c \in Callers : Working(c)' => Working(c) /\ call'[c] = call[c]
    BY <2>2 DEF Working, Entered
  <2>5. RunnerInStage'
    BY <2>2, <2>3 DEF RunnerInStage, Entered, Callers
  <2>6. ~CaughtHeld' /\ DownForgets'
    BY <1>1, <1>2, <2>1, <2>3 DEF CaughtHeld, DownForgets
  <2>7. UNCHANGED <<doc, jobs, pending>>
    BY <1>10 DEF RunStage
  <2>8. doc.status \in LiveStatuses => Available'
    BY <1>1, <2>7 DEF IInv, LiveAvailable, Available
  <2> QED
    BY <2>4, <2>5, <2>6, <2>7, <2>8, Undisturbed
<1>11. CASE StatusReadFault
  <2>1. run.pc \in {"reading", "waiting"} /\ call' = call
    BY <1>11 DEF StatusReadFault, Observing
  <2>2. CASE SinkAccepts(NoFailure) /\ SinkRecords(NoFailure) /\ pending' = {} /\ RunEnds(FALSE)
    BY <1>1, <1>2, <1>3, <1>4, <2>1, <2>2, SinkReleases
  <2>3. CASE pending' = {NoFailure} /\ RunEnds(TRUE) /\ UNCHANGED <<doc, jobs>>
    BY <1>1, <1>3, <2>1, <2>3, RunLeaves
  <2> QED
    BY <1>11, <2>2, <2>3 DEF StatusReadFault
<1>12. CASE RecordStageFailure
  <2>1. run.pc = "caught" /\ call' = call
    BY <1>12 DEF RecordStageFailure
  <2>2. CASE SinkAccepts(StageFailure)
    <3>1. SinkRecords(StageFailure) /\ pending' = {} /\ RunEnds(FALSE)
      BY <1>12, <2>2 DEF RecordStageFailure
    <3> QED
      BY <1>1, <1>2, <1>3, <1>4, <2>1, <2>2, <3>1, ClaimHolds, SinkReleases
  <2>3. CASE ~SinkAccepts(StageFailure)
    <3>1. UNCHANGED <<doc, jobs>> /\ pending' \subseteq {StageFailure}
      BY <1>12, <2>3 DEF RecordStageFailure
    <3>2. \/ RunEnds(TRUE) \/ RunEnds(FALSE)
          \/ run' = [run EXCEPT !.pc = "reading", !.external = TRUE, !.owner = NoOwner]
      BY <1>12, <2>3 DEF RecordStageFailure
    <3>3. run'.pc \in {"off", "reading"}
      BY <1>3, <1>5, <3>2 DEF Runs
    <3> QED
      BY <1>1, <2>1, <3>1, <3>3, RunLeaves
  <2> QED
    BY <2>2, <2>3
<1>13. CASE RecordStageFailureFault
  BY <1>1, <1>3, <1>13, RunLeaves DEF RecordStageFailureFault
<1> QED
  BY <1>6, <1>7, <1>8, <1>9, <1>10, <1>11, <1>12, <1>13 DEF RunStep

\* No request of a user takes or disturbs a stage: a Document moves to the
\* trash only at rest, and a live one never is there.
LEMMA UserStepOwned ==
    ASSUME IInv, UserStep
    PROVE  Ownership'
<1>1. doc \in Documents /\ call \in [Callers -> Calls]
  BY DEF IInv, TypeOK
<1>2. doc.status \in LiveStatuses => Available
  BY DEF IInv, LiveAvailable
<1>3. ASSUME jobs' = jobs, up, up' = up, call' = call, run' = run,
             doc'.status = doc.status, pending' \subseteq pending,
             doc.status \in LiveStatuses => Available'
      PROVE  Ownership'
  <2>1. RunnerInStage' /\ DownForgets'
    BY <1>3 DEF IInv, RunnerInStage, DownForgets
  <2>2. \A c \in Callers : Working(c)' => Working(c) /\ call'[c] = call[c]
    BY <1>3 DEF Working
  <2> QED
    BY <1>3, <2>1, <2>2, Undisturbed DEF CaughtHeld
<1>4. Request => up
  BY DEF Request, EventLoopFree
<1>5. CASE StartAnalysis
  <2>1. run'.pc = "deferred" /\ run.pc = "off"
    BY <1>5 DEF StartAnalysis, OffRun
  <2>2. /\ UNCHANGED <<doc, jobs, matterDeleted, up, call, pending>> /\ up
    BY <1>4, <1>5 DEF StartAnalysis
  <2>3. RunnerInStage' /\ DownForgets' /\ ~CaughtHeld'
    BY <2>1, <2>2 DEF IInv, RunnerInStage, DownForgets, CaughtHeld
  <2>4. \A c \in Callers : Working(c)' => Working(c) /\ call'[c] = call[c]
    BY <2>2 DEF Working
  <2>5. doc.status \in LiveStatuses => Available'
    BY <1>2, <2>2 DEF Available
  <2> QED
    BY <2>2, <2>3, <2>4, <2>5, Undisturbed
<1>6. ASSUME NEW c \in Channels, NEW s \in Stages, ChannelCall(c, s)
      PROVE  Ownership'
  <2>1. /\ call' = [call EXCEPT ![c] = Entered(s)]
        /\ UNCHANGED <<doc, jobs, matterDeleted, up, run, pending>> /\ up
    BY <1>4, <1>6 DEF ChannelCall
  <2>2. \A d \in Callers : Working(d)' => Working(d) /\ call'[d] = call[d]
    BY <1>1, <2>1 DEF Working, Entered, Callers
  <2>3. c # Runner
    BY ChannelsAssumption
  <2>4. RunnerInStage' /\ DownForgets'
    BY <1>1, <2>1, <2>3 DEF IInv, RunnerInStage, DownForgets, Callers
  <2>5. doc.status \in LiveStatuses => Available'
    BY <1>2, <2>1 DEF Available
  <2> QED
    BY <2>1, <2>2, <2>4, <2>5, Undisturbed DEF CaughtHeld
<1>7. CASE TrashDocument
  <2>1. doc.status \notin LiveStatuses
    BY <1>7 DEF TrashDocument, Idle
  <2>2. doc'.status = doc.status
    BY <1>1, <1>7 DEF TrashDocument, Stamped, Documents
  <2> QED
    BY <1>3, <1>4, <1>7, <2>1, <2>2 DEF TrashDocument, ClearFailure
<1>8. CASE RestoreDocument
  <2>1. doc.status \notin LiveStatuses
    BY <1>2, <1>8 DEF RestoreDocument, Available
  <2>2. doc'.status = doc.status
    BY <1>1, <1>8 DEF RestoreDocument, Stamped, Documents
  <2> QED
    BY <1>3, <1>4, <1>8, <2>1, <2>2 DEF RestoreDocument
<1>9. CASE TrashMatter
  <2>1. doc.status \notin LiveStatuses
    BY <1>9 DEF TrashMatter, Idle
  <2> QED
    BY <1>3, <1>4, <1>9, <2>1 DEF TrashMatter, ClearFailure
<1>10. CASE RestoreMatter
  <2>1. doc.status \notin LiveStatuses
    BY <1>2, <1>10 DEF RestoreMatter, Available
  <2> QED
    BY <1>3, <1>4, <1>10, <2>1 DEF RestoreMatter
<1>11. CASE CreateManualMention
  <2>1. doc'.status = doc.status /\ doc'.trashed = doc.trashed
    BY <1>1, <1>11 DEF CreateManualMention, Documents
  <2>2. Available'
    BY <1>11, <2>1 DEF CreateManualMention, Available
  <2> QED
    BY <1>3, <1>4, <1>11, <2>1, <2>2 DEF CreateManualMention
<1>12. CASE DocumentGet
  <2>1. Available'
    BY <1>12 DEF DocumentGet, Available
  <2> QED
    BY <1>3, <1>4, <1>12, <2>1 DEF DocumentGet, ClearFailure
<1> QED
  BY <1>5, <1>6, <1>7, <1>8, <1>9, <1>10, <1>11, <1>12 DEF UserStep

\* The clock owns nothing; a crash forgets every claim but leaves the tables,
\* and recovery closes what they still show as under way.
LEMMA EnvironmentOwned ==
    ASSUME IInv, ClockStepsBack \/ ClockCatchesUp \/ Crash \/ Recover
    PROVE  Ownership'
<1>1. doc \in Documents /\ jobs \in Seq(JobRows)
  BY DEF IInv, TypeOK
<1>2. doc.status \in LiveStatuses => Available
  BY DEF IInv, LiveAvailable
<1>3. CASE ClockStepsBack \/ ClockCatchesUp
  <2>1. UNCHANGED <<doc, matterDeleted, jobs, call, run, pending, up>>
    BY <1>3 DEF ClockStepsBack, ClockCatchesUp
  <2>2. RunnerInStage' /\ DownForgets'
    BY <2>1 DEF IInv, RunnerInStage, DownForgets
  <2>3. \A c \in Callers : Working(c)' => Working(c) /\ call'[c] = call[c]
    BY <2>1 DEF Working
  <2>4. doc.status \in LiveStatuses => Available'
    BY <1>2, <2>1 DEF Available
  <2> QED
    BY <2>1, <2>2, <2>3, <2>4, Undisturbed DEF CaughtHeld
<1>4. CASE Crash
  <2>1. /\ call' = [c \in Callers |-> IdleCall] /\ run' = OffRun /\ pending' = {}
        /\ UNCHANGED <<doc, matterDeleted, jobs>> /\ ~up'
    BY <1>4 DEF Crash, ClearFailure
  <2>2. NobodyWorks' /\ \A c \in Callers : call'[c].pc = "idle"
    BY <2>1 DEF NobodyWorks, Working, IdleCall
  <2>3. RunnerInStage' /\ DownForgets' /\ ~CaughtHeld'
    BY <2>1, <2>2 DEF RunnerInStage, DownForgets, CaughtHeld, OffRun, Callers
  <2>4. \A c \in Callers : Working(c)' => Working(c) /\ call'[c] = call[c]
    BY <2>2 DEF NobodyWorks
  <2>5. doc.status \in LiveStatuses => Available'
    BY <1>2, <2>1 DEF Available
  <2> QED
    BY <2>1, <2>3, <2>4, <2>5, Undisturbed
<1>5. CASE Recover
  <2>1. /\ ~up /\ up' /\ UNCHANGED <<call, run, pending>>
    BY <1>5 DEF Recover
  <2>2. /\ run.pc = "off" /\ pending = {} /\ \A c \in Callers : call[c].pc = "idle"
    BY <2>1 DEF IInv, DownForgets
  <2>3. doc'.status \notin LiveStatuses
    <3>1. CASE doc.status \in LiveStatuses
      <4>1. doc'.status = "FAILED"
        BY <1>1, <1>5, <3>1 DEF Recover, Documents
      <4> QED
        BY <4>1, RestStatus
    <3>2. CASE doc.status \notin LiveStatuses
      BY <1>5, <3>2 DEF Recover
    <3> QED
      BY <3>1, <3>2
  <2>4. NothingRuns'
    <3> SUFFICES ASSUME NEW i \in DOMAIN jobs', jobs'[i].status = "RUNNING" PROVE FALSE
      BY DEF NothingRuns
    <3>1. i \in DOMAIN jobs
      BY <1>5 DEF Recover
    <3>2. jobs[i] \in JobRows
      BY <3>1, JobRowType DEF IInv
    <3>3. jobs'[i] = IF jobs[i].status = "RUNNING"
                     THEN [jobs[i] EXCEPT !.status = "FAILED"] ELSE jobs[i]
      BY <1>5, <3>1 DEF Recover
    <3> QED
      BY <3>2, <3>3 DEF JobRows
  <2>5. NobodyWorks' /\ ~CaughtHeld' /\ RunnerInStage' /\ DownForgets'
    BY <2>1, <2>2 DEF NobodyWorks, Working, CaughtHeld, RunnerInStage, DownForgets, Callers
  <2> QED
    BY <2>1, <2>2, <2>3, <2>4, <2>5, FreeIsOwned
<1> QED
  BY <1>3, <1>4, <1>5

\* The invariant holds at the start and is preserved by every step.
LEMMA InitOwned == Init => IInv
<1> SUFFICES ASSUME Init PROVE IInv
  OBVIOUS
<1>1. TypeOK
  BY InitType
<1>2. /\ doc.status = "IMPORTED" /\ jobs = <<>> /\ pending = {} /\ up
      /\ run.pc = "off" /\ \A c \in Callers : call[c].pc = "idle"
  BY DEF Init, OffRun, IdleCall
<1>3. DOMAIN jobs = {}
  BY <1>2
<1>4. \A c \in Callers : ~Working(c)
  BY <1>2 DEF Working
<1>5. Runner \in Callers /\ doc.status \notin LiveStatuses
  BY <1>2 DEF Callers, LiveStatuses
<1> QED
  BY <1>1, <1>2, <1>3, <1>4, <1>5
     DEF IInv, CallsOwn, OneWorker, LiveAvailable, RunnerInStage, CaughtHolds,
         PendingHolds, RunningHeld, LiveHasJob, DownForgets

LEMMA NextOwned == IInv /\ [Next]_vars => IInv'
<1> SUFFICES ASSUME IInv, [Next]_vars PROVE IInv'
  OBVIOUS
<1>1. TypeOK'
  BY NextType DEF IInv
<1>2. Ownership'
  <2>1. CASE UNCHANGED vars
    <3>1. UNCHANGED <<doc, matterDeleted, jobs, call, run, pending, up>>
      BY <2>1 DEF vars
    <3>2. \A c \in Callers : Working(c)' => Working(c) /\ call'[c] = call[c]
      BY <3>1 DEF Working
    <3>3. RunnerInStage' /\ DownForgets' /\ (doc.status \in LiveStatuses => Available')
      BY <3>1 DEF IInv, RunnerInStage, DownForgets, LiveAvailable, Available
    <3> QED
      BY <3>1, <3>2, <3>3, Undisturbed DEF CaughtHeld
  <2>2. CASE Next
    BY <2>2, StageStepOwned, RunStepOwned, UserStepOwned, EnvironmentOwned DEF Next
  <2> QED
    BY <2>1, <2>2
<1> QED
  BY <1>1, <1>2 DEF IInv, Ownership

\* The inductive invariant: every live row, every RUNNING job and every claim
\* of a caught or stored failure belong together.
THEOREM Inductive == Spec => []IInv
BY InitOwned, NextOwned, PTL DEF Spec

(***************************************************************************)
(* What the invariant implies.                                             *)
(***************************************************************************)

\* A stage inside its guarded region owns the Document, whatever channels,
\* requests, faults, clock steps and crashes surround it.
THEOREM StageOwned == Spec => []StageOwnership
<1>1. IInv => StageOwnership
  BY DEF IInv, CallsOwn, OneWorker, StageOwnership
<1> QED
  BY <1>1, Inductive, PTL

\* The status of the row and the RUNNING job of the table agree at all times.
THEOREM JobsMatch == Spec => []RunningJobsMatch
<1>1. IInv => RunningJobsMatch
  <2> SUFFICES ASSUME IInv PROVE RunningJobsMatch
    OBVIOUS
  <2> DEFINE running == {i \in DOMAIN jobs : jobs[i].status = "RUNNING"}
  <2>1. \A i \in running : doc.status = Live[jobs[i].type] /\ \A j \in running : i = j
    BY DEF IInv, RunningHeld, HeldJob
  <2>2. CASE running = {}
    <3>1. doc.status \notin {"DETECTING", "RESOLVING", "SANITIZING"}
      BY <2>2 DEF IInv, LiveHasJob
    <3>2. Cardinality(running) = 0
      BY <2>2, FS_EmptySet
    <3> QED
      BY <2>1, <3>1, <3>2 DEF RunningJobsMatch
  <2>3. CASE running # {}
    <3>1. PICK i \in running : running = {i}
      BY <2>1, <2>3
    <3>2. Cardinality(running) = 1
      BY <3>1, FS_Singleton
    <3>3. doc.status \in {"DETECTING", "RESOLVING", "SANITIZING"}
      <4>1. jobs[i].type \in Stages \ {"PARSE"} /\ doc.status = Live[jobs[i].type]
        BY JobRowType DEF IInv, JobRows, RunningHeld, HeldJob
      <4> QED
        BY <4>1 DEF Live, Stages
    <3> QED
      BY <2>1, <3>2, <3>3 DEF RunningJobsMatch
  <2> QED
    BY <2>2, <2>3
<1> QED
  BY <1>1, Inductive, PTL

\* A step between two states in which the Document is in the trash, or its
\* Matter is, finds it held by nobody, and nothing takes it.
LEMMA TrashStep ==
    ASSUME IInv, Next, ~Available, ~Available'
    PROVE  UNCHANGED <<doc.status, doc.counted, doc.pages, jobs>>
<1>1. doc \in Documents /\ jobs \in Seq(JobRows)
  BY DEF IInv, TypeOK
<1>2. doc.status \notin LiveStatuses
  BY DEF IInv, LiveAvailable
<1>3. NobodyWorks /\ NothingRuns
  BY <1>2, RestIsFree
<1>4. ASSUME NEW c \in Callers, StageStep(c)
      PROVE  UNCHANGED <<doc.status, doc.counted, doc.pages, jobs>>
  <2>1. CASE InspectSource(c) \/ SourceRejected(c) \/ ReuseResult(c)
             \/ RefuseStage(c) \/ BeginFault(c)
    BY <2>1 DEF InspectSource, SourceRejected, ReuseResult, RefuseStage, BeginFault
  <2>2. CASE BeginStage(c)
    BY <2>2 DEF BeginStage, BeginAccepts
  <2>3. CASE StageCompletes(c) \/ StageFails(c) \/ StageFailsOnCompleteFault(c)
             \/ StageAbandoned(c) \/ StageAbandonedOnFault(c)
    BY <1>3, <2>3 DEF NobodyWorks, StageCompletes, StageFails,
                      StageFailsOnCompleteFault, StageAbandoned, StageAbandonedOnFault
  <2> QED
    BY <1>4, <2>1, <2>2, <2>3 DEF StageStep
<1>5. CASE RunStep
  <2>1. \A f : ~SinkAccepts(f)
    BY DEF SinkAccepts
  <2>2. UNCHANGED <<doc, jobs>>
    BY <1>5, <2>1 DEF RunStep, RetryPending, RetryPendingFault, AwaitLiveStage, FinishRun,
                      RunStage, StatusReadFault, RecordStageFailure, RecordStageFailureFault
  <2> QED
    BY <2>2
<1>6. CASE UserStep
  <2>1. CASE RestoreDocument
    BY <1>1, <2>1 DEF RestoreDocument, Stamped, Documents
  <2>2. CASE TrashDocument \/ CreateManualMention
    BY <1>1, <2>2 DEF TrashDocument, CreateManualMention, Stamped, Documents
  <2>3. CASE ~RestoreDocument /\ ~TrashDocument /\ ~CreateManualMention
    BY <1>6, <2>3 DEF UserStep, StartAnalysis, ChannelCall, TrashMatter, RestoreMatter,
                      DocumentGet
  <2> QED
    BY <2>1, <2>2, <2>3
<1>7. CASE Recover
  <2>1. doc' = doc
    BY <1>2, <1>7 DEF Recover
  <2>2. jobs' = [i \in DOMAIN jobs |-> jobs[i]]
    BY <1>3, <1>7 DEF Recover, NothingRuns
  <2> QED
    BY <1>1, <2>1, <2>2
<1>8. CASE ClockStepsBack \/ ClockCatchesUp \/ Crash
  BY <1>8 DEF ClockStepsBack, ClockCatchesUp, Crash
<1> QED
  BY <1>4, <1>5, <1>6, <1>7, <1>8 DEF Next

\* What stays in the trash is not analyzed, failed or recovered behind it.
THEOREM TrashKept == Spec => TrashPreserved
<1>1. IInv /\ [Next]_vars =>
          [~Available /\ ~Available' =>
               UNCHANGED <<doc.status, doc.counted, doc.pages, jobs>>]_vars
  BY TrashStep
<1> QED
  BY <1>1, Inductive, PTL DEF Spec, TrashPreserved

(***************************************************************************)
(* The fallback of the sink.                                               *)
(***************************************************************************)

\* The signal is raised only by a run that ends, and the next one starts by
\* taking it back, so it is never up while a run could drop the failure.
Signal == unrecorded => pending # {} /\ run.pc = "off"

\* Whoever clears the stored failure clears the signal, and whoever raises
\* the signal has stored a failure.
LEMMA SignalStep ==
    ASSUME IInv, Signal, [Next]_vars
    PROVE  Signal'
<1>1. run \in Runs /\ unrecorded \in BOOLEAN
  BY DEF IInv, TypeOK
<1>2. ASSUME UNCHANGED run, UNCHANGED <<pending, unrecorded>> \/ unrecorded' = FALSE
      PROVE  Signal'
  BY <1>2 DEF Signal
<1>3. CASE UNCHANGED vars
  BY <1>2, <1>3 DEF vars
<1>4. ASSUME NEW c \in Callers, StageStep(c)
      PROVE  Signal'
  <2>1. call[c].pc # "idle"
    <3>1. CASE InspectSource(c)
      BY <3>1 DEF InspectSource, Entered
    <3>2. CASE SourceRejected(c) \/ ReuseResult(c)
      BY <3>2 DEF SourceRejected, ReuseResult
    <3>3. Beginning(c) \/ Working(c) => call[c].pc # "idle"
      BY DEF Beginning, Working
    <3>4. CASE BeginStage(c) \/ RefuseStage(c) \/ BeginFault(c)
      BY <3>3, <3>4 DEF BeginStage, RefuseStage, BeginFault
    <3>5. CASE StageCompletes(c) \/ StageFails(c) \/ StageFailsOnCompleteFault(c)
               \/ StageAbandoned(c) \/ StageAbandonedOnFault(c)
      BY <3>3, <3>5 DEF StageCompletes, StageFails, StageFailsOnCompleteFault,
                        StageAbandoned, StageAbandonedOnFault
    <3> QED
      BY <1>4, <3>1, <3>2, <3>4, <3>5 DEF StageStep
  <2>2. \/ UNCHANGED <<run, pending, unrecorded>>
        \/ \E owner : Thrown(c, owner)
        \/ \E s \in Stages : Returned(c, s)
    <3>1. call[c].stage \in Stages
      BY DEF IInv, TypeOK, Calls
    <3> QED
      BY <1>4, <3>1
         DEF StageStep, InspectSource, SourceRejected, ReuseResult, BeginStage, RefuseStage,
             BeginFault, StageCompletes, StageFails, StageFailsOnCompleteFault,
             StageAbandoned, StageAbandonedOnFault
  <2>3. CASE c = Runner
    <3>1. ~unrecorded
      BY <2>1, <2>3 DEF IInv, RunnerInStage, Signal
    <3>2. ~unrecorded'
      BY <2>2, <3>1, Zenon DEF Thrown, Returned
    <3> QED
      BY <3>2 DEF Signal
  <2>4. CASE c # Runner
    <3>1. run' = run
      BY <2>2, <2>4, Zenon DEF Thrown, Returned
    <3>2. UNCHANGED <<pending, unrecorded>> \/ ~unrecorded'
      BY <2>2, <2>4, Zenon DEF Thrown, Returned
    <3> QED
      BY <3>1, <3>2 DEF Signal
  <2> QED
    BY <2>3, <2>4
<1>5. CASE RunStep
  <2>1. run.pc # "off"
    BY <1>5 DEF RunStep, RetryPending, RetryPendingFault, AwaitLiveStage, FinishRun, RunStage,
                StatusReadFault, RecordStageFailure, RecordStageFailureFault, Observing
  <2>2. ~unrecorded
    BY <2>1 DEF Signal
  <2>3. \/ RunEnds(TRUE) /\ pending' # {}
        \/ RunEnds(FALSE)
        \/ UNCHANGED unrecorded
    <3>1. CASE RetryPending
      BY <3>1 DEF RetryPending
    <3>2. CASE RetryPendingFault
      BY <3>2 DEF RetryPendingFault
    <3>3. CASE RecordStageFailure
      BY <3>3 DEF RecordStageFailure
    <3>4. CASE StatusReadFault
      BY <3>4 DEF StatusReadFault
    <3> QED
      BY <1>5, <3>1, <3>2, <3>3, <3>4
         DEF RunStep, AwaitLiveStage, FinishRun, RunStage, RecordStageFailureFault
  <2>4. CASE RunEnds(TRUE) /\ pending' # {}
    <3>1. run'.pc = "off"
      BY <2>4 DEF RunEnds, OffRun
    <3> QED
      BY <2>4, <3>1 DEF Signal
  <2>5. CASE RunEnds(FALSE) \/ UNCHANGED unrecorded
    <3>1. ~unrecorded'
      BY <2>2, <2>5, Zenon DEF RunEnds
    <3> QED
      BY <3>1 DEF Signal
  <2> QED
    BY <2>3, <2>4, <2>5
<1>6. CASE UserStep
  <2>1. CASE StartAnalysis
    BY <2>1 DEF StartAnalysis, Signal
  <2>2. CASE ~StartAnalysis
    <3>1. UNCHANGED run
      BY <1>6, <2>2 DEF UserStep, ChannelCall, TrashDocument, RestoreDocument, TrashMatter,
                        RestoreMatter, CreateManualMention, DocumentGet
    <3>2. UNCHANGED <<pending, unrecorded>> \/ unrecorded' = FALSE
      BY <1>6, <2>2 DEF UserStep, ChannelCall, TrashDocument, RestoreDocument, TrashMatter,
                        RestoreMatter, CreateManualMention, DocumentGet, ClearFailure
    <3> QED
      BY <1>2, <3>1, <3>2
  <2> QED
    BY <2>1, <2>2
<1>7. CASE ClockStepsBack \/ ClockCatchesUp \/ Recover
  BY <1>2, <1>7 DEF ClockStepsBack, ClockCatchesUp, Recover
<1>8. CASE Crash
  BY <1>8 DEF Crash, ClearFailure, Signal
<1> QED
  BY <1>3, <1>4, <1>5, <1>6, <1>7, <1>8 DEF Next

\* What the renderer is told of an unrecorded failure stays backed by the
\* stored failure that the next run records again.
THEOREM SignalBacked == Spec => []FallbackKept
<1>1. Init => Signal
  BY DEF Init, Signal
<1>2. IInv /\ Signal /\ [Next]_vars => Signal'
  BY SignalStep
<1>3. Signal => FallbackKept
  BY DEF Signal, FallbackKept
<1> QED
  BY <1>1, <1>2, <1>3, Inductive, PTL DEF Spec

(***************************************************************************)
(* What a step does to the row and its jobs.  Every action of the module   *)
(* is one of six kinds; what follows about routes, revisions and the       *)
(* lifecycle only looks at the kind.                                       *)
(***************************************************************************)

\* Neither the status nor the jobs move, and a live Document stays available.
Quiet ==
    /\ UNCHANGED <<doc.status, doc.pages, doc.counted, jobs>>
    /\ doc.updatedAt <= doc'.updatedAt
    /\ doc'.updatedAt = doc.updatedAt => Revision' = Revision
    /\ doc.status \in LiveStatuses => Available' = Available

\* A stage records its own failure, or the sink that of somebody else.
Fails(c) ==
    /\ Working(c)
    /\ FinishAccepts(c)
    /\ doc' = FailedRow(call[c].stage)
    /\ CloseJob(call[c].job, "FAILED")

Recorded(f) == SinkAccepts(f) /\ SinkRecords(f)

LEMMA RevisionKept == UNCHANGED <<doc.status, doc.updatedAt, jobs>> => Revision' = Revision
BY DEF Revision, StatusFailedJob, StatusJobs, JobsOf, Latest

LEMMA StageStepKinds ==
    ASSUME IInv, NEW c \in Callers, StageStep(c)
    PROVE  \/ UNCHANGED <<doc, jobs>>
           \/ BeginStage(c)
           \/ StageCompletes(c)
           \/ Fails(c)
<1>1. CASE InspectSource(c) \/ SourceRejected(c) \/ ReuseResult(c) \/ RefuseStage(c)
           \/ BeginFault(c) \/ StageAbandoned(c) \/ StageAbandonedOnFault(c)
  BY <1>1 DEF InspectSource, SourceRejected, ReuseResult, RefuseStage, BeginFault,
              StageAbandoned, StageAbandonedOnFault
<1>2. CASE StageFails(c) \/ StageFailsOnCompleteFault(c)
  BY <1>2 DEF StageFails, StageFailsOnCompleteFault, Fails
<1> QED
  BY <1>1, <1>2 DEF StageStep

LEMMA RunStepKinds ==
    ASSUME IInv, RunStep
    PROVE  \/ UNCHANGED <<doc, jobs>>
           \/ \E f \in FailureInputs : Recorded(f)
<1>1. NoFailure \in FailureInputs /\ StageFailure \in FailureInputs
  BY FailureInputType DEF IInv
<1>2. pending \subseteq FailureInputs
  BY DEF IInv, TypeOK
<1>3. CASE RetryPending
  BY <1>2, <1>3 DEF RetryPending, Recorded
<1>4. CASE RetryPendingFault \/ AwaitLiveStage \/ FinishRun \/ RunStage \/ RecordStageFailureFault
  BY <1>4 DEF RetryPendingFault, AwaitLiveStage, FinishRun, RunStage, RecordStageFailureFault
<1>5. CASE StatusReadFault
  BY <1>1, <1>5 DEF StatusReadFault, Recorded
<1>6. CASE RecordStageFailure
  BY <1>1, <1>6 DEF RecordStageFailure, Recorded
<1> QED
  BY <1>3, <1>4, <1>5, <1>6 DEF RunStep

LEMMA UserStepQuiet ==
    ASSUME IInv, UserStep
    PROVE  Quiet
<1>1. doc \in Documents /\ doc.updatedAt \in Nat
  BY DEF IInv, TypeOK, Documents
<1>2. ASSUME UNCHANGED <<doc, jobs>>, doc.status \in LiveStatuses => matterDeleted' = matterDeleted
      PROVE  Quiet
  BY <1>1, <1>2, RevisionKept DEF Quiet, Available
<1>3. doc.status \in LiveStatuses => Available
  BY DEF IInv, LiveAvailable
<1>4. CASE StartAnalysis \/ (\E c \in Channels, s \in Stages : ChannelCall(c, s)) \/ DocumentGet
  BY <1>2, <1>4 DEF StartAnalysis, ChannelCall, DocumentGet
<1>5. CASE TrashDocument
  <2>1. doc.status \notin LiveStatuses
    BY <1>5 DEF TrashDocument, Idle
  <2>2. doc' = Stamped([doc EXCEPT !.trashed = TRUE]) /\ jobs' = jobs
    BY <1>5 DEF TrashDocument
  <2> QED
    BY <1>1, <2>1, <2>2 DEF Stamped, Documents, Quiet
<1>6. CASE RestoreDocument
  <2>1. doc.status \notin LiveStatuses
    BY <1>3, <1>6 DEF RestoreDocument, Available
  <2> QED
    BY <1>1, <1>6, <2>1 DEF RestoreDocument, Stamped, Documents, Quiet
<1>7. CASE TrashMatter
  BY <1>2, <1>7 DEF TrashMatter, Idle
<1>8. CASE RestoreMatter
  BY <1>2, <1>3, <1>8 DEF RestoreMatter, Available
<1>9. CASE CreateManualMention
  <2>1. UNCHANGED <<doc.status, doc.pages, doc.counted, doc.updatedAt, doc.trashed, jobs, matterDeleted>>
    BY <1>1, <1>9 DEF CreateManualMention, Documents
  <2> QED
    BY <1>1, <2>1, RevisionKept DEF Quiet, Available
<1> QED
  BY <1>4, <1>5, <1>6, <1>7, <1>8, <1>9 DEF UserStep

LEMMA StepKinds ==
    ASSUME IInv, Next
    PROVE  \/ Quiet
           \/ /\ UNCHANGED matterDeleted
              /\ \/ \E c \in Callers : BeginStage(c) \/ StageCompletes(c) \/ Fails(c)
                 \/ \E f \in FailureInputs : Recorded(f)
                 \/ Recover
<1>1. doc.updatedAt \in Nat
  BY DEF IInv, TypeOK, Documents
<1>2. ASSUME UNCHANGED <<doc, jobs, matterDeleted>>
      PROVE  Quiet
  BY <1>1, <1>2, RevisionKept DEF Quiet, Available
<1>3. ASSUME NEW c \in Callers, StageStep(c)
      PROVE  \/ Quiet
             \/ UNCHANGED matterDeleted /\ (BeginStage(c) \/ StageCompletes(c) \/ Fails(c))
  BY <1>2, <1>3, StageStepKinds DEF StageStep
<1>4. CASE RunStep
  BY <1>2, <1>4, RunStepKinds DEF RunStep
<1>5. CASE ClockStepsBack \/ ClockCatchesUp \/ Crash
  BY <1>2, <1>5 DEF ClockStepsBack, ClockCatchesUp, Crash
<1>6. CASE Recover
  BY <1>6 DEF Recover
<1> QED
  BY <1>3, <1>4, <1>5, <1>6, UserStepQuiet DEF Next

(***************************************************************************)
(* Routes.  The last row of the job table says where a failed Document     *)
(* goes on, so that no Document at rest is stranded by its own rows.       *)
(***************************************************************************)

LEMMA LatestIsGreatest ==
    ASSUME NEW S \in SUBSET Nat
    PROVE  /\ \A m \in S : (\A i \in S : i <= m) => Latest(S) = m
           /\ Latest(S) # 0 => Latest(S) \in S
<1>1. Latest(S) # 0 => Latest(S) \in S
  BY DEF Latest
<1>2. ASSUME NEW m \in S, \A i \in S : i <= m
      PROVE  Latest(S) = m
  <2>1. Latest(S) \in S /\ \A j \in S : j <= Latest(S)
    BY <1>2 DEF Latest
  <2>2. m <= Latest(S) /\ Latest(S) <= m /\ m \in Nat /\ Latest(S) \in Nat
    BY <1>2, <2>1
  <2> QED
    BY <2>2
<1> QED
  BY <1>1, <1>2

\* In a failed Document the stage selection reads the stage of the last job,
\* or parsing when nothing has been parsed.
LEMMA FailedRoute ==
    ASSUME TypeOK, Route, doc.status = "FAILED"
    PROVE  /\ NextStage = IF doc.pages THEN jobs[Len(jobs)].type ELSE "PARSE"
           /\ doc.pages => LatestOfTypeFailed(NextStage)
<1>1. jobs \in Seq(JobRows) /\ DOMAIN jobs = 1..Len(jobs) /\ Len(jobs) \in Nat
  BY DEF TypeOK
<1>2. \A s \in Stages : JobsOf(s) \in SUBSET Nat /\ JobsOf(s) \subseteq DOMAIN jobs
  BY <1>1 DEF JobsOf
<1>3. \A i \in StatusJobs : i \in DOMAIN jobs /\ i # 0
  BY <1>2, LatestIsGreatest DEF StatusJobs
<1>4. StatusFailedJob # 0 => StatusFailedJob \in DOMAIN jobs
  <2> DEFINE failed == {i \in StatusJobs : jobs[i].status = "FAILED"}
  <2>1. failed \in SUBSET Nat /\ failed \subseteq DOMAIN jobs
    BY <1>1, <1>3
  <2>2. Latest(failed) # 0 => Latest(failed) \in failed
    BY <2>1, LatestIsGreatest
  <2> QED
    BY <2>1, <2>2 DEF StatusFailedJob
<1>5. CASE doc.pages
  <2> DEFINE m == Len(jobs)
             t == jobs[m].type
  <2>1. m \in DOMAIN jobs /\ jobs[m] \in JobRows /\ jobs[m].status = "FAILED" /\ t # "PARSE"
    BY <1>1, <1>5, JobRowType DEF Route, FailureIsLast
  <2>2. t \in Stages
    BY <2>1 DEF JobRows
  <2>3. Latest(JobsOf(t)) = m
    <3>1. m \in JobsOf(t) /\ \A i \in JobsOf(t) : i <= m
      BY <1>1, <2>1 DEF JobsOf
    <3> QED
      BY <1>2, <2>2, <3>1, LatestIsGreatest
  <2>4. StatusFailedJob = m
    <3> DEFINE failed == {i \in StatusJobs : jobs[i].status = "FAILED"}
    <3>1. m \in failed
      BY <1>1, <2>1, <2>2, <2>3 DEF StatusJobs
    <3>2. failed \in SUBSET Nat /\ \A i \in failed : i <= m
      BY <1>1, <1>3
    <3>3. Latest(failed) = m
      BY <3>1, <3>2, LatestIsGreatest
    <3> QED
      BY <3>3 DEF StatusFailedJob
  <2>5. m # 0
    BY <1>1, <2>1
  <2>6. SelectAction = IF t = "SANITIZE" THEN "SANITIZE_RETRY_OWNED" ELSE t
    BY <2>4, <2>5 DEF SelectAction, LiveStatuses
  <2>7. NextStage = t
    BY <2>2, <2>6 DEF NextStage, Stages
  <2>8. LatestOfTypeFailed(t)
    BY <2>1, <2>3, <2>5 DEF LatestOfTypeFailed
  <2> QED
    BY <1>5, <2>7, <2>8
<1>6. CASE ~doc.pages
  <2>1. StatusFailedJob # 0 => jobs[StatusFailedJob].type = "PARSE"
    BY <1>4, <1>6 DEF Route, FailedParseOnly
  <2>2. SelectAction = "PARSE"
    BY <2>1 DEF SelectAction, LiveStatuses
  <2>3. NextStage = "PARSE"
    BY <2>2 DEF NextStage
  <2> QED
    BY <1>6, <2>3
<1> QED
  BY <1>5, <1>6

LEMMA RouteAccepted == TypeOK /\ Route => RetryRoute
<1> SUFFICES ASSUME TypeOK, Route, doc.status \notin LiveStatuses \cup {"SANITIZED"}
             PROVE  RowAccepts(NextStage)
  BY DEF RetryRoute
<1>1. doc.status \in {"IMPORTED", "PARSED", "DETECTED", "READY", "FAILED"}
  BY DEF TypeOK, Documents, Statuses, RestStatuses
<1>2. doc.counted = doc.pages
  BY DEF Route, PagesCounted
<1>3. CASE doc.status = "FAILED"
  <2>1. CASE doc.pages
    <3>1. NextStage # "PARSE" /\ LatestOfTypeFailed(NextStage)
      BY <1>3, <2>1, FailedRoute DEF Route, FailureIsLast
    <3> QED
      BY <1>2, <1>3, <2>1, <3>1 DEF RowAccepts
  <2>2. CASE ~doc.pages
    BY <1>3, <2>2, FailedRoute DEF RowAccepts
  <2> QED
    BY <2>1, <2>2
<1>4. CASE doc.status \in {"IMPORTED", "PARSED", "DETECTED", "READY"}
  <2>1. doc.status = Source[NextStage]
    BY <1>4 DEF NextStage, SelectAction, Source
  <2>2. doc.status # "IMPORTED" => doc.pages
    BY <1>4 DEF Route, PagesFollow
  <2>3. doc.status = "IMPORTED" => NextStage = "PARSE"
    BY DEF NextStage, SelectAction
  <2> QED
    BY <1>2, <2>1, <2>2, <2>3 DEF RowAccepts
<1> QED
  BY <1>1, <1>3, <1>4

\* The row that a failure leaves.
LEMMA FailedRowIs ==
    ASSUME doc \in Documents, NEW s, doc' = FailedRow(s)
    PROVE  /\ doc'.status = "FAILED" /\ doc'.pages = doc.pages
           /\ doc'.counted = (doc.counted /\ s # "PARSE")
           /\ doc'.updatedAt = doc.updatedAt + 1 /\ doc'.trashed = doc.trashed
BY DEF FailedRow, Stamped, Documents

\* Stage s has failed: from its live status, or before it began, when the row
\* was waiting for that stage.
CanFail(s) ==
    \/ doc.status = Live[s]
    \/ /\ s \in AnalysisStages /\ Available
       /\ doc.status = Source[s] \/ (doc.status = "FAILED" /\ NextStage = s)

\* The last job is closed, or a row is added behind it.
LastFails(s) ==
    /\ jobs' # <<>> /\ jobs'[Len(jobs')] = [type |-> s, status |-> "FAILED"]
    /\ \/ Len(jobs') = Len(jobs) /\ jobs[Len(jobs)].type = s
       \/ Len(jobs') = Len(jobs) + 1
    /\ \A i \in DOMAIN jobs : i < Len(jobs') => jobs'[i] = jobs[i]

FailedNow(s) ==
    /\ CanFail(s)
    /\ doc'.status = "FAILED" /\ doc'.pages = doc.pages
    /\ doc'.counted = (doc.counted /\ s # "PARSE")
    /\ doc.pages <=> s # "PARSE"
    /\ s # "PARSE" => LastFails(s)
    /\ s = "PARSE" =>
          \A i \in DOMAIN jobs' : jobs'[i] = [type |-> "PARSE", status |-> "FAILED"]
    /\ doc'.trashed = doc.trashed

LEMMA LiveInjective == \A s, t \in Stages : Live[s] = Live[t] => s = t
BY DEF Stages, Live

\* The status tells whether the Document has been parsed.
LEMMA StagePages ==
    ASSUME Route, NEW s \in Stages, doc.status = Live[s] \/ doc.status = Source[s]
    PROVE  doc.pages <=> s # "PARSE"
BY DEF Route, PagesFollow, Stages, Live, Source

LEMMA FailsNow ==
    ASSUME IInv, Route, NEW c \in Callers, Fails(c)
    PROVE  FailedNow(call[c].stage)
<1> DEFINE s == call[c].stage
           j == call[c].job
<1>1. /\ s \in Stages /\ j \in Nat /\ doc \in Documents /\ jobs \in Seq(JobRows)
      /\ DOMAIN jobs = 1..Len(jobs) /\ Len(jobs) \in Nat
  BY DEF IInv, TypeOK, Calls
<1>2. doc.status = Live[s] /\ JobRunning(c)
  BY DEF Fails, FinishAccepts
<1>3. doc.pages <=> s # "PARSE"
  BY <1>1, <1>2, StagePages
<1>4. /\ doc'.status = "FAILED" /\ doc'.pages = doc.pages
      /\ doc'.counted = (doc.counted /\ s # "PARSE") /\ doc'.trashed = doc.trashed
  BY <1>1, FailedRowIs DEF Fails
<1>5. jobs' = IF j = 0 THEN jobs ELSE [jobs EXCEPT ![j].status = "FAILED"]
  BY DEF Fails, CloseJob
<1>6. ASSUME s # "PARSE"
      PROVE  LastFails(s)
  <2>1. j \in DOMAIN jobs /\ jobs[j] = [type |-> s, status |-> "RUNNING"]
    BY <1>2, <1>6 DEF JobRunning
  <2>2. j = Len(jobs)
    BY <2>1 DEF Route, RunningIsLast
  <2>3. jobs' = [jobs EXCEPT ![j].status = "FAILED"] /\ j # 0
    BY <1>1, <1>5, <2>1
  <2>4. /\ Len(jobs') = j /\ jobs'[j] = [type |-> s, status |-> "FAILED"] /\ jobs' # <<>>
        /\ \A i \in DOMAIN jobs : i < Len(jobs') => jobs'[i] = jobs[i]
    BY <1>1, <2>1, <2>2, <2>3
  <2> QED
    BY <2>1, <2>2, <2>4 DEF LastFails
<1>7. ASSUME s = "PARSE", NEW i \in DOMAIN jobs'
      PROVE  jobs'[i] = [type |-> "PARSE", status |-> "FAILED"]
  <2>1. i \in DOMAIN jobs
    BY <1>1, <1>5
  <2>2. jobs[i] = [type |-> "PARSE", status |-> "FAILED"]
    BY <1>3, <1>7, <2>1 DEF Route, FailedParseOnly
  <2>3. CASE i = j
    BY <1>1, <1>5, <2>1, <2>2, <2>3
  <2>4. CASE i # j
    BY <1>1, <1>5, <2>1, <2>2, <2>4
  <2> QED
    BY <2>3, <2>4
<1> QED
  BY <1>2, <1>3, <1>4, <1>6, <1>7 DEF FailedNow, CanFail

LEMMA RecordedNow ==
    ASSUME IInv, Route, NEW f \in FailureInputs, Recorded(f)
    PROVE  SinkStage(f) \in Stages /\ FailedNow(SinkStage(f))
<1> DEFINE s == SinkStage(f)
           j == f.owner.job
           row == [type |-> s, status |-> "FAILED"]
<1>1. /\ j \in Nat /\ (j # 0 => f.owner.held) /\ doc \in Documents /\ jobs \in Seq(JobRows)
      /\ DOMAIN jobs = 1..Len(jobs) /\ Len(jobs) \in Nat
  BY OwnerJobType DEF IInv, TypeOK, FailureInputs
<1>2. s \in Stages
  BY SinkStageType DEF IInv, Recorded
<1>3. /\ doc'.status = "FAILED" /\ doc'.pages = doc.pages
      /\ doc'.counted = (doc.counted /\ s # "PARSE") /\ doc'.trashed = doc.trashed
  BY <1>1, FailedRowIs DEF Recorded, SinkRecords
<1>4. CanFail(s) /\ (doc.pages <=> s # "PARSE")
  <2>1. CASE f.owner.held
    <3>1. doc.status = Live[s]
      BY <2>1 DEF Recorded, SinkAccepts, OwnerAccepts
    <3> QED
      BY <1>2, <3>1, StagePages DEF CanFail
  <2>2. CASE ~f.owner.held
    <3>1. /\ Available
          /\ \/ doc.status = Source[s]
             \/ doc.status = "FAILED" /\ LatestFailed # 0 /\ jobs[LatestFailed].type = s
      BY <2>2 DEF Recorded, SinkAccepts, PreStartAccepts
    <3>2. LatestFailed \in DOMAIN jobs \/ LatestFailed = 0
      BY DEF LatestFailed, Latest
    <3>3. ASSUME doc.status = "FAILED", LatestFailed # 0, jobs[LatestFailed].type = s
          PROVE  NextStage = s /\ (doc.pages <=> s # "PARSE")
      <4>1. CASE doc.pages
        <5> DEFINE failed == {i \in DOMAIN jobs : jobs[i].status = "FAILED"}
        <5>1. /\ Len(jobs) \in failed /\ \A i \in failed : i <= Len(jobs)
              /\ failed \in SUBSET Nat /\ jobs[Len(jobs)].type # "PARSE"
          BY <1>1, <3>3, <4>1 DEF Route, FailureIsLast
        <5>2. LatestFailed = Len(jobs)
          BY <5>1, LatestIsGreatest DEF LatestFailed
        <5> QED
          BY <3>3, <4>1, <5>1, <5>2, FailedRoute DEF IInv
      <4>2. CASE ~doc.pages
        <5>1. s = "PARSE"
          BY <3>2, <3>3, <4>2 DEF Route, FailedParseOnly
        <5> QED
          BY <3>3, <4>2, <5>1, FailedRoute DEF IInv
      <4> QED
        BY <4>1, <4>2
    <3>4. s \in AnalysisStages
      <4>1. CASE f.stage # "ANY"
        BY <4>1 DEF SinkStage, FailureInputs
      <4>2. CASE f.stage = "ANY"
        BY <1>2, <3>1, <4>2 DEF SinkStage, AnalysisStages, Source
      <4> QED
        BY <4>1, <4>2
    <3> QED
      BY <1>2, <3>1, <3>3, <3>4, StagePages DEF CanFail
  <2> QED
    BY <2>1, <2>2
<1>5. ASSUME j # 0
      PROVE  /\ jobs' = [jobs EXCEPT ![j].status = "FAILED"]
             /\ j \in DOMAIN jobs /\ j = Len(jobs) /\ s # "PARSE"
             /\ jobs[j] = [type |-> s, status |-> "RUNNING"]
  <2>1. j \in DOMAIN jobs /\ jobs[j] = [type |-> s, status |-> "RUNNING"]
    BY <1>1, <1>5 DEF Recorded, SinkAccepts, OwnerAccepts
  <2>2. j = Len(jobs) /\ s # "PARSE"
    BY <2>1 DEF Route, RunningIsLast, IInv, RunningHeld, HeldJob
  <2> QED
    BY <1>5, <2>1, <2>2 DEF Recorded, SinkRecords
<1>6. ASSUME j = 0
      PROVE  jobs' = Append(jobs, row)
  BY <1>6 DEF Recorded, SinkRecords
<1>7. LastFails(s)
  <2>1. CASE j # 0
    <3>1. /\ Len(jobs') = j /\ jobs'[j] = row /\ j \in DOMAIN jobs' /\ jobs' # <<>>
          /\ \A i \in DOMAIN jobs : i < Len(jobs') => jobs'[i] = jobs[i]
      BY <1>1, <1>5, <2>1
    <3> QED
      BY <1>5, <2>1, <3>1 DEF LastFails
  <2>2. CASE j = 0
    <3>1. /\ Len(jobs') = Len(jobs) + 1 /\ jobs'[Len(jobs) + 1] = row /\ jobs' # <<>>
          /\ \A i \in DOMAIN jobs : jobs'[i] = jobs[i]
      BY <1>1, <1>6, <2>2
    <3> QED
      BY <3>1 DEF LastFails
  <2> QED
    BY <2>1, <2>2
<1>8. ASSUME s = "PARSE", NEW i \in DOMAIN jobs'
      PROVE  jobs'[i] = [type |-> "PARSE", status |-> "FAILED"]
  <2>1. jobs' = Append(jobs, row)
    BY <1>5, <1>6, <1>8
  <2>2. \A k \in DOMAIN jobs : jobs[k] = [type |-> "PARSE", status |-> "FAILED"]
    BY <1>4, <1>8 DEF Route, FailedParseOnly
  <2>3. i \in 1..(Len(jobs) + 1)
    BY <1>1, <1>8, <2>1
  <2>4. CASE i = Len(jobs) + 1
    BY <1>1, <1>8, <2>1, <2>4
  <2>5. CASE i # Len(jobs) + 1
    <3>1. i \in DOMAIN jobs
      BY <1>1, <2>3, <2>5
    <3>2. jobs'[i] = jobs[i]
      BY <1>1, <2>1, <3>1
    <3> QED
      BY <2>2, <3>1, <3>2
  <2> QED
    BY <2>4, <2>5
<1> QED
  BY <1>2, <1>3, <1>4, <1>7, <1>8 DEF FailedNow

\* Recovery fails the stage whose live status it finds, or moves nothing.
LEMMA RecoversNow ==
    ASSUME IInv, Route, Recover
    PROVE  \/ \E s \in Stages : FailedNow(s)
           \/ UNCHANGED <<doc, jobs>>
<1>1. /\ doc \in Documents /\ jobs \in Seq(JobRows)
      /\ DOMAIN jobs = 1..Len(jobs) /\ Len(jobs) \in Nat
  BY DEF IInv, TypeOK
<1>2. jobs' = [i \in DOMAIN jobs |-> IF jobs[i].status = "RUNNING"
                                     THEN [jobs[i] EXCEPT !.status = "FAILED"] ELSE jobs[i]]
  BY DEF Recover
<1>3. DOMAIN jobs' = DOMAIN jobs /\ Len(jobs') = Len(jobs)
  <2>1. \A i \in DOMAIN jobs : jobs'[i] \in JobRows
    BY <1>2, JobRowType DEF IInv, JobRows
  <2>2. jobs' \in [1..Len(jobs) -> JobRows]
    BY <1>1, <1>2, <2>1
  <2> QED
    BY <1>1, <2>2
<1>4. CASE doc.status \notin LiveStatuses
  <2>1. doc' = doc
    BY <1>4 DEF Recover
  <2>2. NothingRuns
    BY <1>4, RestIsFree
  <2>3. jobs' = jobs
    BY <1>1, <1>2, <2>2 DEF NothingRuns
  <2> QED
    BY <2>1, <2>3
<1>5. CASE doc.status \in LiveStatuses
  <2>1. PICK s \in Stages : doc.status = Live[s]
    BY <1>5 DEF LiveStatuses, Live, Stages
  <2>2. doc.pages <=> s # "PARSE"
    BY <2>1, StagePages
  <2>3. s # "PARSE" <=> doc.status # "PARSING"
    BY <2>1 DEF Stages, Live
  <2>4. /\ doc'.status = "FAILED" /\ doc'.pages = doc.pages
        /\ doc'.counted = (doc.counted /\ s # "PARSE") /\ doc'.trashed = doc.trashed
    <3> DEFINE kept == doc.counted /\ doc.status # "PARSING"
               stamp == IF clockBehind THEN doc.updatedAt ELSE doc.updatedAt + 1
    <3>1. doc' = [doc EXCEPT !.status = "FAILED", !.updatedAt = stamp, !.counted = kept]
      BY <1>5 DEF Recover
    <3>2. kept = (doc.counted /\ s # "PARSE")
      BY <2>3
    <3> HIDE DEF kept, stamp
    <3> QED
      BY <1>1, <3>1, <3>2 DEF Documents
  <2>5. ASSUME s # "PARSE"
        PROVE  LastFails(s)
    <3>1. doc.status \in {"DETECTING", "RESOLVING", "SANITIZING"}
      BY <2>1, <2>5 DEF Stages, Live
    <3>2. PICK i \in DOMAIN jobs : jobs[i].status = "RUNNING"
      BY <3>1 DEF IInv, LiveHasJob
    <3>3. i = Len(jobs) /\ doc.status = Live[jobs[i].type]
      BY <3>2 DEF Route, RunningIsLast, IInv, RunningHeld, HeldJob
    <3>4. jobs[i] \in JobRows /\ jobs[i].type = s
      BY <2>1, <3>3, JobRowType, LiveInjective DEF IInv, JobRows
    <3>5. jobs'[i] = [type |-> s, status |-> "FAILED"]
      BY <1>2, <3>2, <3>4 DEF JobRows
    <3>6. \A k \in DOMAIN jobs : k < Len(jobs') => jobs'[k] = jobs[k]
      BY <1>1, <1>2, <1>3 DEF Route, RunningIsLast
    <3> QED
      BY <1>1, <1>3, <3>2, <3>3, <3>4, <3>5, <3>6 DEF LastFails
  <2>6. ASSUME s = "PARSE", NEW i \in DOMAIN jobs'
        PROVE  jobs'[i] = [type |-> "PARSE", status |-> "FAILED"]
    <3>1. jobs[i] = [type |-> "PARSE", status |-> "FAILED"]
      BY <1>3, <2>2, <2>6 DEF Route, FailedParseOnly
    <3> QED
      BY <1>2, <1>3, <2>6, <3>1
  <2> QED
    BY <2>1, <2>2, <2>4, <2>5, <2>6 DEF FailedNow, CanFail
<1> QED
  BY <1>4, <1>5

\* A stage has begun, and a stage has completed.
BegunNow(s) ==
    /\ Available /\ RowAccepts(s)
    /\ doc'.status = Live[s] /\ doc'.pages = doc.pages
    /\ doc'.counted = (doc.counted /\ s # "PARSE") /\ doc'.trashed = doc.trashed
    /\ jobs' = IF s = "PARSE" THEN jobs
               ELSE Append(jobs, [type |-> s, status |-> "RUNNING"])

CompletedNow(s) ==
    /\ doc.status = Live[s]
    /\ doc'.status = Done[s] /\ doc'.pages = (doc.pages \/ s = "PARSE")
    /\ doc'.counted = (doc.counted \/ s = "PARSE") /\ doc'.trashed = doc.trashed
    /\ DOMAIN jobs' = DOMAIN jobs
    /\ \A i \in DOMAIN jobs :
          \/ jobs'[i] = jobs[i]
          \/ jobs'[i] = [type |-> jobs[i].type, status |-> "COMPLETED"]

LEMMA BeginsNow ==
    ASSUME IInv, NEW c \in Callers, BeginStage(c)
    PROVE  BegunNow(call[c].stage) /\ doc'.updatedAt = doc.updatedAt + 1
<1> DEFINE s == call[c].stage
           kept == doc.counted /\ s # "PARSE"
           live == Live[s]
<1>1. doc \in Documents
  BY DEF IInv, TypeOK
<1>2. doc' = Stamped([doc EXCEPT !.status = live, !.counted = kept])
  BY DEF BeginStage
<1>3. /\ doc'.status = live /\ doc'.pages = doc.pages
      /\ doc'.counted = kept /\ doc'.trashed = doc.trashed
      /\ doc'.updatedAt = doc.updatedAt + 1
  <2> HIDE DEF kept, live
  <2> QED
    BY <1>1, <1>2 DEF Stamped, Documents
<1> QED
  BY <1>3 DEF BegunNow, BeginStage, BeginAccepts

LEMMA CompletesNow ==
    ASSUME IInv, NEW c \in Callers, StageCompletes(c)
    PROVE  CompletedNow(call[c].stage) /\ doc'.updatedAt = doc.updatedAt + 1
<1> DEFINE s == call[c].stage
           counted == doc.counted \/ s = "PARSE"
           pages == doc.pages \/ s = "PARSE"
           done == Done[s]
<1>1. doc \in Documents
  BY DEF IInv, TypeOK
<1>2. PICK found \in BOOLEAN :
         doc' = Stamped([doc EXCEPT !.status = done, !.counted = counted, !.pages = pages,
                                    !.mentions = @ \/ found])
  BY DEF StageCompletes
<1>3. /\ doc'.status = done /\ doc'.pages = pages
      /\ doc'.counted = counted /\ doc'.trashed = doc.trashed
      /\ doc'.updatedAt = doc.updatedAt + 1
  <2> HIDE DEF counted, pages, done
  <2> QED
    BY <1>1, <1>2 DEF Stamped, Documents
<1>4. doc.status = Live[s]
  BY DEF StageCompletes, CompleteAccepts, FinishAccepts
<1>5. /\ DOMAIN jobs' = DOMAIN jobs
      /\ \A i \in DOMAIN jobs :
            \/ jobs'[i] = jobs[i]
            \/ jobs'[i] = [type |-> jobs[i].type, status |-> "COMPLETED"]
  BY JobRowType DEF IInv, JobRows, StageCompletes, CloseJob
<1> QED
  BY <1>3, <1>4, <1>5 DEF CompletedNow

\* The steps that move the row, in one place.
LEMMA Moves ==
    ASSUME IInv, Route, Next
    PROVE  \/ Quiet
           \/ /\ UNCHANGED matterDeleted
              /\ \E s \in Stages : BegunNow(s) \/ CompletedNow(s) \/ FailedNow(s)
<1>1. \A c \in Callers : call[c].stage \in Stages
  BY DEF IInv, TypeOK, Calls
<1>2. doc.updatedAt \in Nat
  BY DEF IInv, TypeOK, Documents
<1>3. ASSUME UNCHANGED <<doc, jobs, matterDeleted>>
      PROVE  Quiet
  BY <1>2, <1>3, RevisionKept DEF Quiet, Available
<1>4. CASE Recover
  BY <1>3, <1>4, RecoversNow DEF Recover
<1> QED
  BY <1>1, <1>4, StepKinds, BeginsNow, CompletesNow, FailsNow, RecordedNow

RestRuns == doc.status \notin LiveStatuses => NothingRuns

LEMMA RestRunsNow == IInv => RestRuns
BY RestIsFree DEF RestRuns

LEMMA RestRunsNext == IInv' => RestRuns'
BY RestRunsNow, PTL

\* The stage of an earlier failure that is still the newest job of its stage
\* is the stage the Document failed in.
LEMMA NewestFailure ==
    ASSUME TypeOK, Route, doc.status = "FAILED", doc.pages, NEW s \in Stages \ {"PARSE"},
           LatestOfTypeFailed(s)
    PROVE  jobs[Len(jobs)].type = s
<1> DEFINE m == Latest(JobsOf(s))
<1>1. DOMAIN jobs \subseteq Nat
  BY JobRowType
<1>2. m \in JobsOf(s) /\ jobs[m].status = "FAILED"
  BY <1>1, LatestIsGreatest DEF LatestOfTypeFailed, JobsOf
<1>3. \A k \in JobsOf(s) : k <= m
  BY <1>1, <1>2 DEF Latest, JobsOf, LatestOfTypeFailed
<1>4. ~\E k \in DOMAIN jobs : m < k /\ jobs[k].type = s
  BY <1>1, <1>2, <1>3 DEF JobsOf
<1> QED
  BY <1>2, <1>4 DEF Route, FailuresSuperseded, JobsOf

\* The route is kept by every step.
LEMMA RouteStep == IInv /\ Route /\ [Next]_vars => Route'
<1> SUFFICES ASSUME IInv, Route, [Next]_vars PROVE Route'
  OBVIOUS
<1>1. IInv'
  BY NextOwned
<1>2. doc'.status \notin LiveStatuses => NothingRuns'
  BY <1>1, RestRunsNext DEF RestRuns
<1>3. /\ doc \in Documents /\ jobs \in Seq(JobRows) /\ jobs' \in Seq(JobRows)
      /\ DOMAIN jobs = 1..Len(jobs) /\ Len(jobs) \in Nat
      /\ DOMAIN jobs' = 1..Len(jobs') /\ Len(jobs') \in Nat
      /\ doc.pages \in BOOLEAN /\ doc.counted = doc.pages
  BY <1>1 DEF IInv, TypeOK, Documents, Route, PagesCounted
<1>4. CASE UNCHANGED vars \/ Quiet
  <2>1. UNCHANGED <<doc.status, doc.pages, doc.counted, jobs>>
    BY <1>4 DEF vars, Quiet
  <2> QED
    BY <2>1 DEF Route, PagesCounted, PagesFollow, FailedParseOnly, FailureIsLast,
                  RunningIsLast, FailuresSuperseded
<1>5. ASSUME NEW s \in Stages, FailedNow(s)
      PROVE  Route'
  <2>1. PagesCounted'
    <3>1. CASE s = "PARSE"
      BY <1>3, <1>5, <3>1 DEF FailedNow, PagesCounted
    <3>2. CASE s # "PARSE"
      BY <1>3, <1>5, <3>2 DEF FailedNow, PagesCounted
    <3> QED
      BY <3>1, <3>2
  <2>2. PagesFollow' /\ FailedParseOnly' /\ FailureIsLast'
    BY <1>5 DEF FailedNow, LastFails, PagesFollow, FailedParseOnly, FailureIsLast
  <2>4. FailuresSuperseded'
    <3> SUFFICES ASSUME NEW i \in DOMAIN jobs', jobs'[i].status = "FAILED",
                        jobs'[i].type # "PARSE", jobs'[Len(jobs')].type # jobs'[i].type
                 PROVE  \E k \in DOMAIN jobs' :
                           i < k /\ jobs'[k].type = jobs'[i].type /\ jobs'[k].status # "FAILED"
      BY <1>5 DEF FailedNow, FailuresSuperseded
    <3>1. s # "PARSE" /\ LastFails(s) /\ doc.pages
      BY <1>5 DEF FailedNow
    <3>2. jobs'[Len(jobs')].type = s
      BY <3>1 DEF LastFails
    <3> DEFINE n == Len(jobs)
               m == Len(jobs')
    <3>8. /\ DOMAIN jobs = 1..n /\ n \in Nat /\ DOMAIN jobs' = 1..m /\ m \in Nat
          /\ (m = n /\ jobs[n].type = s) \/ m = n + 1
          /\ \A k \in DOMAIN jobs : k < m => jobs'[k] = jobs[k]
      <4>1. DOMAIN jobs = 1..n /\ n \in Nat /\ DOMAIN jobs' = 1..m /\ m \in Nat
        BY <1>3
      <4>2. /\ (m = n /\ jobs[n].type = s) \/ m = n + 1
            /\ \A k \in DOMAIN jobs : k < m => jobs'[k] = jobs[k]
        BY <3>1, Zenon DEF LastFails
      <4> QED
        BY <4>1, <4>2
    <3>3. i \in 1..m /\ i < m /\ i \in DOMAIN jobs /\ jobs'[i] = jobs[i]
      <4>1. i # m
        BY <3>2
      <4>2. i \in 1..m
        BY <3>8
      <4> HIDE DEF n, m
      <4>3. i < m /\ i \in 1..n
        BY <3>8, <4>1, <4>2
      <4> QED
        BY <3>8, <4>2, <4>3
    <3>4. ~(doc.status = "FAILED" /\ jobs[Len(jobs)].type = jobs[i].type)
      <4> SUFFICES ASSUME doc.status = "FAILED" PROVE jobs[Len(jobs)].type = s
        BY <3>2, <3>3
      <4>1. NextStage = s
        BY <1>5 DEF FailedNow, CanFail, Live, Source, Stages
      <4> QED
        BY <3>1, <4>1, FailedRoute DEF IInv
    <3>5. PICK k \in DOMAIN jobs :
             i < k /\ jobs[k].type = jobs[i].type /\ jobs[k].status # "FAILED"
      BY <3>3, <3>4 DEF Route, FailuresSuperseded
    <3>6. k < m
      <4>1. jobs[k].type # s
        BY <3>2, <3>3, <3>5
      <4> HIDE DEF n, m
      <4>2. k \in 1..n
        BY <3>5, <3>8
      <4> QED
        BY <3>8, <4>1, <4>2
    <3>7. k \in DOMAIN jobs' /\ jobs'[k] = jobs[k]
      <4> HIDE DEF n, m
      <4>1. k \in 1..n /\ k \in 1..m
        BY <3>5, <3>6, <3>8
      <4> QED
        BY <3>5, <3>6, <3>8, <4>1
    <3> QED
      BY <3>3, <3>5, <3>7
  <2>3. RunningIsLast'
    BY <1>2, <1>5, RestStatus DEF FailedNow, NothingRuns, RunningIsLast
  <2> QED
    BY <2>1, <2>2, <2>3, <2>4 DEF Route
<1>6. ASSUME NEW s \in Stages, CompletedNow(s)
      PROVE  Route'
  <2>1. doc'.pages = TRUE /\ doc'.counted = TRUE
    <3>1. doc.pages <=> s # "PARSE"
      BY <1>6, StagePages DEF CompletedNow
    <3>2. CASE s = "PARSE"
      BY <1>6, <3>2 DEF CompletedNow
    <3>3. CASE s # "PARSE"
      <4>1. doc.pages = TRUE
        BY <1>3, <3>1, <3>3
      <4> QED
        BY <1>3, <1>6, <3>3, <4>1 DEF CompletedNow
    <3> QED
      BY <3>2, <3>3
  <2>2. doc'.status \notin {"IMPORTED", "PARSING", "FAILED"} /\ doc'.status \notin LiveStatuses
    BY <1>6 DEF CompletedNow, Stages, Done, LiveStatuses
  <2>3. RunningIsLast'
    BY <1>2, <2>2 DEF NothingRuns, RunningIsLast
  <2>4. FailuresSuperseded'
    <3> SUFFICES ASSUME NEW i \in DOMAIN jobs', jobs'[i].status = "FAILED",
                        jobs'[i].type # "PARSE"
                 PROVE  \E k \in DOMAIN jobs' :
                           i < k /\ jobs'[k].type = jobs'[i].type /\ jobs'[k].status # "FAILED"
      BY DEF FailuresSuperseded
    <3>1. i \in DOMAIN jobs /\ jobs'[i] = jobs[i]
      BY <1>6 DEF CompletedNow
    <3>2. doc.status # "FAILED"
      BY <1>6 DEF CompletedNow, Stages, Live
    <3>3. PICK k \in DOMAIN jobs :
             i < k /\ jobs[k].type = jobs[i].type /\ jobs[k].status # "FAILED"
      BY <3>1, <3>2 DEF Route, FailuresSuperseded
    <3>4. k \in DOMAIN jobs' /\ jobs'[k].type = jobs[k].type /\ jobs'[k].status # "FAILED"
      BY <1>6, <3>3 DEF CompletedNow
    <3> QED
      BY <3>1, <3>3, <3>4
  <2> QED
    BY <2>1, <2>2, <2>3, <2>4 DEF Route, PagesCounted, PagesFollow, FailedParseOnly, FailureIsLast
<1>7. ASSUME NEW s \in Stages, BegunNow(s)
      PROVE  Route'
  <2>1. doc.status \notin LiveStatuses
    BY <1>7, RestStatus DEF BegunNow, RowAccepts
  <2>2. NothingRuns
    BY <2>1, RestIsFree
  <2>3. doc.pages <=> s # "PARSE"
    BY <1>7 DEF BegunNow, RowAccepts, Route, PagesFollow, Source
  <2>4. doc'.status \in LiveStatuses /\ (doc'.status = "PARSING" <=> s = "PARSE")
    BY <1>7 DEF BegunNow, Stages, Live, LiveStatuses
  <2>5. PagesCounted' /\ PagesFollow' /\ FailureIsLast'
    <3>1. PagesCounted'
      <4>1. CASE s = "PARSE"
        BY <1>3, <1>7, <2>3, <4>1 DEF BegunNow, PagesCounted
      <4>2. CASE s # "PARSE"
        BY <1>3, <1>7, <2>3, <4>2 DEF BegunNow, PagesCounted
      <4> QED
        BY <4>1, <4>2
    <3>2. doc'.pages = doc.pages
      BY <1>7 DEF BegunNow
    <3> QED
      BY <2>3, <2>4, <3>1, <3>2 DEF PagesFollow, FailureIsLast, LiveStatuses
  <2>6. FailedParseOnly'
    BY <1>7, <2>3 DEF BegunNow, Route, FailedParseOnly
  <2>7. RunningIsLast'
    <3>1. CASE s = "PARSE"
      BY <1>7, <2>2, <3>1 DEF BegunNow, NothingRuns, RunningIsLast
    <3>2. CASE s # "PARSE"
      <4>1. jobs' = Append(jobs, [type |-> s, status |-> "RUNNING"])
        BY <1>7, <3>2 DEF BegunNow
      <4>2. /\ DOMAIN jobs' = 1..(Len(jobs) + 1) /\ Len(jobs') = Len(jobs) + 1
            /\ \A i \in DOMAIN jobs : jobs'[i] = jobs[i]
        BY <1>3, <4>1
      <4> QED
        BY <1>3, <2>2, <4>2 DEF NothingRuns, RunningIsLast
    <3> QED
      BY <3>1, <3>2
  <2>8. FailuresSuperseded'
    <3> SUFFICES ASSUME NEW i \in DOMAIN jobs', jobs'[i].status = "FAILED",
                        jobs'[i].type # "PARSE"
                 PROVE  \E k \in DOMAIN jobs' :
                           i < k /\ jobs'[k].type = jobs'[i].type /\ jobs'[k].status # "FAILED"
      BY DEF FailuresSuperseded
    <3>1. s # "PARSE"
      BY <1>7, <2>3 DEF BegunNow, Route, FailedParseOnly
    <3>2. jobs' = Append(jobs, [type |-> s, status |-> "RUNNING"])
      BY <1>7, <3>1 DEF BegunNow
    <3>3. /\ DOMAIN jobs' = 1..(Len(jobs) + 1)
          /\ jobs'[Len(jobs) + 1] = [type |-> s, status |-> "RUNNING"]
          /\ \A k \in DOMAIN jobs : jobs'[k] = jobs[k]
      BY <1>3, <3>2
    <3>4. i \in DOMAIN jobs /\ jobs'[i] = jobs[i]
      BY <1>3, <3>3
    <3>5. CASE doc.status = "FAILED" /\ jobs[Len(jobs)].type = jobs[i].type
      <4>1. jobs[i].type = s
        BY <1>7, <2>3, <3>1, <3>5, NewestFailure DEF BegunNow, RowAccepts, IInv, Source, Stages
      <4> QED
        BY <1>3, <3>3, <3>4, <4>1
    <3>6. CASE \E k \in DOMAIN jobs :
                  i < k /\ jobs[k].type = jobs[i].type /\ jobs[k].status # "FAILED"
      <4>1. PICK k \in DOMAIN jobs :
               i < k /\ jobs[k].type = jobs[i].type /\ jobs[k].status # "FAILED"
        BY <3>6
      <4>2. k \in DOMAIN jobs' /\ jobs'[k] = jobs[k]
        BY <1>3, <3>3
      <4> QED
        BY <3>4, <4>1, <4>2
    <3> QED
      BY <3>4, <3>5, <3>6 DEF Route, FailuresSuperseded
  <2> QED
    BY <2>5, <2>6, <2>7, <2>8 DEF Route
<1> QED
  BY <1>4, <1>5, <1>6, <1>7, Moves

THEOREM RouteInductive == Spec => [](IInv /\ Route)
<1>1. Init => Route
  BY DEF Init, Route, PagesCounted, PagesFollow, FailedParseOnly, FailureIsLast,
         RunningIsLast, FailuresSuperseded
<1> QED
  BY <1>1, InitOwned, NextOwned, RouteStep, PTL DEF Spec

\* A Document at rest is never stranded by its own rows: the stage it goes on
\* with, or retries, accepts them.
THEOREM NeverStranded == Spec => []RetryRoute
<1>1. IInv /\ Route => RetryRoute
  BY RouteAccepted DEF IInv
<1> QED
  BY <1>1, RouteInductive, PTL

\* page_count and the page rows are written and reset together.
THEOREM PagesAgree == Spec => []PagesCounted
<1>1. Route => PagesCounted
  BY DEF Route
<1> QED
  BY <1>1, RouteInductive, PTL

(***************************************************************************)
(* The lifecycle: every step of the pipeline is a step of it, or a stutter.*)
(***************************************************************************)

Origin == IF doc.status = "FAILED" THEN NextStage ELSE "NONE"

\* The stage selection depends on the status and on the job rows only.
LEMMA OriginKept == UNCHANGED <<doc.status, jobs>> => Origin' = Origin
BY DEF Origin, NextStage, SelectAction, StatusFailedJob, StatusJobs, JobsOf, Latest

\* The stage that has failed is the origin that is read afterwards.
OriginIsLast ==
    doc.status = "FAILED" => Origin = IF doc.pages THEN jobs[Len(jobs)].type ELSE "PARSE"

LEMMA OriginRead == TypeOK /\ Route => OriginIsLast
BY FailedRoute DEF Origin, OriginIsLast

LEMMA OriginReadNext == TypeOK' /\ Route' => OriginIsLast'
BY OriginRead, PTL

\* The instance has its own copy of the stage tables.
LEMMA SameStages ==
    /\ Lifecycle!Stages = Stages /\ Lifecycle!AnalysisStages = AnalysisStages
    /\ Lifecycle!LiveStatuses = LiveStatuses
    /\ Lifecycle!Source = Source /\ Lifecycle!Live = Live /\ Lifecycle!Done = Done
BY DEF Lifecycle!Stages, Stages, Lifecycle!AnalysisStages, AnalysisStages,
       Lifecycle!LiveStatuses, LiveStatuses, Lifecycle!Source, Source,
       Lifecycle!Live, Live, Lifecycle!Done, Done

LEMMA LifecycleStep ==
    IInv /\ Route /\ [Next]_vars => [Lifecycle!Next]_(Lifecycle!vars)
<1> SUFFICES ASSUME IInv, Route, [Next]_vars
             PROVE  Lifecycle!Next \/ UNCHANGED <<doc.status, Origin, Available>>
  BY DEF Lifecycle!vars, Origin
<1>1. IInv' /\ Route' /\ TypeOK'
  BY NextOwned, RouteStep DEF IInv
<1>2. CASE UNCHANGED vars
  BY <1>2, OriginKept DEF vars, Available
<1>3. CASE Quiet
  <2>1. UNCHANGED <<doc.status, Origin>>
    BY <1>3, OriginKept DEF Quiet
  <2>2. CASE doc.status \in LiveStatuses
    BY <1>3, <2>1, <2>2 DEF Quiet
  <2>3. CASE doc.status \notin LiveStatuses
    <3>1. Available' \in BOOLEAN
      BY <1>1 DEF Available, TypeOK, Documents
    <3>2. Lifecycle!MoveToOrFromTrash
      BY <2>1, <2>3, <3>1, SameStages DEF Lifecycle!MoveToOrFromTrash, Origin
    <3> QED
      BY <3>2, SameStages DEF Lifecycle!Next
  <2> QED
    BY <2>2, <2>3
<1>4. ASSUME NEW s \in Stages, BegunNow(s), UNCHANGED matterDeleted
      PROVE  Lifecycle!Next
  <2>1. Available' = Available /\ Available
    BY <1>4 DEF BegunNow, Available
  <2>2. doc'.status = Live[s] /\ doc'.status # "FAILED"
    BY <1>4 DEF BegunNow, Stages, Live
  <2>3. doc.status = Source[s] \/ (doc.status = "FAILED" /\ NextStage = s)
    <3>1. ASSUME doc.status = "FAILED" PROVE NextStage = s
      <4>1. NextStage = IF doc.pages THEN jobs[Len(jobs)].type ELSE "PARSE"
        BY <3>1, FailedRoute DEF IInv
      <4>2. CASE s = "PARSE"
        BY <1>4, <3>1, <4>1, <4>2 DEF BegunNow, RowAccepts, Source
      <4>3. CASE s # "PARSE"
        <5>1. doc.pages /\ LatestOfTypeFailed(s)
          BY <1>4, <3>1, <4>3 DEF BegunNow, RowAccepts, Source, Stages
        <5> QED
          BY <3>1, <4>1, <4>3, <5>1, NewestFailure DEF IInv
      <4> QED
        BY <4>2, <4>3
    <3> QED
      BY <1>4, <3>1 DEF BegunNow, RowAccepts
  <2>4. Lifecycle!Begin(s)
    BY <2>1, <2>2, <2>3, SameStages DEF Lifecycle!Begin, Lifecycle!CanEnter, Origin
  <2> QED
    BY <2>4, SameStages DEF Lifecycle!Next
<1>5. ASSUME NEW s \in Stages, CompletedNow(s), UNCHANGED matterDeleted
      PROVE  Lifecycle!Next
  <2>1. Available' = Available
    BY <1>5 DEF CompletedNow, Available
  <2>2. doc.status # "FAILED" /\ doc'.status # "FAILED"
    BY <1>5 DEF CompletedNow, Stages, Live, Done
  <2>3. Lifecycle!Complete(s)
    BY <1>5, <2>1, <2>2, SameStages DEF CompletedNow, Lifecycle!Complete, Origin
  <2> QED
    BY <2>3, SameStages DEF Lifecycle!Next
<1>6. ASSUME NEW s \in Stages, FailedNow(s), UNCHANGED matterDeleted
      PROVE  Lifecycle!Next
  <2>1. Available' = Available
    BY <1>6 DEF FailedNow, Available
  <2>2. doc'.status = "FAILED" /\ Origin' = s
    <3>1. Origin' = IF doc'.pages THEN jobs'[Len(jobs')].type ELSE "PARSE"
      BY <1>1, <1>6, OriginReadNext DEF FailedNow, OriginIsLast
    <3> QED
      BY <1>6, <3>1 DEF FailedNow, LastFails
  <2>3. Lifecycle!FailedIn(s)
    BY <2>1, <2>2 DEF Lifecycle!FailedIn, Origin
  <2>4. Lifecycle!Fail(s) \/ Lifecycle!Reject(s)
    BY <1>6, <2>3, SameStages
       DEF FailedNow, CanFail, Lifecycle!Fail, Lifecycle!Reject, Lifecycle!CanEnter, Origin
  <2> QED
    BY <2>4, SameStages DEF Lifecycle!Next
<1> QED
  BY <1>2, <1>3, <1>4, <1>5, <1>6, Moves

\* The pipeline implements the lifecycle of a Document.
THEOREM ImplementsLifecycle == Spec => LifecycleSpec
<1>1. Init => Lifecycle!Init
  BY DEF Init, Lifecycle!Init, Available
<1>2. IInv /\ Route /\ [Next]_vars => [Lifecycle!Next]_(Lifecycle!vars)
  BY LifecycleStep
<1> QED
  BY <1>1, <1>2, RouteInductive, PTL DEF Spec, LifecycleSpec, Lifecycle!Spec

(***************************************************************************)
(* Attempts.  Each step of a run, in the terms that the invariants of an   *)
(* accepted attempt need.                                                  *)
(***************************************************************************)

RunAccepted ==
    /\ run.pc = "off" /\ run'.pc = "deferred"
    /\ run'.accepted = Revision /\ run'.external = FALSE /\ run'.ran = 0
    /\ UNCHANGED <<doc, jobs>>

StageOver ==
    /\ run.pc = "inStage" /\ run'.pc \in {"reading", "caught"}
    /\ UNCHANGED <<run.accepted, run.snapshot, run.external>>
    /\ run'.pc = "reading" => doc'.status # "FAILED"

PendingOver ==
    /\ run.pc = "deferred" /\ run'.pc = "reading"
    /\ UNCHANGED <<run.accepted, run.external, run.ran>>

\* The run goes on behind a stage, or a failure, of somebody else.
Deferring ==
    /\ \/ run.pc \in {"reading", "waiting"} /\ run'.pc = "waiting"
       \/ run.pc = "caught" /\ run'.pc = "reading"
    /\ run'.external = TRUE /\ doc.status # "FAILED"
    /\ UNCHANGED <<run.accepted, doc, jobs>>

EntersStage ==
    /\ run.pc \in {"reading", "waiting"} /\ run'.pc = "inStage"
    /\ ~ExternalFailure
    /\ run'.external = FALSE /\ run'.snapshot = Revision
    /\ UNCHANGED <<run.accepted, doc, jobs>>

\* A call that returns has completed its stage, or finds it completed.
LEMMA ReturnsRested ==
    ASSUME IInv, NEW c \in Callers, StageStep(c), c = Runner
    PROVE  UNCHANGED run \/ StageOver
<1>1. /\ run \in Runs /\ call[c].stage \in Stages
      /\ \A s \in Stages : Done[s] # "FAILED"
  BY DEF IInv, TypeOK, Calls, Stages, Done
<1>2. call[c].pc # "idle"
  <2>1. Beginning(c) \/ Working(c) => call[c].pc # "idle"
    BY DEF Beginning, Working
  <2>2. InspectSource(c) => call[c].pc # "idle"
    BY DEF InspectSource, Entered
  <2> QED
    BY <2>1, <2>2
       DEF StageStep, SourceRejected, ReuseResult, BeginStage, RefuseStage, BeginFault,
           StageCompletes, StageFails, StageFailsOnCompleteFault, StageAbandoned,
           StageAbandonedOnFault
<1>3. run.pc = "inStage"
  BY <1>2 DEF IInv, RunnerInStage
<1>4. ASSUME NEW owner, Thrown(c, owner)
      PROVE  StageOver
  <2>1. run' = [run EXCEPT !.pc = "caught", !.owner = owner]
    BY <1>4 DEF Thrown
  <2> QED
    BY <1>1, <1>3, <2>1 DEF StageOver, Runs
<1>5. ASSUME NEW s \in Stages, Returned(c, s), doc'.status = Done[s]
      PROVE  StageOver
  <2>1. run' = [run EXCEPT !.pc = "reading", !.ran = @ + 1]
    BY <1>5, Zenon DEF Returned
  <2>2. /\ run'.pc = "reading" /\ run'.accepted = run.accepted
        /\ run'.snapshot = run.snapshot /\ run'.external = run.external
    BY <1>1, <2>1 DEF Runs
  <2> QED
    BY <1>1, <1>3, <1>5, <2>2 DEF StageOver
<1>6. CASE InspectSource(c)
  BY <1>4, <1>6 DEF InspectSource
<1>7. CASE ReuseResult(c)
  BY <1>1, <1>5, <1>7 DEF ReuseResult, AlreadyDone
<1>8. CASE StageCompletes(c)
  BY <1>1, <1>5, <1>8, CompletesNow DEF StageCompletes, CompletedNow
<1>9. CASE BeginStage(c)
  BY <1>9 DEF BeginStage
<1>10. CASE SourceRejected(c) \/ RefuseStage(c) \/ BeginFault(c) \/ StageFails(c)
            \/ StageFailsOnCompleteFault(c) \/ StageAbandoned(c) \/ StageAbandonedOnFault(c)
  BY <1>4, <1>10 DEF SourceRejected, RefuseStage, BeginFault, StageFails,
                     StageFailsOnCompleteFault, StageAbandoned, StageAbandonedOnFault
<1> QED
  BY <1>6, <1>7, <1>8, <1>9, <1>10 DEF StageStep

\* A call of a channel leaves the run alone.
LEMMA ChannelsBeside ==
    ASSUME NEW c \in Callers, StageStep(c), c # Runner
    PROVE  UNCHANGED run
<1>1. ASSUME NEW owner, Thrown(c, owner)
      PROVE  UNCHANGED run
  BY <1>1 DEF Thrown
<1>2. ASSUME NEW s, Returned(c, s)
      PROVE  UNCHANGED run
  BY <1>2, Zenon DEF Returned
<1>3. CASE InspectSource(c) \/ ReuseResult(c) \/ StageCompletes(c) \/ BeginStage(c)
  BY <1>1, <1>2, <1>3 DEF InspectSource, ReuseResult, StageCompletes, BeginStage
<1>4. CASE SourceRejected(c) \/ RefuseStage(c) \/ BeginFault(c) \/ StageFails(c)
           \/ StageFailsOnCompleteFault(c) \/ StageAbandoned(c) \/ StageAbandonedOnFault(c)
  BY <1>1, <1>4 DEF SourceRejected, RefuseStage, BeginFault, StageFails,
                    StageFailsOnCompleteFault, StageAbandoned, StageAbandonedOnFault
<1> QED
  BY <1>3, <1>4 DEF StageStep

LEMMA RunStepAttempt ==
    ASSUME IInv, RunStep
    PROVE  run'.pc = "off" \/ PendingOver \/ Deferring \/ EntersStage
<1>1. run \in Runs
  BY DEF IInv, TypeOK
<1>2. \A reported : RunEnds(reported) => run'.pc = "off"
  BY DEF RunEnds, OffRun
<1>3. Observing => run.pc \in {"reading", "waiting"}
  BY DEF Observing
<1>4. CASE RetryPending
  <2>1. CASE run' = [run EXCEPT !.pc = "reading"]
    BY <1>1, <1>4, <2>1 DEF RetryPending, PendingOver, Runs
  <2> QED
    BY <1>2, <1>4, <2>1 DEF RetryPending
<1>5. CASE RetryPendingFault \/ FinishRun \/ StatusReadFault \/ RecordStageFailureFault
  BY <1>2, <1>5 DEF RetryPendingFault, FinishRun, StatusReadFault, RecordStageFailureFault
<1>6. CASE AwaitLiveStage
  <2>1. doc.status # "FAILED"
    <3>1. SelectAction = "WAITING_FOR_LIVE_STAGE"
      BY <1>6 DEF AwaitLiveStage
    <3> SUFFICES ASSUME doc.status = "FAILED" PROVE FALSE
      OBVIOUS
    <3>2. StatusFailedJob # 0 => jobs[StatusFailedJob].type \in Stages
      <4>1. DOMAIN jobs \in SUBSET Nat
        BY JobRowType DEF IInv
      <4>2. StatusJobs \subseteq DOMAIN jobs /\ StatusJobs \in SUBSET Nat
        BY <4>1, LatestIsGreatest DEF StatusJobs, JobsOf
      <4>3. StatusFailedJob # 0 => StatusFailedJob \in DOMAIN jobs
        BY <4>1, <4>2, LatestIsGreatest DEF StatusFailedJob
      <4> QED
        BY <4>3, JobRowType DEF IInv, JobRows
    <3> QED
      BY <3>1, <3>2 DEF SelectAction, LiveStatuses, Stages
  <2>2. run' = [run EXCEPT !.pc = "waiting", !.external = TRUE]
    BY <1>6 DEF AwaitLiveStage
  <2> QED
    BY <1>1, <1>3, <1>6, <2>1, <2>2 DEF AwaitLiveStage, Deferring, Runs
<1>7. CASE RunStage
  <2>1. run' = [run EXCEPT !.pc = "inStage", !.stage = SelectAction,
                           !.snapshot = Revision, !.external = FALSE]
    BY <1>7 DEF RunStage
  <2> QED
    BY <1>1, <1>3, <1>7, <2>1 DEF RunStage, EntersStage, Runs
<1>8. CASE RecordStageFailure
  <2>1. CASE \E reported : RunEnds(reported)
    BY <1>2, <2>1
  <2>2. CASE ~\E reported : RunEnds(reported)
    <3>1. /\ run.pc = "caught" /\ doc.status # "FAILED" /\ UNCHANGED <<doc, jobs>>
          /\ run' = [run EXCEPT !.pc = "reading", !.external = TRUE, !.owner = NoOwner]
      BY <1>8, <2>2 DEF RecordStageFailure
    <3> QED
      BY <1>1, <3>1 DEF Deferring, Runs
  <2> QED
    BY <2>1, <2>2
<1> QED
  BY <1>4, <1>5, <1>6, <1>7, <1>8 DEF RunStep

LEMMA RunKinds ==
    ASSUME IInv, Next
    PROVE  \/ UNCHANGED run
           \/ run'.pc = "off"
           \/ RunAccepted \/ StageOver \/ PendingOver \/ Deferring \/ EntersStage
<1>1. ASSUME NEW c \in Callers, StageStep(c)
      PROVE  UNCHANGED run \/ StageOver
  BY <1>1, ReturnsRested, ChannelsBeside
<1>2. CASE StartAnalysis
  <2>1. run' = [OffRun EXCEPT !.pc = "deferred", !.accepted = Revision]
    BY <1>2 DEF StartAnalysis
  <2>2. /\ run'.pc = "deferred" /\ run'.accepted = Revision
        /\ run'.external = FALSE /\ run'.ran = 0
    BY <2>1 DEF OffRun
  <2> QED
    BY <1>2, <2>2 DEF StartAnalysis, RunAccepted
<1>3. CASE UserStep /\ ~StartAnalysis
  BY <1>3 DEF UserStep, ChannelCall, TrashDocument, RestoreDocument, TrashMatter,
              RestoreMatter, CreateManualMention, DocumentGet
<1>4. CASE ClockStepsBack \/ ClockCatchesUp \/ Recover
  BY <1>4 DEF ClockStepsBack, ClockCatchesUp, Recover
<1>5. CASE Crash
  BY <1>5 DEF Crash, OffRun
<1> QED
  BY <1>1, <1>2, <1>3, <1>4, <1>5, RunStepAttempt DEF Next

\* The stamp of the row never falls while the process runs, and what a status
\* read returns only changes with it.
LEMMA RevisionMoves ==
    ASSUME IInv, Route, Next, up
    PROVE  \/ doc.updatedAt < doc'.updatedAt
           \/ doc'.updatedAt = doc.updatedAt /\ Revision' = Revision
<1>1. doc \in Documents /\ doc'.updatedAt \in Nat /\ doc.updatedAt \in Nat
  BY NextOwned DEF IInv, TypeOK, Documents
<1>2. CASE Quiet
  BY <1>1, <1>2 DEF Quiet
<1>3. ASSUME NEW c \in Callers, BeginStage(c) \/ StageCompletes(c) \/ Fails(c)
      PROVE  doc'.updatedAt = doc.updatedAt + 1
  BY <1>1, <1>3, BeginsNow, CompletesNow, FailedRowIs DEF Fails
<1>4. ASSUME NEW f \in FailureInputs, Recorded(f)
      PROVE  doc'.updatedAt = doc.updatedAt + 1
  BY <1>1, <1>4, FailedRowIs DEF Recorded, SinkRecords
<1>5. ~Recover
  BY DEF Recover
<1> QED
  BY <1>1, <1>2, <1>3, <1>4, <1>5, StepKinds

\* A revision that was read stays older than the row, or the present one.
LEMMA SinceKept ==
    ASSUME IInv, Route, Next, up, NEW r \in Revisions,
           r.updatedAt <= doc.updatedAt, r.updatedAt = doc.updatedAt => r = Revision
    PROVE  /\ r.updatedAt <= doc'.updatedAt
           /\ r.updatedAt = doc'.updatedAt => r = Revision'
           /\ r.updatedAt < doc.updatedAt => r.updatedAt < doc'.updatedAt
<1>1. r.updatedAt \in Nat /\ doc.updatedAt \in Nat /\ doc'.updatedAt \in Nat
  BY NextOwned DEF Revisions, IInv, TypeOK, Documents
<1> QED
  BY <1>1, RevisionMoves

LEMMA AttemptStep == IInv /\ Route /\ AttemptKnown /\ [Next]_vars => AttemptKnown'
<1> SUFFICES ASSUME IInv, Route, AttemptKnown, [Next]_vars PROVE AttemptKnown'
  OBVIOUS
<1>1. CASE UNCHANGED vars
  <2>1. UNCHANGED <<run, doc>> /\ Revision' = Revision
    BY <1>1, RevisionKept DEF vars
  <2> QED
    BY <2>1 DEF AttemptKnown, Since
<1>2. CASE run'.pc = "off"
  BY <1>2 DEF AttemptKnown
<1>3. ASSUME Next, run'.pc # "off"
      PROVE  AttemptKnown'
  <2>1. /\ run \in Runs /\ run' \in Runs /\ Revision \in Revisions
        /\ run.accepted \in Revisions /\ run.snapshot \in Revisions
        /\ doc.updatedAt \in Nat /\ doc'.updatedAt \in Nat
        /\ Revision.updatedAt = doc.updatedAt /\ Revision.status = doc.status
    BY NextOwned, FailedJobType DEF IInv, TypeOK, Runs, Documents, Revision
  <2>2. CASE RunAccepted
    <3>1. Revision' = Revision /\ doc' = doc
      BY <2>2, RevisionKept DEF RunAccepted
    <3> QED
      BY <2>1, <2>2, <3>1 DEF RunAccepted, AttemptKnown, Since
  <2>3. CASE run.pc # "off"
    <3>1. up
      BY <2>3 DEF IInv, DownForgets
    <3>2. run.accepted.updatedAt <= doc.updatedAt
          /\ (run.accepted.updatedAt = doc.updatedAt => run.accepted = Revision)
      BY <2>3 DEF AttemptKnown, Since
    <3>3. /\ run.accepted.updatedAt <= doc'.updatedAt
          /\ run.accepted.updatedAt = doc'.updatedAt => run.accepted = Revision'
          /\ run.accepted.updatedAt < doc.updatedAt => run.accepted.updatedAt < doc'.updatedAt
      BY <1>3, <2>1, <3>1, <3>2, SinceKept
    <3>4. ASSUME run.pc \in {"inStage", "caught"}
          PROVE  /\ run.snapshot.updatedAt <= doc'.updatedAt
                 /\ run.snapshot.updatedAt = doc'.updatedAt => run.snapshot = Revision'
                 /\ run.accepted.updatedAt <= run.snapshot.updatedAt
      <4>1. /\ run.snapshot.updatedAt <= doc.updatedAt
            /\ run.snapshot.updatedAt = doc.updatedAt => run.snapshot = Revision
            /\ run.accepted.updatedAt <= run.snapshot.updatedAt
        BY <2>3, <3>4 DEF AttemptKnown, Since
      <4> QED
        BY <1>3, <2>1, <3>1, <4>1, SinceKept
    <3>5. run.external => \/ run.accepted.status # "FAILED"
                          \/ run.accepted.updatedAt < doc'.updatedAt
      BY <2>3, <3>3 DEF AttemptKnown
    <3>6. CASE UNCHANGED run
      BY <3>3, <3>4, <3>5, <3>6 DEF AttemptKnown, Since
    <3>7. CASE StageOver
      BY <3>3, <3>4, <3>5, <3>7 DEF StageOver, AttemptKnown, Since
    <3>8. CASE PendingOver
      BY <3>3, <3>5, <3>8 DEF PendingOver, AttemptKnown, Since
    <3>9. CASE Deferring
      <4>1. run.accepted.status # "FAILED" \/ run.accepted.updatedAt < doc.updatedAt
        <5>1. run.accepted.updatedAt \in Nat
          BY <2>1 DEF Revisions
        <5> QED
          BY <2>1, <3>2, <3>9, <5>1 DEF Deferring
      <4> QED
        BY <3>3, <3>9, <4>1 DEF Deferring, AttemptKnown, Since
    <3>10. CASE EntersStage
      <4>1. Revision' = Revision /\ doc' = doc
        BY <3>10, RevisionKept DEF EntersStage
      <4> QED
        BY <2>1, <3>3, <3>10, <4>1 DEF EntersStage, AttemptKnown, Since
    <3> QED
      BY <1>3, <2>3, <3>6, <3>7, <3>8, <3>9, <3>10, RunKinds DEF RunAccepted
  <2>4. CASE run.pc = "off" /\ ~RunAccepted
    <3>1. UNCHANGED run
      BY <1>3, <2>4, RunKinds DEF StageOver, PendingOver, Deferring, EntersStage
    <3> QED
      BY <2>4, <3>1 DEF AttemptKnown
  <2> QED
    BY <2>2, <2>3, <2>4
<1> QED
  BY <1>1, <1>2, <1>3

\* A run that ends has left the unrecorded signal, a row other than the one
\* it was accepted at, or a status that asks for no run.
LEMMA EndLeavesSignal ==
    ASSUME IInv, Route, AttemptKnown, Next, run.pc # "off", run'.pc = "off", up'
    PROVE  \/ unrecorded'
           \/ Revision' # run.accepted
           \/ SelectAction' \in {"ALREADY_ANALYZED", "SANITIZE_RETRY_OWNED"}
<1>1. /\ run \in Runs /\ run.accepted \in Revisions
      /\ doc \in Documents /\ doc.updatedAt \in Nat /\ doc'.updatedAt \in Nat
      /\ Revision.updatedAt = doc.updatedAt /\ Revision.status = doc.status
      /\ Revision'.updatedAt = doc'.updatedAt
  BY NextOwned DEF IInv, TypeOK, Runs, Documents, Revision
<1>2. /\ run.accepted.updatedAt <= doc.updatedAt
      /\ run.accepted.updatedAt = doc.updatedAt => run.accepted = Revision
      /\ run.external => \/ run.accepted.status # "FAILED"
                         \/ run.accepted.updatedAt < doc.updatedAt
      /\ run.pc \in {"inStage", "caught"} =>
            /\ run.snapshot.updatedAt <= doc.updatedAt
            /\ run.snapshot.updatedAt = doc.updatedAt => run.snapshot = Revision
            /\ run.accepted.updatedAt <= run.snapshot.updatedAt
  BY DEF AttemptKnown, Since
<1>3. ASSUME NEW f, SinkRecords(f)
      PROVE  Revision' # run.accepted
  <2>1. doc'.updatedAt = doc.updatedAt + 1
    BY <1>1, <1>3, FailedRowIs DEF SinkRecords
  <2> QED
    BY <1>1, <1>2, <2>1 DEF Revisions
<1>4. RunEnds(TRUE) => unrecorded'
  BY DEF RunEnds
<1>5. RunStep
  <2>1. CASE \E c \in Callers : StageStep(c)
    BY <2>1, ReturnsRested, ChannelsBeside DEF StageOver
  <2>2. CASE UserStep
    <3>1. StartAnalysis => run'.pc = "deferred"
      BY DEF StartAnalysis, OffRun
    <3> QED
      BY <2>2, <3>1 DEF UserStep, ChannelCall, TrashDocument, RestoreDocument, TrashMatter,
                        RestoreMatter, CreateManualMention, DocumentGet
  <2>3. CASE ClockStepsBack \/ ClockCatchesUp \/ Crash \/ Recover
    BY <2>3 DEF ClockStepsBack, ClockCatchesUp, Crash, Recover
  <2> QED
    BY <2>1, <2>2, <2>3 DEF Next
<1>6. CASE RetryPending
  <2>1. CASE run' = [run EXCEPT !.pc = "reading"]
    BY <1>1, <2>1 DEF Runs
  <2> QED
    BY <1>4, <1>6, <2>1 DEF RetryPending
<1>7. CASE RetryPendingFault \/ RecordStageFailureFault
  BY <1>4, <1>7 DEF RetryPendingFault, RecordStageFailureFault
<1>8. CASE AwaitLiveStage \/ RunStage
  <2>1. CASE AwaitLiveStage
    <3>1. run' = [run EXCEPT !.pc = "waiting", !.external = TRUE]
      BY <2>1 DEF AwaitLiveStage
    <3> QED
      BY <1>1, <3>1 DEF Runs
  <2>2. CASE RunStage
    <3>1. run' = [run EXCEPT !.pc = "inStage", !.stage = SelectAction,
                             !.snapshot = Revision, !.external = FALSE]
      BY <2>2 DEF RunStage
    <3> QED
      BY <1>1, <3>1 DEF Runs
  <2> QED
    BY <1>8, <2>1, <2>2
<1>9. CASE FinishRun
  <2>1. UNCHANGED <<doc, jobs>>
    BY <1>9 DEF FinishRun
  <2>2. Revision' = Revision /\ SelectAction' = SelectAction
    BY <2>1, RevisionKept DEF SelectAction, StatusFailedJob, StatusJobs, JobsOf, Latest
  <2>3. CASE ExternalFailure
    <3>1. Revision # run.accepted
      BY <1>1, <1>2, <2>3 DEF ExternalFailure, Revisions
    <3> QED
      BY <2>2, <3>1
  <2>4. CASE SelectAction \notin AnalysisStages
    <3>1. /\ SelectAction # "WAITING_FOR_LIVE_STAGE"
          /\ doc.status \in Statuses
          /\ StatusFailedJob # 0 => jobs[StatusFailedJob].type \in Stages
      <4>1. StatusFailedJob # 0 => jobs[StatusFailedJob].type \in Stages
        <5>1. DOMAIN jobs \in SUBSET Nat
          BY JobRowType DEF IInv
        <5>2. StatusJobs \subseteq DOMAIN jobs /\ StatusJobs \in SUBSET Nat
          BY <5>1, LatestIsGreatest DEF StatusJobs, JobsOf
        <5>3. StatusFailedJob # 0 => StatusFailedJob \in DOMAIN jobs
          BY <5>1, <5>2, LatestIsGreatest DEF StatusFailedJob
        <5> QED
          BY <5>3, JobRowType DEF IInv, JobRows
      <4> QED
        BY <1>1, <1>9, <4>1 DEF FinishRun, Documents
    <3>2. SelectAction \in {"ALREADY_ANALYZED", "SANITIZE_RETRY_OWNED"}
      BY <2>4, <3>1 DEF SelectAction, AnalysisStages, Stages, Statuses, LiveStatuses,
                        RestStatuses
    <3> QED
      BY <2>2, <3>2
  <2> QED
    BY <1>9, <2>3, <2>4 DEF FinishRun
<1>10. CASE StatusReadFault
  BY <1>3, <1>4, <1>10 DEF StatusReadFault
<1>11. CASE RecordStageFailure
  <2>1. CASE SinkAccepts(StageFailure)
    BY <1>3, <1>11, <2>1 DEF RecordStageFailure
  <2>2. CASE ~SinkAccepts(StageFailure) /\ Revision = run.snapshot
    BY <1>4, <1>11, <2>2 DEF RecordStageFailure
  <2>3. CASE ~SinkAccepts(StageFailure) /\ Revision # run.snapshot
    <3>1. run.pc = "caught" /\ UNCHANGED <<doc, jobs>>
      BY <1>11, <2>3 DEF RecordStageFailure
    <3>2. Revision' = Revision
      BY <3>1, RevisionKept
    <3>3. Revision # run.accepted
      <4> SUFFICES ASSUME Revision = run.accepted PROVE FALSE
        OBVIOUS
      <4>1. run.snapshot.updatedAt \in Nat
        BY <1>1 DEF Runs, Revisions
      <4>2. run.snapshot.updatedAt = doc.updatedAt
        BY <1>1, <1>2, <3>1, <4>1
      <4> QED
        BY <1>2, <2>3, <3>1, <4>2
    <3> QED
      BY <3>2, <3>3
  <2> QED
    BY <2>1, <2>2, <2>3
<1> QED
  BY <1>5, <1>6, <1>7, <1>8, <1>9, <1>10, <1>11 DEF RunStep

THEOREM AttemptInductive == Spec => [](IInv /\ Route /\ AttemptKnown)
<1>1. Init => AttemptKnown
  BY DEF Init, OffRun, AttemptKnown
<1> QED
  BY <1>1, RouteInductive, AttemptStep, PTL DEF Spec

\* No run ends unnoticed.
THEOREM EndIsSeen == Spec => TerminalSignal
<1>1. IInv /\ Route /\ AttemptKnown /\ [Next]_vars =>
          [run.pc # "off" /\ run'.pc = "off" /\ up' =>
              \/ unrecorded'
              \/ Revision' # run.accepted
              \/ SelectAction' \in {"ALREADY_ANALYZED", "SANITIZE_RETRY_OWNED"}]_vars
  BY EndLeavesSignal
<1> QED
  BY <1>1, AttemptInductive, PTL DEF Spec, TerminalSignal

(***************************************************************************)
(* Retries.  What the rule of the event loop gives: between two status     *)
(* reads of a run that does not wait, nobody else moves the row.           *)
(***************************************************************************)

\* A step of a call finds no other call, and no run, in charge of the loop.
LEMMA StepIsAlone ==
    ASSUME OneHolder, NEW c \in Callers, StageStep(c)
    PROVE  /\ \A d \in Callers : d # c => ~HoldsLoop(d)
           /\ run.pc \notin {"reading", "caught"}
<1>1. HoldsLoop(c) \/ EventLoopFree
  BY DEF StageStep
<1> QED
  BY <1>1 DEF OneHolder, EventLoopFree

\* A step of a call leaves the other calls alone.
LEMMA OthersBeside ==
    ASSUME IInv, NEW c \in Callers, StageStep(c), NEW d \in Callers, d # c
    PROVE  call'[d] = call[d]
<1>1. call \in [Callers -> Calls]
  BY DEF IInv, TypeOK
<1>2. ASSUME NEW owner, Thrown(c, owner)
      PROVE  call'[d] = call[d]
  BY <1>1, <1>2 DEF Thrown
<1>3. ASSUME NEW s, Returned(c, s)
      PROVE  call'[d] = call[d]
  BY <1>1, <1>3 DEF Returned
<1>4. CASE InspectSource(c) \/ BeginStage(c)
  BY <1>1, <1>2, <1>4 DEF InspectSource, BeginStage
<1>5. CASE ReuseResult(c) \/ StageCompletes(c)
  BY <1>3, <1>5 DEF ReuseResult, StageCompletes
<1>6. CASE SourceRejected(c) \/ RefuseStage(c) \/ BeginFault(c) \/ StageFails(c)
           \/ StageFailsOnCompleteFault(c) \/ StageAbandoned(c) \/ StageAbandonedOnFault(c)
  BY <1>2, <1>6 DEF SourceRejected, RefuseStage, BeginFault, StageFails,
                    StageFailsOnCompleteFault, StageAbandoned, StageAbandonedOnFault
<1> QED
  BY <1>4, <1>5, <1>6 DEF StageStep

LEMMA HolderStep == IInv /\ OneHolder /\ [Next]_vars => OneHolder'
<1> SUFFICES ASSUME IInv, OneHolder, [Next]_vars PROVE OneHolder'
  OBVIOUS
<1>1. /\ call \in [Callers -> Calls] /\ run \in Runs /\ Runner \in Callers
      /\ run'.pc \in {"reading", "caught"} => ~HoldsLoop(Runner)'
  <2>1. RunnerInStage'
    BY NextOwned DEF IInv
  <2> QED
    BY <2>1 DEF IInv, TypeOK, Callers, RunnerInStage, HoldsLoop
<1>2. ASSUME UNCHANGED call, run'.pc \in {"reading", "caught"} => \A c \in Callers : ~HoldsLoop(c)
      PROVE  OneHolder'
  BY <1>2 DEF OneHolder, HoldsLoop
<1>3. CASE UNCHANGED vars
  BY <1>2, <1>3 DEF vars, OneHolder
<1>4. ASSUME NEW c \in Callers, StageStep(c)
      PROVE  OneHolder'
  <2>1. \A d \in Callers : d # c => ~HoldsLoop(d)'
    BY <1>4, StepIsAlone, OthersBeside DEF HoldsLoop
  <2>2. run'.pc \in {"reading", "caught"} => c = Runner
    BY <1>4, StepIsAlone, ChannelsBeside
  <2>3. run'.pc \in {"reading", "caught"} => \A d \in Callers : ~HoldsLoop(d)'
    BY <1>1, <2>1, <2>2
  <2> QED
    BY <2>1, <2>3 DEF OneHolder
<1>5. CASE RunStep
  <2>1. CASE RunStage
    <3>1. \A d \in Callers : ~HoldsLoop(d)
      BY <2>1 DEF RunStage, Observing, EventLoopFree, OneHolder
    <3>2. call' = [call EXCEPT ![Runner] = Entered(SelectAction)]
      BY <2>1 DEF RunStage
    <3>3. \A d \in Callers : d # Runner => ~HoldsLoop(d)'
      BY <1>1, <3>1, <3>2 DEF HoldsLoop
    <3>4. run'.pc = "inStage"
      <4>1. run' = [run EXCEPT !.pc = "inStage", !.stage = SelectAction,
                               !.snapshot = Revision, !.external = FALSE]
        BY <2>1 DEF RunStage
      <4> QED
        BY <1>1, <4>1 DEF Runs
    <3> QED
      BY <3>3, <3>4 DEF OneHolder
  <2>2. CASE ~RunStage
    <3>1. UNCHANGED call
      BY <1>5, <2>2 DEF RunStep, AwaitLiveStage, FinishRun, StatusReadFault,
                        RecordStageFailure, RecordStageFailureFault
    <3>2. ASSUME run'.pc \in {"reading", "caught"}
          PROVE  \A d \in Callers : ~HoldsLoop(d)
      <4>1. PendingOver \/ run.pc = "caught"
        BY <1>5, <3>2, RunStepAttempt DEF Deferring, EntersStage
      <4>2. CASE run.pc = "caught"
        BY <4>2 DEF OneHolder
      <4>3. CASE PendingOver
        <5>1. RetryPending \/ RetryPendingFault
          BY <1>5, <4>3 DEF RunStep, PendingOver, AwaitLiveStage, FinishRun, RunStage,
                            StatusReadFault, RecordStageFailure, RecordStageFailureFault,
                            Observing
        <5> QED
          BY <5>1 DEF RetryPending, RetryPendingFault, EventLoopFree
      <4> QED
        BY <4>1, <4>2, <4>3
    <3> QED
      BY <1>2, <3>1, <3>2
  <2> QED
    BY <2>1, <2>2
<1>6. CASE UserStep
  <2>1. CASE \E c \in Channels, s \in Stages : ChannelCall(c, s)
    <3>1. PICK c \in Channels, s \in Stages : ChannelCall(c, s)
      BY <2>1
    <3>2. EventLoopFree /\ UNCHANGED run /\ call' = [call EXCEPT ![c] = Entered(s)]
      BY <3>1 DEF ChannelCall, Request
    <3>3. \A d \in Callers : d # c => ~HoldsLoop(d)'
      BY <1>1, <3>2 DEF EventLoopFree, HoldsLoop
    <3> QED
      BY <3>2, <3>3 DEF OneHolder, EventLoopFree
  <2>2. CASE StartAnalysis
    <3>1. run'.pc = "deferred" /\ UNCHANGED call
      BY <2>2 DEF StartAnalysis, OffRun
    <3> QED
      BY <1>2, <3>1
  <2>3. CASE ~StartAnalysis /\ ~\E c \in Channels, s \in Stages : ChannelCall(c, s)
    <3>1. UNCHANGED <<call, run>>
      BY <1>6, <2>3 DEF UserStep, TrashDocument, RestoreDocument, TrashMatter, RestoreMatter,
                        CreateManualMention, DocumentGet
    <3> QED
      BY <1>2, <3>1 DEF OneHolder
  <2> QED
    BY <2>1, <2>2, <2>3
<1>7. CASE ClockStepsBack \/ ClockCatchesUp \/ Recover
  BY <1>2, <1>7 DEF ClockStepsBack, ClockCatchesUp, Recover, OneHolder
<1>8. CASE Crash
  <2>1. call' = [c \in Callers |-> IdleCall] /\ run'.pc = "off"
    BY <1>8 DEF Crash, OffRun
  <2> QED
    BY <2>1 DEF OneHolder, HoldsLoop, IdleCall
<1> QED
  BY <1>3, <1>4, <1>5, <1>6, <1>7, <1>8 DEF Next

\* While a run is between a stage and its next status read, no step that
\* leaves the run alone moves the row.
LEMMA ReadingIsQuiet ==
    ASSUME IInv, OneHolder, Next, run.pc = "reading", UNCHANGED run
    PROVE  UNCHANGED doc
<1>1. ~EventLoopFree /\ up
  BY DEF EventLoopFree, IInv, DownForgets
<1>2. ~UserStep
  BY <1>1 DEF UserStep, StartAnalysis, ChannelCall, TrashDocument, RestoreDocument,
              TrashMatter, RestoreMatter, CreateManualMention, DocumentGet, Request
<1>3. ~\E c \in Callers : StageStep(c)
  BY StepIsAlone
<1>4. CASE RunStep
  BY <1>4, RunStepAttempt DEF PendingOver, Deferring, EntersStage
<1>5. CASE ClockStepsBack \/ ClockCatchesUp \/ Crash
  BY <1>5 DEF ClockStepsBack, ClockCatchesUp, Crash
<1> QED
  BY <1>1, <1>2, <1>3, <1>4, <1>5 DEF Next, Recover

LEMMA RetryStep == IInv /\ OneHolder /\ RetryIsFirst /\ [Next]_vars => RetryIsFirst'
<1> SUFFICES ASSUME IInv, OneHolder, RetryIsFirst, [Next]_vars PROVE RetryIsFirst'
  OBVIOUS
<1>1. CASE UNCHANGED vars
  BY <1>1 DEF vars, RetryIsFirst
<1>2. CASE Next /\ UNCHANGED run
  <2>1. run.pc = "reading" => UNCHANGED doc
    BY <1>2, ReadingIsQuiet
  <2> QED
    BY <1>2, <2>1 DEF RetryIsFirst
<1>3. CASE run'.pc = "off"
  BY <1>3 DEF RetryIsFirst
<1>4. CASE RunAccepted \/ StageOver \/ PendingOver \/ Deferring \/ EntersStage
  <2>1. CASE RunAccepted
    BY <2>1 DEF RunAccepted, RetryIsFirst
  <2>2. CASE StageOver
    BY <2>2 DEF StageOver, RetryIsFirst
  <2>3. CASE PendingOver
    BY <2>3 DEF PendingOver, RetryIsFirst
  <2>4. CASE Deferring
    BY <2>4 DEF Deferring, RetryIsFirst
  <2>5. CASE EntersStage
    BY <2>5 DEF EntersStage, RetryIsFirst
  <2> QED
    BY <1>4, <2>1, <2>2, <2>3, <2>4, <2>5
<1> QED
  BY <1>1, <1>2, <1>3, <1>4, RunKinds

\* An attempt never retries a failure by itself.
THEOREM RetryIsAsked == Spec => NoSilentRetry
<1>1. Init => OneHolder /\ RetryIsFirst
  BY DEF Init, OffRun, IdleCall, OneHolder, RetryIsFirst, HoldsLoop
<1>2. IInv /\ OneHolder /\ RetryIsFirst /\ [Next]_vars =>
          [run.pc # "inStage" /\ run'.pc = "inStage" /\ doc.status = "FAILED" =>
              run.ran = 0 /\ run.pc # "waiting"]_vars
  <2> SUFFICES ASSUME IInv, OneHolder, RetryIsFirst, Next,
                      run.pc # "inStage", run'.pc = "inStage", doc.status = "FAILED"
               PROVE  run.ran = 0 /\ run.pc # "waiting"
    OBVIOUS
  <2>1. EntersStage
    BY RunKinds DEF RunAccepted, StageOver, PendingOver, Deferring
  <2>2. ~run.external
    BY <2>1 DEF EntersStage, ExternalFailure
  <2>3. run.ran \in Nat
    BY DEF IInv, TypeOK, Runs
  <2> QED
    BY <2>1, <2>2, <2>3 DEF EntersStage, RetryIsFirst
<1> QED
  BY <1>1, <1>2, Inductive, HolderStep, RetryStep, PTL DEF Spec, NoSilentRetry

(***************************************************************************)
(* Owners.  With a clock that does not step back, and channels that can    *)
(* record their own failures, the sink accepts every claim, so that no     *)
(* stage stays live without somebody behind it.                            *)
(***************************************************************************)

\* The sink never refuses the claim of an abandoned stage.
LEMMA ClaimAccepted ==
    ASSUME IInv, ~clockBehind, NEW f \in FailureInputs, f.owner.held,
           f \in pending \/ (run.pc = "caught" /\ f = StageFailure),
           f.stage = "PARSE" => f.owner.job = 0
    PROVE  SinkAccepts(f)
<1>1. /\ f.stage # "ANY" /\ doc.status = Live[f.stage]
      /\ \A i \in DOMAIN jobs : jobs[i].status = "RUNNING" => f.owner.job = i
  BY ClaimHolds
<1>2. f.stage \in Stages /\ SinkStage(f) = f.stage
  BY <1>1 DEF FailureInputs, AnalysisStages, SinkStage
<1>3. Available
  BY <1>1, <1>2, LiveStatus DEF IInv, LiveAvailable
<1>4. ASSUME f.owner.job # 0
      PROVE  /\ f.owner.job \in DOMAIN jobs
             /\ jobs[f.owner.job] = [type |-> f.stage, status |-> "RUNNING"]
  <2>1. f.stage # "PARSE"
    BY <1>4
  <2>2. doc.status \in {"DETECTING", "RESOLVING", "SANITIZING"}
    BY <1>1, <1>2, <2>1 DEF Stages, Live
  <2>3. PICK i \in DOMAIN jobs : jobs[i].status = "RUNNING"
    BY <2>2 DEF IInv, LiveHasJob
  <2>4. f.owner.job = i /\ doc.status = Live[jobs[i].type]
    BY <1>1, <2>3 DEF IInv, RunningHeld, HeldJob
  <2>5. jobs[i] \in JobRows /\ jobs[i].type = f.stage
    BY <1>1, <1>2, <2>4, JobRowType, LiveInjective DEF IInv, JobRows
  <2> QED
    BY <2>3, <2>4, <2>5 DEF JobRows
<1> QED
  BY <1>1, <1>2, <1>3, <1>4 DEF SinkAccepts, OwnerAccepts

LiveHeld ==
    \/ \E c \in Callers : Working(c)
    \/ run.pc = "caught" /\ run.owner.held
    \/ \E f \in pending : f.owner.held

\* The part of Attended that a step must find again.
ClaimsKept ==
    /\ run.pc \notin {"off", "deferred"} => pending = {}
    /\ \A c \in Callers : Working(c) /\ call[c].stage = "PARSE" => call[c].job = 0
    /\ run.pc = "caught" /\ run.owner.held /\ run.stage = "PARSE" => run.owner.job = 0
    /\ \A f \in pending : f.owner.held /\ f.stage = "PARSE" => f.owner.job = 0
    /\ up /\ doc.status \in LiveStatuses => LiveHeld

\* A call that returns, or throws without a claim, takes no claim with it.
LEMMA LeavingKeeps ==
    ASSUME IInv, Attended, NEW c \in Callers, StageStep(c), call[c].pc # "idle",
           Thrown(c, NoOwner) \/ (\E s \in Stages : Returned(c, s)),
           \/ doc'.status \notin LiveStatuses
           \/ UNCHANGED doc /\ ~Working(c) /\ (Thrown(c, NoOwner) \/ doc.status \notin LiveStatuses)
    PROVE  ClaimsKept'
<1>1. call \in [Callers -> Calls] /\ run \in Runs /\ pending' \subseteq pending
      /\ call' = [call EXCEPT ![c] = IdleCall]
  BY DEF IInv, TypeOK, Thrown, Returned
<1>2. \A d \in Callers : Working(d)' => Working(d) /\ call'[d] = call[d]
  BY <1>1 DEF Working, IdleCall
<1>3. run' = run \/ ~CaughtHeld'
  BY <1>1, NoClaim
<1>4. run'.pc \notin {"off", "deferred"} => pending' = {}
  <2>1. run' = run \/ (run.pc = "inStage" /\ c = Runner)
    <3>1. c # Runner => run' = run
      BY ChannelsBeside
    <3>2. c = Runner => run.pc = "inStage"
      BY DEF IInv, RunnerInStage
    <3> QED
      BY <3>1, <3>2
  <2> QED
    BY <1>1, <2>1 DEF Attended
<1>5. ASSUME doc'.status \in LiveStatuses
      PROVE  LiveHeld'
  <2>1. UNCHANGED doc /\ ~Working(c) /\ Thrown(c, NoOwner) /\ doc.status \in LiveStatuses
    BY <1>5
  <2>2. pending' = pending
    BY <2>1 DEF Thrown
  <2>3. LiveHeld /\ up
    <3>1. up
      BY DEF IInv, DownForgets
    <3> QED
      BY <2>1, <3>1 DEF Attended, LiveHeld
  <2>4. CASE \E d \in Callers : Working(d)
    <3>1. PICK d \in Callers : Working(d)
      BY <2>4
    <3>2. call'[d] = call[d]
      BY <1>1, <2>1, <3>1
    <3> QED
      BY <3>1, <3>2 DEF LiveHeld, Working
  <2>5. CASE CaughtHeld
    <3>1. c # Runner
      BY <2>5 DEF CaughtHeld, IInv, RunnerInStage
    <3>2. run' = run
      BY <3>1, ChannelsBeside
    <3> QED
      BY <2>5, <3>2 DEF CaughtHeld, LiveHeld
  <2> QED
    BY <2>2, <2>3, <2>4, <2>5 DEF LiveHeld, CaughtHeld
<1> QED
  BY <1>1, <1>2, <1>3, <1>4, <1>5 DEF ClaimsKept, Attended, CaughtHeld

NoOrphans == \A s \in Stages : <<s, "orphan">> \notin Failures

LEMMA StageStepAttended ==
    ASSUME IInv, Attended, NoOrphans, NEW c \in Callers, StageStep(c)
    PROVE  ClaimsKept'
<1>1. /\ call \in [Callers -> Calls] /\ run \in Runs /\ call[c].stage \in Stages
      /\ UNCHANGED <<matterDeleted, up>>
  BY DEF IInv, TypeOK, Calls, StageStep
<1>2. doc \in Documents /\ FailedRow(call[c].stage).status = "FAILED"
  BY <1>1 DEF IInv, TypeOK, FailedRow, Stamped, Documents
<1>3. CASE InspectSource(c)
  <2>1. CASE Available
    <3>1. /\ call' = [call EXCEPT ![c].pc = "source"] /\ call[c].pc = "entered"
          /\ UNCHANGED <<doc, jobs, run, pending>>
      BY <1>3, <2>1 DEF InspectSource, Entered
    <3>2. \A d \in Callers : /\ Working(d)' <=> Working(d)
                             /\ Working(d) => call'[d] = call[d]
      BY <1>1, <3>1 DEF Working, Calls
    <3> QED
      BY <1>1, <3>1, <3>2 DEF ClaimsKept, LiveHeld, Attended
  <2>2. CASE ~Available
    BY <1>3, <2>2, LeavingKeeps DEF InspectSource, Entered, Working
  <2> QED
    BY <2>1, <2>2
<1>4. CASE SourceRejected(c)
  BY <1>4, LeavingKeeps DEF SourceRejected, Working
<1>5. CASE ReuseResult(c)
  <2>1. doc.status \notin LiveStatuses
    BY <1>1, <1>5, RestStatus DEF ReuseResult, AlreadyDone
  <2> QED
    BY <1>1, <1>5, <2>1, LeavingKeeps DEF ReuseResult, Working
<1>6. CASE RefuseStage(c) \/ BeginFault(c)
  BY <1>6, LeavingKeeps DEF RefuseStage, BeginFault, Beginning, Working
<1>7. CASE BeginStage(c)
  <2> DEFINE job == IF call[c].stage = "PARSE" THEN 0 ELSE Len(jobs) + 1
  <2>1. /\ call' = [call EXCEPT ![c].pc = "working", ![c].job = job]
        /\ UNCHANGED <<run, pending>>
    BY <1>7 DEF BeginStage
  <2>2. Working(c)' /\ call'[c].stage = call[c].stage /\ call'[c].job = job
    BY <1>1, <2>1 DEF Working, Calls
  <2>3. \A d \in Callers : d # c => call'[d] = call[d]
    BY <1>1, <2>1
  <2>4. \A d \in Callers : Working(d)' /\ call'[d].stage = "PARSE" => call'[d].job = 0
    BY <2>2, <2>3 DEF Attended, Working
  <2> QED
    BY <2>1, <2>2, <2>4 DEF ClaimsKept, LiveHeld, Attended
<1>8. CASE StageCompletes(c)
  <2>1. doc'.status \notin LiveStatuses
    BY <1>1, <1>8, CompletesNow, RestStatus DEF CompletedNow
  <2> QED
    BY <1>1, <1>8, <2>1, LeavingKeeps DEF StageCompletes, Working
<1>9. CASE StageFails(c) \/ StageFailsOnCompleteFault(c)
  <2>1. doc'.status \notin LiveStatuses
    BY <1>2, <1>9, RestStatus DEF StageFails, StageFailsOnCompleteFault
  <2> QED
    BY <1>9, <2>1, LeavingKeeps DEF StageFails, StageFailsOnCompleteFault, Working
<1>10. CASE StageAbandoned(c)
  <2>1. FinishAccepts(c)
    BY <1>10 DEF StageAbandoned, FinishAccepts, Attended, IInv, CallsOwn, WorkerOwns
  <2> QED
    BY <1>10, <2>1 DEF StageAbandoned
<1>11. CASE StageAbandonedOnFault(c)
  <2>1. c = Runner
    BY <1>1, <1>11 DEF StageAbandonedOnFault, Fault, NoOrphans
  <2>2. run.pc = "inStage" /\ run.stage = call[c].stage /\ Working(c)
    BY <1>11, <2>1 DEF StageAbandonedOnFault, Working, IInv, RunnerInStage
  <2>3. run' = [run EXCEPT !.pc = "caught", !.owner = [held |-> TRUE, job |-> call[c].job]]
    BY <1>11, <2>1 DEF StageAbandonedOnFault, Thrown
  <2>4. /\ run'.pc = "caught" /\ run'.owner.held /\ run'.owner.job = call[c].job
        /\ run'.stage = call[c].stage
    BY <1>1, <2>2, <2>3 DEF Runs
  <2>5. pending' = pending /\ call' = [call EXCEPT ![c] = IdleCall]
    BY <1>11 DEF StageAbandonedOnFault, Thrown
  <2>6. \A d \in Callers : Working(d)' => Working(d) /\ call'[d] = call[d]
    BY <1>1, <2>5 DEF Working, IdleCall
  <2> QED
    BY <2>2, <2>4, <2>5, <2>6 DEF ClaimsKept, LiveHeld, Attended
<1> QED
  BY <1>3, <1>4, <1>5, <1>6, <1>7, <1>8, <1>9, <1>10, <1>11 DEF StageStep

LEMMA RunStepAttended ==
    ASSUME IInv, Attended, RunStep
    PROVE  ClaimsKept'
<1>1. /\ run \in Runs /\ pending \subseteq FailureInputs /\ doc \in Documents
      /\ StageFailure \in FailureInputs /\ Runner \in Callers
      /\ call \in [Callers -> Calls]
      /\ \A f, g \in pending : f = g
  BY FailureInputType DEF IInv, TypeOK, Callers
<1>2. \A reported : RunEnds(reported) => run'.pc = "off"
  BY DEF RunEnds, OffRun
<1>3. ASSUME NEW f, SinkRecords(f)
      PROVE  doc'.status \notin LiveStatuses
  BY <1>1, <1>3, FailedRowIs, RestStatus DEF SinkRecords
<1>4. ASSUME UNCHANGED call, pending' = {}, run'.pc # "caught",
             \/ doc'.status \notin LiveStatuses
             \/ UNCHANGED <<doc, up>> /\ ~CaughtHeld /\ \A f \in pending : ~f.owner.held
      PROVE  ClaimsKept'
  BY <1>4 DEF ClaimsKept, LiveHeld, Attended, Working, CaughtHeld
<1>5. ASSUME UNCHANGED <<call, pending, doc, up>>, run'.pc = "off", run.pc # "caught"
      PROVE  ClaimsKept'
  BY <1>5 DEF ClaimsKept, LiveHeld, Attended, Working
<1>6. ASSUME NEW f \in pending, f.owner.held
      PROVE  SinkAccepts(f)
  BY <1>1, <1>6, ClaimAccepted DEF Attended
<1>7. ASSUME CaughtHeld
      PROVE  SinkAccepts(StageFailure)
  BY <1>1, <1>7, ClaimAccepted DEF Attended, CaughtHeld, StageFailure
<1>8. up' = up
  BY DEF RunStep
<1>9. CASE RetryPending /\ UNCHANGED call
  <2>1. run.pc = "deferred"
    BY <1>9 DEF RetryPending
  <2>2. CASE RunEnds(TRUE) /\ UNCHANGED <<doc, jobs, pending>>
    BY <1>2, <1>5, <1>8, <1>9, <2>1, <2>2
  <2>3. CASE pending' = {} /\ run' = [run EXCEPT !.pc = "reading"]
    <3>1. run'.pc = "reading"
      BY <1>1, <2>3 DEF Runs
    <3>2. CASE \E f \in pending : SinkAccepts(f) /\ SinkRecords(f)
      BY <1>3, <1>4, <1>9, <2>3, <3>1, <3>2
    <3>3. CASE (\A f \in pending : ~SinkAccepts(f)) /\ UNCHANGED <<doc, jobs>>
      BY <1>4, <1>6, <1>8, <1>9, <2>1, <2>3, <3>1, <3>3 DEF CaughtHeld
    <3> QED
      BY <1>9, <2>1, <2>3, <3>1, <3>2, <3>3, <1>2 DEF RetryPending
  <2> QED
    BY <1>9, <2>2, <2>3 DEF RetryPending
<1>10. CASE RetryPendingFault /\ UNCHANGED call
  BY <1>2, <1>5, <1>8, <1>10 DEF RetryPendingFault
<1>11. ASSUME Observing
       PROVE  pending = {} /\ ~CaughtHeld /\ run.pc # "caught"
  BY <1>11 DEF Observing, Attended, CaughtHeld
<1>12. CASE AwaitLiveStage
  <2>1. run' = [run EXCEPT !.pc = "waiting", !.external = TRUE]
    BY <1>12 DEF AwaitLiveStage
  <2>2. run'.pc = "waiting"
    BY <1>1, <2>1 DEF Runs
  <2> QED
    BY <1>4, <1>8, <1>11, <1>12, <2>2 DEF AwaitLiveStage
<1>13. CASE FinishRun
  BY <1>2, <1>5, <1>8, <1>11, <1>13 DEF FinishRun
<1>14. CASE RunStage
  <2>1. run' = [run EXCEPT !.pc = "inStage", !.stage = SelectAction,
                           !.snapshot = Revision, !.external = FALSE]
    BY <1>14 DEF RunStage
  <2>2. run'.pc = "inStage"
    BY <1>1, <2>1 DEF Runs
  <2>3. call' = [call EXCEPT ![Runner] = Entered(SelectAction)]
        /\ UNCHANGED <<doc, pending>>
    BY <1>14 DEF RunStage
  <2>4. ~Working(Runner)
    BY <1>14 DEF RunStage, Observing, Working, IInv, RunnerInStage
  <2>5. \A d \in Callers : /\ Working(d)' <=> Working(d)
                           /\ Working(d) => call'[d] = call[d]
    BY <1>1, <2>3, <2>4 DEF Working, Entered
  <2> QED
    BY <1>8, <1>11, <1>14, <2>2, <2>3, <2>5
       DEF RunStage, ClaimsKept, LiveHeld, Attended, CaughtHeld
<1>15. CASE StatusReadFault
  <2>1. UNCHANGED call /\ pending = {} /\ ~CaughtHeld
    BY <1>11, <1>15 DEF StatusReadFault
  <2>2. CASE SinkRecords(NoFailure) /\ pending' = {} /\ RunEnds(FALSE)
    BY <1>2, <1>3, <1>4, <2>1, <2>2
  <2>3. CASE pending' = {NoFailure} /\ RunEnds(TRUE) /\ UNCHANGED <<doc, jobs>>
    <3>1. ~NoFailure.owner.held /\ run'.pc = "off"
      BY <1>2, <2>3 DEF NoFailure, NoOwner
    <3>2. up /\ doc.status \in LiveStatuses => \E d \in Callers : Working(d)
      BY <2>1 DEF Attended, CaughtHeld
    <3> QED
      BY <1>8, <2>1, <2>3, <3>1, <3>2 DEF ClaimsKept, LiveHeld, Attended, Working
  <2> QED
    BY <1>15, <2>2, <2>3 DEF StatusReadFault
<1>16. CASE RecordStageFailure
  <2>1. UNCHANGED call /\ pending = {} /\ run.pc = "caught"
    BY <1>16 DEF RecordStageFailure, Attended
  <2>2. CASE SinkAccepts(StageFailure)
    BY <1>2, <1>3, <1>4, <1>16, <2>1, <2>2 DEF RecordStageFailure
  <2>3. CASE ~SinkAccepts(StageFailure)
    <3>1. ~CaughtHeld /\ ~run.owner.held /\ UNCHANGED <<doc, jobs>>
      BY <1>7, <1>16, <2>1, <2>3 DEF RecordStageFailure, CaughtHeld
    <3>2. CASE pending' = {StageFailure} /\ RunEnds(TRUE)
      <4>1. ~StageFailure.owner.held /\ run'.pc = "off"
        BY <1>2, <3>1, <3>2 DEF StageFailure
      <4>2. up /\ doc.status \in LiveStatuses => \E d \in Callers : Working(d)
        BY <2>1, <3>1 DEF Attended, CaughtHeld
      <4> QED
        BY <1>8, <2>1, <3>1, <3>2, <4>1, <4>2 DEF ClaimsKept, LiveHeld, Attended, Working
    <3>3. CASE pending' = {} /\ RunEnds(FALSE)
      BY <1>2, <1>4, <1>8, <2>1, <3>1, <3>3
    <3>4. CASE /\ pending' = {}
               /\ run' = [run EXCEPT !.pc = "reading", !.external = TRUE, !.owner = NoOwner]
      <4>1. run'.pc = "reading"
        BY <1>1, <3>4 DEF Runs
      <4> QED
        BY <1>4, <1>8, <2>1, <3>1, <3>4, <4>1
    <3> QED
      BY <1>16, <2>3, <3>2, <3>3, <3>4 DEF RecordStageFailure
  <2> QED
    BY <2>2, <2>3
<1>17. CASE RecordStageFailureFault
  <2>1. /\ UNCHANGED <<doc, call>> /\ pending = {} /\ run.pc = "caught"
        /\ pending' = {StageFailure} /\ run'.pc = "off"
    BY <1>2, <1>17 DEF RecordStageFailureFault, Attended
  <2>2. StageFailure.owner = run.owner /\ StageFailure.stage = run.stage
    BY DEF StageFailure
  <2> QED
    BY <1>8, <2>1, <2>2 DEF ClaimsKept, LiveHeld, Attended, Working
<1> QED
  BY <1>9, <1>10, <1>12, <1>13, <1>14, <1>15, <1>16, <1>17 DEF RunStep

LEMMA UserStepAttended ==
    ASSUME IInv, Attended, UserStep
    PROVE  ClaimsKept'
<1>1. doc \in Documents /\ call \in [Callers -> Calls]
  BY DEF IInv, TypeOK
<1>2. doc'.status = doc.status /\ up' = up
  <2>1. doc'.status = doc.status
    BY UserStepQuiet DEF Quiet
  <2> QED
    BY <2>1 DEF UserStep, StartAnalysis, ChannelCall, TrashDocument, RestoreDocument,
                TrashMatter, RestoreMatter, CreateManualMention, DocumentGet
<1>3. ASSUME UNCHANGED <<call, run, pending>>
      PROVE  ClaimsKept'
  BY <1>2, <1>3 DEF ClaimsKept, LiveHeld, Attended, Working
<1>4. ASSUME UNCHANGED <<call, run>>, pending' = {}, doc.status \notin LiveStatuses
      PROVE  ClaimsKept'
  BY <1>2, <1>4 DEF ClaimsKept, LiveHeld, Attended, Working
<1>5. CASE StartAnalysis
  <2>1. run'.pc = "deferred" /\ run.pc = "off" /\ UNCHANGED <<call, pending>>
    BY <1>5 DEF StartAnalysis, OffRun
  <2> QED
    BY <1>2, <2>1 DEF ClaimsKept, LiveHeld, Attended, Working
<1>6. CASE \E c \in Channels, s \in Stages : ChannelCall(c, s)
  <2>1. PICK c \in Channels, s \in Stages : ChannelCall(c, s)
    BY <1>6
  <2>2. /\ call[c].pc = "idle" /\ call' = [call EXCEPT ![c] = Entered(s)] /\ c \in Callers
        /\ UNCHANGED <<run, pending>>
    BY <2>1 DEF ChannelCall, Callers
  <2>3. \A d \in Callers : /\ Working(d)' <=> Working(d)
                           /\ Working(d) => call'[d] = call[d]
    BY <1>1, <2>2 DEF Working, Entered
  <2> QED
    BY <1>2, <2>2, <2>3 DEF ClaimsKept, LiveHeld, Attended
<1>7. CASE TrashDocument \/ TrashMatter
  BY <1>4, <1>7 DEF TrashDocument, TrashMatter, Idle, ClearFailure
<1>8. CASE DocumentGet
  BY <1>4, <1>8 DEF DocumentGet, ClearFailure, LiveStatuses
<1>9. CASE RestoreDocument \/ RestoreMatter \/ CreateManualMention
  BY <1>3, <1>9 DEF RestoreDocument, RestoreMatter, CreateManualMention
<1> QED
  BY <1>5, <1>6, <1>7, <1>8, <1>9 DEF UserStep

LEMMA AttendedStep == IInv /\ Attended /\ NoOrphans /\ [Next]_vars => Attended'
<1> SUFFICES ASSUME IInv, Attended, NoOrphans, [Next]_vars PROVE Attended'
  OBVIOUS
<1>1. ~clockBehind' /\ budget'.clockSteps = 0
  <2>1. budget \in Budgets /\ budget.clockSteps = 0 /\ ~clockBehind
    BY DEF IInv, TypeOK, Attended
  <2>2. SpendFault \/ Request => budget'.clockSteps = 0
    BY <2>1 DEF SpendFault, Request, Budgets
  <2>3. CASE UNCHANGED vars
    BY <2>1, <2>3 DEF vars
  <2>4. ASSUME NEW c \in Callers, StageStep(c)
        PROVE  UNCHANGED clockBehind /\ (SpendFault \/ UNCHANGED budget)
    BY <2>4 DEF StageStep, InspectSource, SourceRejected, ReuseResult, BeginStage, RefuseStage,
                BeginFault, StageCompletes, StageFails, StageFailsOnCompleteFault,
                StageAbandoned, StageAbandonedOnFault
  <2>5. CASE RunStep
    BY <2>1, <2>2, <2>5 DEF RunStep, RetryPending, RetryPendingFault, AwaitLiveStage, FinishRun,
                RunStage, StatusReadFault, RecordStageFailure, RecordStageFailureFault
  <2>6. CASE UserStep
    BY <2>1, <2>2, <2>6 DEF UserStep, StartAnalysis, ChannelCall, TrashDocument,
                RestoreDocument, TrashMatter, RestoreMatter, CreateManualMention, DocumentGet
  <2>7. CASE ClockStepsBack \/ ClockCatchesUp \/ Recover
    BY <2>1, <2>7 DEF ClockStepsBack, ClockCatchesUp, Recover
  <2>8. CASE Crash
    BY <2>1, <2>8 DEF Crash, Budgets
  <2> QED
    BY <2>1, <2>2, <2>3, <2>4, <2>5, <2>6, <2>7, <2>8 DEF Next
<1>2. ClaimsKept'
  <2>1. CASE UNCHANGED vars \/ ClockStepsBack \/ ClockCatchesUp
    <3>1. UNCHANGED <<doc, call, run, pending, up>>
      BY <2>1 DEF vars, ClockStepsBack, ClockCatchesUp
    <3> QED
      BY <3>1 DEF ClaimsKept, LiveHeld, Attended, Working
  <2>2. CASE Crash
    <3>1. /\ call' = [c \in Callers |-> IdleCall] /\ run'.pc = "off" /\ pending' = {}
          /\ up' = FALSE
      BY <2>2 DEF Crash, OffRun, ClearFailure
    <3> QED
      BY <3>1 DEF ClaimsKept, Working, IdleCall
  <2>3. CASE Recover
    <3>1. doc'.status \notin LiveStatuses
      BY <2>3, RestStatus DEF Recover, IInv, TypeOK, Documents
    <3> QED
      BY <2>3, <3>1 DEF Recover, ClaimsKept, Attended, Working
  <2> QED
    BY <2>1, <2>2, <2>3, StageStepAttended, RunStepAttended, UserStepAttended DEF Next
<1> QED
  BY <1>1, <1>2 DEF Attended, ClaimsKept, LiveHeld

\* With a clock that does not step back and channels that record their own
\* failures, no stage stays live in the database with nobody behind it.
THEOREM NobodyStranded ==
    ASSUME MaxClockSteps = 0, NoOrphans
    PROVE  Spec => []LiveHasOwner
<1>1. Init => Attended
  BY DEF Init, Attended, OffRun, IdleCall, Working, LiveStatuses
<1>2. IInv /\ Attended /\ [Next]_vars => Attended'
  BY AttendedStep
<1>3. Attended => LiveHasOwner
  BY DEF Attended, LiveHasOwner
<1> QED
  BY <1>1, <1>2, <1>3, Inductive, PTL DEF Spec

=============================================================================
