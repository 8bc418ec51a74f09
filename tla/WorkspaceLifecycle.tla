------------------------- MODULE WorkspaceLifecycle -------------------------
(***************************************************************************)
(* Matters and their Documents outside the pipeline: import, trash,        *)
(* restore and replacement (DocumentImportService,                         *)
(* DocumentReplacementService, WorkspaceLifecycleService and their IPC     *)
(* handlers), with the audit log they append to.  An import or replacement *)
(* waits twice, for the file picker and for the inspection of the chosen   *)
(* file, and everything may happen meanwhile.                              *)
(*                                                                         *)
(* The pipeline of each Document is reduced to what these operations see   *)
(* of it: a reservation of the runner, a live stage, an AI execution.  The *)
(* two partial unique indexes of the documents table are left out: the     *)
(* invariants below show that no transaction ever relies on them.          *)
(***************************************************************************)
EXTENDS Naturals, Sequences

CONSTANTS
    Matters,        \* the Matters, created before
    Hashes,         \* contents of files
    Operations,     \* concurrent document:pickAndImport / pickAndReplace calls
    MaxRequests,    \* bound: user requests
    MaxCrashes      \* bound: process deaths

ASSUME BoundsAssumption == MaxRequests \in Nat /\ MaxCrashes \in Nat

VARIABLES
    matter,     \* the status of each Matter (ARCHIVED is never written)
    docs,       \* the documents rows, oldest first; a row's id is its position
    runs,       \* the Documents reserved by DocumentAnalysisRunner
    op,         \* the import or replacement each caller has in progress
    log,        \* the workspace_events rows, oldest first
    up,         \* the process is running
    budget      \* what is left of the bounds above

vars == <<matter, docs, runs, op, log, up, budget>>

\* trashed: deleted_at is set; supersedes: 0 when NULL; phase: "live" in
\* PARSING .. SANITIZING, "sanitized", or "rest" in any other status; ai: the
\* number of RUNNING executions of its sanitized artifact.
DocumentRows == [matter: Matters, hash: Hashes, trashed: BOOLEAN,
                 supersedes: Nat, phase: {"rest", "live", "sanitized"}, ai: Nat]

EventRows ==
    [type: {"MATTER_TRASHED", "MATTER_RESTORED"}, matter: Matters]
        \cup [type: {"DOCUMENT_TRASHED", "DOCUMENT_RESTORED"}, document: Nat]
        \cup [type: {"DOCUMENT_REPLACED"}, document: Nat, superseded: Nat]

\* A caller waits for the picker or for the inspection of the file.
Ops == [pc: {"idle"}]
           \cup [pc: {"pickingImport"}, matter: Matters]
           \cup [pc: {"inspectingImport"}, matter: Matters, hash: Hashes]
           \cup [pc: {"pickingReplacement"}, target: Nat]
           \cup [pc: {"inspectingReplacement"}, target: Nat, hash: Hashes]
IdleOp == [pc |-> "idle"]

TypeOK ==
    /\ matter \in [Matters -> {"ACTIVE", "DELETED"}]
    /\ docs \in Seq(DocumentRows)
    /\ runs \subseteq DOMAIN docs
    /\ op \in [Operations -> Ops]
    /\ \A o \in Operations :
          op[o].pc \in {"pickingReplacement", "inspectingReplacement"} =>
              op[o].target \in DOMAIN docs
    /\ log \in Seq(EventRows)
    /\ up \in BOOLEAN
    /\ budget \in [requests: Nat, crashes: Nat]

-----------------------------------------------------------------------------
(* Reads of the tables.                                                    *)

\* Neither the Document nor its Matter is in the trash: what every user-facing
\* read and every stage requires.
Visible(d) == ~docs[d].trashed /\ matter[docs[d].matter] = "ACTIVE"

\* assertDocumentIdle; a RUNNING or PENDING job never exists without a live
\* stage (RunningJobsMatch of DocumentAnalysis).
IdleWork(d) == docs[d].phase # "live" /\ docs[d].ai = 0

\* The active Documents of Matter m with content h.
ActiveWith(m, h) ==
    {d \in DOMAIN docs : docs[d].matter = m /\ docs[d].hash = h /\ ~docs[d].trashed}

\* Mutant: a replacement that went to the trash does not count.
VisibleSuccessors(d) == {e \in DOMAIN docs : docs[e].supersedes = d /\ Visible(e)}

Successors(d) == {e \in DOMAIN docs : docs[e].supersedes = d}

Imported(m, h, old) == [matter |-> m, hash |-> h, trashed |-> FALSE,
                        supersedes |-> old, phase |-> "rest", ai |-> 0]

-----------------------------------------------------------------------------

Request ==
    /\ up
    /\ budget.requests > 0
    /\ budget' = [budget EXCEPT !.requests = @ - 1]

-----------------------------------------------------------------------------
(* document:pickAndImport.                                                 *)

PickImport(o, m) ==
    /\ Request
    /\ op[o] = IdleOp
    /\ op' = [op EXCEPT ![o] = [pc |-> "pickingImport", matter |-> m]]
    /\ UNCHANGED <<matter, docs, runs, log, up>>

\* The user chose a file; the early check of importFromPath passes.
InspectImport(o) ==
    /\ op[o].pc = "pickingImport"
    /\ matter[op[o].matter] = "ACTIVE"
    /\ \E h \in Hashes :
          op' = [op EXCEPT ![o] = [pc |-> "inspectingImport",
                                   matter |-> op[o].matter, hash |-> h]]
    /\ UNCHANGED <<matter, docs, runs, log, up, budget>>

\* createInAvailableMatter: the transaction behind the inspection.  An active
\* Document with this content is used again; either way its run starts.
ImportReuses(o) ==
    /\ op[o].pc = "inspectingImport"
    /\ matter[op[o].matter] = "ACTIVE"
    /\ \E d \in ActiveWith(op[o].matter, op[o].hash) : runs' = runs \cup {d}
    /\ op' = [op EXCEPT ![o] = IdleOp]
    /\ UNCHANGED <<matter, docs, log, up, budget>>

ImportCreates(o) ==
    /\ op[o].pc = "inspectingImport"
    /\ matter[op[o].matter] = "ACTIVE"
    /\ ActiveWith(op[o].matter, op[o].hash) = {}
    /\ docs' = Append(docs, Imported(op[o].matter, op[o].hash, 0))
    /\ runs' = runs \cup {Len(docs) + 1}
    /\ op' = [op EXCEPT ![o] = IdleOp]
    /\ UNCHANGED <<matter, log, up, budget>>

-----------------------------------------------------------------------------
(* document:pickAndReplace.                                                *)

PickReplacement(o, d) ==
    /\ Request
    /\ op[o] = IdleOp
    /\ d \notin runs
    /\ op' = [op EXCEPT ![o] = [pc |-> "pickingReplacement", target |-> d]]
    /\ UNCHANGED <<matter, docs, runs, log, up>>

InspectReplacement(o) ==
    /\ op[o].pc = "pickingReplacement"
    /\ Visible(op[o].target)
    /\ \E h \in Hashes :
          op' = [op EXCEPT ![o] = [pc |-> "inspectingReplacement",
                                   target |-> op[o].target, hash |-> h]]
    /\ UNCHANGED <<matter, docs, runs, log, up, budget>>

\* Mutant: the guard between the inspection and the transaction is missing.
NoPreCommitGuard(d) == TRUE

\* The guard that runtime.ts hands to the replacement service.
PreCommitGuard(d) == d \notin runs

\* The guards of replaceDocument, all of them again, in one transaction.
ReplaceAccepts(d, h) ==
    /\ Visible(d)
    /\ IdleWork(d)
    /\ ActiveWith(docs[d].matter, h) \ {d} = {}
    /\ Successors(d) = {}

\* The old row goes to the trash, the new one is inserted.
Replaced(d, h) ==
    Append([docs EXCEPT ![d].trashed = TRUE], Imported(docs[d].matter, h, d))

\* The replacement, not the superseded Document, is analyzed.
Replace(o) ==
    LET d == op[o].target
        h == op[o].hash IN
    /\ op[o].pc = "inspectingReplacement"
    /\ PreCommitGuard(d)
    /\ ReplaceAccepts(d, h)
    /\ docs' = Replaced(d, h)
    /\ log' = Append(log, [type |-> "DOCUMENT_REPLACED", document |-> Len(docs) + 1,
                           superseded |-> d])
    /\ runs' = runs \cup {Len(docs) + 1}
    /\ op' = [op EXCEPT ![o] = IdleOp]
    /\ UNCHANGED <<matter, up, budget>>

\* The picker is cancelled, a check fails, the file cannot be read, or the
\* transaction is refused: nothing was written.
OperationEnds(o) ==
    /\ op[o] # IdleOp
    /\ op' = [op EXCEPT ![o] = IdleOp]
    /\ UNCHANGED <<matter, docs, runs, log, up, budget>>

OperationStep(o) ==
    /\ up
    /\ \/ InspectImport(o) \/ ImportReuses(o) \/ ImportCreates(o)
       \/ InspectReplacement(o) \/ Replace(o)
       \/ OperationEnds(o)

-----------------------------------------------------------------------------
(* Trash and restore.  A request that changes nothing writes nothing; a    *)
(* refused one neither.                                                    *)

TrashDocument(d) ==
    /\ Request
    /\ d \notin runs
    /\ Visible(d)
    /\ IdleWork(d)
    /\ docs' = [docs EXCEPT ![d].trashed = TRUE]
    /\ log' = Append(log, [type |-> "DOCUMENT_TRASHED", document |-> d])
    /\ UNCHANGED <<matter, runs, op, up>>

\* Mutant: no active Document with the same content is looked for.
RestoreAnyway(d) == matter[docs[d].matter] = "ACTIVE"

RestoreAccepts(d) ==
    /\ matter[docs[d].matter] = "ACTIVE"
    /\ ActiveWith(docs[d].matter, docs[d].hash) \ {d} = {}

RestoreDocument(d) ==
    /\ Request
    /\ docs[d].trashed
    /\ RestoreAccepts(d)
    /\ docs' = [docs EXCEPT ![d].trashed = FALSE]
    /\ log' = Append(log, [type |-> "DOCUMENT_RESTORED", document |-> d])
    /\ UNCHANGED <<matter, runs, op, up>>

\* The handler looks at the reservations of the Documents it would list, the
\* transaction at the work of all Documents of the Matter.
TrashMatter(m) ==
    /\ Request
    /\ matter[m] = "ACTIVE"
    /\ \A d \in DOMAIN docs : docs[d].matter = m =>
          IdleWork(d) /\ (~docs[d].trashed => d \notin runs)
    /\ matter' = [matter EXCEPT ![m] = "DELETED"]
    /\ log' = Append(log, [type |-> "MATTER_TRASHED", matter |-> m])
    /\ UNCHANGED <<docs, runs, op, up>>

\* Mutant: restoring a Matter that is not in the trash is logged as well.
RestoreAnyMatter(m) == TRUE

RestorableMatter(m) == matter[m] = "DELETED"

RestoreMatter(m) ==
    /\ Request
    /\ RestorableMatter(m)
    /\ matter' = [matter EXCEPT ![m] = "ACTIVE"]
    /\ log' = Append(log, [type |-> "MATTER_RESTORED", matter |-> m])
    /\ UNCHANGED <<docs, runs, op, up>>

-----------------------------------------------------------------------------
(* What the pipeline and AI execution do to a Document.                    *)

\* document:analyze.
Analyze(d) ==
    /\ Request
    /\ Visible(d)
    /\ runs' = runs \cup {d}
    /\ UNCHANGED <<matter, docs, op, log, up>>

\* A stage begins, in a run or in a call of its own channel.
BeginStage(d) ==
    /\ Visible(d)
    /\ docs[d].phase = "rest"
    /\ docs' = [docs EXCEPT ![d].phase = "live"]
    /\ UNCHANGED <<matter, op, log, up>>

StageInRun(d) == up /\ d \in runs /\ BeginStage(d) /\ UNCHANGED <<runs, budget>>
StageInChannel(d) == Request /\ BeginStage(d) /\ UNCHANGED runs

EndStage(d) ==
    /\ up
    /\ docs[d].phase = "live"
    /\ \E phase \in {"rest", "sanitized"} : docs' = [docs EXCEPT ![d].phase = phase]
    /\ UNCHANGED <<matter, runs, op, log, up, budget>>

EndRun(d) ==
    /\ up
    /\ d \in runs
    /\ runs' = runs \ {d}
    /\ UNCHANGED <<matter, docs, op, log, up, budget>>

BeginExecution(d) ==
    /\ Request
    /\ Visible(d)
    /\ docs[d].phase = "sanitized"
    /\ docs' = [docs EXCEPT ![d].ai = @ + 1]
    /\ UNCHANGED <<matter, runs, op, log, up>>

\* Mutant: an execution that has ended may end again.
AnyExecution(d) == TRUE

RunningExecution(d) == docs[d].ai > 0

EndExecution(d) ==
    /\ up
    /\ RunningExecution(d)
    /\ docs' = [docs EXCEPT ![d].ai = @ - 1]
    /\ UNCHANGED <<matter, runs, op, log, up, budget>>

-----------------------------------------------------------------------------
(* Process death and startup recovery.                                     *)

Crash ==
    /\ up
    /\ budget.crashes > 0
    /\ budget' = [budget EXCEPT !.crashes = @ - 1]
    /\ up' = FALSE
    /\ runs' = {}
    /\ op' = [o \in Operations |-> IdleOp]
    /\ UNCHANGED <<matter, docs, log>>

RecoveredRow(r) == [r EXCEPT !.phase = IF r.phase = "live" THEN "rest" ELSE r.phase,
                             !.ai = 0]

Recover ==
    /\ ~up
    /\ up' = TRUE
    /\ docs' = [d \in DOMAIN docs |-> RecoveredRow(docs[d])]
    /\ UNCHANGED <<matter, runs, op, log, budget>>

-----------------------------------------------------------------------------

Init ==
    /\ matter = [m \in Matters |-> "ACTIVE"]
    /\ docs = <<>>
    /\ runs = {}
    /\ op = [o \in Operations |-> IdleOp]
    /\ log = <<>>
    /\ up = TRUE
    /\ budget = [requests |-> MaxRequests, crashes |-> MaxCrashes]

DocumentStep(d) ==
    \/ TrashDocument(d) \/ RestoreDocument(d) \/ Analyze(d)
    \/ StageInRun(d) \/ StageInChannel(d) \/ EndStage(d) \/ EndRun(d)
    \/ BeginExecution(d) \/ EndExecution(d)

Next ==
    \/ \E o \in Operations :
          \/ \E m \in Matters : PickImport(o, m)
          \/ \E d \in DOMAIN docs : PickReplacement(o, d)
          \/ OperationStep(o)
    \/ \E d \in DOMAIN docs : DocumentStep(d)
    \/ \E m \in Matters : TrashMatter(m) \/ RestoreMatter(m)
    \/ Crash \/ Recover

Spec == Init /\ [][Next]_vars

-----------------------------------------------------------------------------
(* Properties.                                                             *)

\* "An active Document with the same file hash is reused" and a restore or a
\* replacement conflicts with one: whatever was imported, replaced or restored
\* while a file was inspected, two active Documents of one Matter never have
\* the same content (import, restore and replacement transactions).
UniqueActive ==
    \A d, e \in DOMAIN docs :
        /\ ~docs[d].trashed /\ ~docs[e].trashed
        /\ docs[d].matter = docs[e].matter /\ docs[d].hash = docs[e].hash
        => d = e

\* Version lineage is linear: a Document replaces an older one of its Matter,
\* and no two replace the same, also after old versions were restored
\* (replaceDocument).
LinearLineage ==
    /\ \A d \in DOMAIN docs : docs[d].supersedes # 0 =>
          /\ docs[d].supersedes < d
          /\ docs[docs[d].supersedes].matter = docs[d].matter
    /\ \A d, e \in DOMAIN docs :
          docs[d].supersedes = docs[e].supersedes /\ docs[d].supersedes # 0 => d = e

\* Nothing in the trash is scheduled, in a stage or at an AI provider: no
\* trash or replacement slips past work that began while a file was picked or
\* inspected, and no work begins in the trash.
QuietTrash ==
    \A d \in DOMAIN docs : ~Visible(d) => IdleWork(d) /\ d \notin runs

\* The workspace_events that send a Document to the trash, or bring it back.
TrashEvents(d) ==
    {i \in DOMAIN log : \/ log[i] = [type |-> "DOCUMENT_TRASHED", document |-> d]
                        \/ /\ log[i].type = "DOCUMENT_REPLACED"
                           /\ log[i].superseded = d}
RestoreEvents(d) ==
    {i \in DOMAIN log : log[i] = [type |-> "DOCUMENT_RESTORED", document |-> d]}

MatterEvents(m, type) == {i \in DOMAIN log : log[i] = [type |-> type, matter |-> m]}

LastIsIn(S, T) == \E i \in S : \A j \in T : j < i

\* The last event about it says whether a Document or a Matter is in the trash.
LastEventTells ==
    /\ \A d \in DOMAIN docs :
          docs[d].trashed = LastIsIn(TrashEvents(d), RestoreEvents(d))
    /\ \A m \in Matters :
          (matter[m] = "DELETED") =
              LastIsIn(MatterEvents(m, "MATTER_TRASHED"), MatterEvents(m, "MATTER_RESTORED"))

Alternate(S, T) ==
    \A i, j \in S : i < j => \E k \in T : i < k /\ k < j

\* Between two events that send the same thing to the trash lies one that brings
\* it back, and the other way round (the changed: false returns).
OneEventPerTransition ==
    /\ \A d \in DOMAIN docs :
          /\ Alternate(TrashEvents(d), RestoreEvents(d))
          /\ Alternate(RestoreEvents(d), TrashEvents(d))
    /\ \A m \in Matters :
          LET trashed  == MatterEvents(m, "MATTER_TRASHED")
              restored == MatterEvents(m, "MATTER_RESTORED") IN
          Alternate(trashed, restored) /\ Alternate(restored, trashed)

\* The audit log is the history of the trash: each real transition of a Document
\* or a Matter has its one event, a repeated request has none, and the last event
\* says where the thing is (one append in every transaction that moves something).
LogTellsTrash == LastEventTells /\ OneEventPerTransition

=============================================================================
