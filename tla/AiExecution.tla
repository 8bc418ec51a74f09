----------------------------- MODULE AiExecution -----------------------------
(***************************************************************************)
(* AiExecutionService over AiExecutionRepository and the two providers:    *)
(* the sanitized artifact of a Document is checked against everything the  *)
(* Matter protects, sent, and the answer stored and restored locally.      *)
(*                                                                         *)
(* Everything from the call of execute() to the dispatch of the request    *)
(* runs in one turn of the event loop, and so does everything from the     *)
(* answer to the end of the call; cancellations, other calls, settings,    *)
(* the trash and the clock come in between.  A sanitized text is reduced   *)
(* to the protected values that detection left in it.                      *)
(***************************************************************************)
EXTENDS Naturals, FiniteSets

CONSTANTS
    Executions,     \* calls of execute(), each with the id it generates
    Documents,      \* the sanitized artifacts of one Matter
    Values,         \* the protected values of the Matter
    MaxDenied,      \* MAX_OUTBOUND_DENIED_VALUES
    MaxClock,       \* bound: readings of the wall clock
    MaxFaults,      \* bound: failed writes
    MaxChanges,     \* bound: changes of settings, of values and of the trash
    MaxCrashes      \* bound: process deaths

ASSUME BoundsAssumption ==
    /\ IsFiniteSet(Values)
    /\ MaxDenied \in Nat /\ MaxClock \in Nat /\ MaxFaults \in Nat
    /\ MaxChanges \in Nat /\ MaxCrashes \in Nat

VARIABLES
    row,        \* the ai_executions rows
    answer,     \* what each call came to: a code, or "waiting" for the network
    aborted,    \* the executions whose AbortController was aborted
    settings,   \* what AiProviderManager would dispatch to
    missed,     \* the protected values each sanitized text still contains
    denied,     \* the values the denylist query finds in the Matter
    visible,    \* the Documents that are SANITIZED and not in the trash
    sent,       \* history: the requests, with the denied values they contained
    clock, up,
    budget      \* what is left of the bounds above

vars == <<row, answer, aborted, settings, missed, denied, visible, sent,
          clock, up, budget>>

\* The failures that the service records in the row.
RecordedCodes == {"OUTBOUND_LEAK_DETECTED", "AI_PROVIDER_FAILURE", "AI_CANCELLED",
                  "INVALID_PROVIDER_RESPONSE", "AI_PERSISTENCE_FAILURE", "INTERRUPTED"}
NoRow == [status |-> "none"]
Rows == [status : {"RUNNING", "COMPLETED"}, doc : Documents, provider : {"mock", "network"},
         created : Nat]
            \cup [status : {"FAILED"}, doc : Documents, provider : {"mock", "network"},
                  created : Nat, code : RecordedCodes]

TypeOK ==
    /\ row \in [Executions -> Rows \cup {NoRow}]
    /\ answer \in [Executions -> {"none", "waiting", "lost", "COMPLETED", "REFUSED",
                                  "AI_REHYDRATION_FAILED"} \cup RecordedCodes]
    /\ aborted \subseteq Executions
    /\ settings \in {"mock", "network", "unusable"}
    /\ missed \in [Documents -> SUBSET Values]
    /\ denied \subseteq Values
    /\ visible \subseteq Documents
    /\ sent \subseteq [exec : Executions, leaked : SUBSET Values]
    /\ clock \in 0..MaxClock
    /\ up \in BOOLEAN
    /\ budget \in [faults : Nat, changes : Nat, crashes : Nat]

Init ==
    /\ row = [e \in Executions |-> NoRow]
    /\ answer = [e \in Executions |-> "none"]
    /\ aborted = {}
    /\ settings \in {"mock", "network"}
    /\ missed \in [Documents -> SUBSET Values]
    /\ denied \in SUBSET Values
    /\ visible = Documents
    /\ sent = {}
    /\ clock = 0
    /\ up = TRUE
    /\ budget = [faults |-> MaxFaults, changes |-> MaxChanges, crashes |-> MaxCrashes]

-----------------------------------------------------------------------------
(* The repository.                                                         *)

\* Mutant: the query stops at the cap it is checked against.
CappedLimit == MaxDenied

\* The denylist query reads one row past the cap, in no particular order.
RowLimit == MaxDenied + 1

DenylistReads ==
    {read \in SUBSET denied :
        Cardinality(read) = IF Cardinality(denied) <= RowLimit
                            THEN Cardinality(denied) ELSE RowLimit}

\* Mutant: the row names the state of the settings.
BegunWithSettings(d, p) == [status |-> "RUNNING", doc |-> d, provider |-> settings,
                            created |-> clock]

\* begin: the id of an unusable configuration is that of its provider.
Begun(d, p) == [status |-> "RUNNING", doc |-> d, provider |-> p, created |-> clock]

\* finish: what it takes to write the end of an execution.
Finishable(r) == r.status = "RUNNING" /\ clock >= r.created

Completed(r) == [r EXCEPT !.status = "COMPLETED"]
Failed(r, code) == [status |-> "FAILED", doc |-> r.doc, provider |-> r.provider,
                    created |-> r.created, code |-> code]

-----------------------------------------------------------------------------
(* The end of a call.  r is its row as it stands in this turn.             *)

Fault == budget.faults > 0 /\ budget' = [budget EXCEPT !.faults = @ - 1]
NoFault == UNCHANGED budget

\* Mutant: the end of the call waits until the failure is written.
EndsWhenRecorded(e, r, code) ==
    /\ Finishable(r)
    /\ row' = [row EXCEPT ![e] = Failed(r, code)]
    /\ answer' = [answer EXCEPT ![e] = code]
    /\ NoFault

\* persistFailure: when the failure cannot be written either, the row stays
\* RUNNING and the caller learns AI_PERSISTENCE_FAILURE.
EndsFailed(e, r, code) ==
    \/ /\ Finishable(r)
       /\ row' = [row EXCEPT ![e] = Failed(r, code)]
       /\ answer' = [answer EXCEPT ![e] = code]
       /\ NoFault
    \/ /\ IF Finishable(r) THEN Fault ELSE NoFault
       /\ row' = [row EXCEPT ![e] = r]
       /\ answer' = [answer EXCEPT ![e] = "AI_PERSISTENCE_FAILURE"]

\* Mutant: restoring the response belongs to the part whose failure is recorded.
EndsRestored(e, r) ==
    \/ /\ Finishable(r) /\ NoFault
       /\ row' = [row EXCEPT ![e] = Completed(r)]
       /\ answer' = [answer EXCEPT ![e] = "COMPLETED"]
    \/ /\ Finishable(r) /\ Fault
       /\ row' = [row EXCEPT ![e] = Failed(r, "AI_PROVIDER_FAILURE")]
       /\ answer' = [answer EXCEPT ![e] = "AI_REHYDRATION_FAILED"]
    \/ ~Finishable(r) /\ EndsFailed(e, r, "AI_PERSISTENCE_FAILURE")

\* A usable answer: persistResponse, then rehydration, which reads the Mapping
\* Vault and may fail after the row is COMPLETED.
EndsCompleted(e, r) ==
    \/ /\ Finishable(r)
       /\ row' = [row EXCEPT ![e] = Completed(r)]
       /\ \/ answer' = [answer EXCEPT ![e] = "COMPLETED"] /\ NoFault
          \/ answer' = [answer EXCEPT ![e] = "AI_REHYDRATION_FAILED"] /\ Fault
    \/ /\ Finishable(r)
       /\ Fault
       /\ row' = [row EXCEPT ![e] = Failed(r, "AI_PERSISTENCE_FAILURE")]
       /\ answer' = [answer EXCEPT ![e] = "AI_PERSISTENCE_FAILURE"]
    \/ ~Finishable(r) /\ EndsFailed(e, r, "AI_PERSISTENCE_FAILURE")

-----------------------------------------------------------------------------
(* execute().                                                              *)

\* No row is written: the artifact is not available or fails its integrity
\* checks, the denylist is over the cap, a block cannot be read or the text is
\* too large, or the row cannot be inserted.
ExecuteRefused(e, d) ==
    /\ up /\ answer[e] = "none"
    /\ IF d \notin visible \/ (\E read \in DenylistReads : Cardinality(read) > MaxDenied)
       THEN NoFault ELSE Fault
    /\ answer' = [answer EXCEPT ![e] = "REFUSED"]
    /\ UNCHANGED <<row, aborted, settings, missed, denied, visible, sent, clock, up>>

\* The row is written, and verifyOutbound decides over the values it read; one
\* that cannot be verified or read ends like a leak.  An
\* unusable configuration refuses every request; the local provider answers in
\* the same turn; the other one leaves the call waiting.
Execute(e, d) ==
    /\ up /\ answer[e] = "none"
    /\ d \in visible
    /\ \E read \in DenylistReads, provider \in {"mock", "network"} :
          /\ Cardinality(read) <= MaxDenied
          /\ settings \in {provider, "unusable"}
          /\ LET r == Begun(d, provider)
                 dispatched == missed[d] \cap read = {} /\ settings # "unusable"
             IN  /\ sent' = IF dispatched
                            THEN sent \cup {[exec |-> e, leaked |-> missed[d] \cap denied]}
                            ELSE sent
                 /\ \/ /\ missed[d] \cap read # {}
                       /\ EndsFailed(e, r, "OUTBOUND_LEAK_DETECTED")
                    \/ /\ missed[d] \cap read = {} /\ settings = "unusable"
                       /\ EndsFailed(e, r, "AI_PROVIDER_FAILURE")
                    \/ /\ dispatched /\ provider = "mock"
                       /\ EndsCompleted(e, r)
                    \/ /\ dispatched /\ provider = "network"
                       /\ row' = [row EXCEPT ![e] = r]
                       /\ answer' = [answer EXCEPT ![e] = "waiting"]
                       /\ NoFault
    /\ UNCHANGED <<aborted, settings, missed, denied, visible, clock, up>>

\* Mutant: the signal is not passed to the transport.
ResolvesRegardless(e) == answer[e] = "waiting"

\* An aborted request rejects, whatever else was under way.
MayResolve(e) == answer[e] = "waiting" /\ e \notin aborted

\* The code of a rejected request.
RejectionCode(e) == IF e \in aborted THEN "AI_CANCELLED" ELSE "AI_PROVIDER_FAILURE"

\* The transport rejects (timeout, abort, HTTP status, size, shape), or resolves
\* with a text that is usable or is not.
Settle(e) ==
    /\ up /\ answer[e] = "waiting"
    /\ \/ EndsFailed(e, row[e], RejectionCode(e))
       \/ MayResolve(e) /\ EndsFailed(e, row[e], "INVALID_PROVIDER_RESPONSE")
       \/ MayResolve(e) /\ EndsCompleted(e, row[e])
    /\ UNCHANGED <<aborted, settings, missed, denied, visible, sent, clock, up>>

\* ai:cancel: aborts every request under way.
CancelActive ==
    /\ up
    /\ aborted' = aborted \cup {e \in Executions : answer[e] = "waiting"}
    /\ aborted' # aborted
    /\ UNCHANGED <<row, answer, settings, missed, denied, visible, sent, clock, up, budget>>

-----------------------------------------------------------------------------
(* Around the service.                                                     *)

Change == budget.changes > 0 /\ budget' = [budget EXCEPT !.changes = @ - 1]

\* The user configures the provider, or its key is lost.
ChangeSettings ==
    /\ up /\ Change
    /\ \E s \in {"mock", "network", "unusable"} \ {settings} : settings' = s
    /\ UNCHANGED <<row, answer, aborted, missed, denied, visible, sent, clock, up>>

\* Another Document brings a value, or a rejection takes its last reference.
ChangeDenied ==
    /\ up /\ Change
    /\ \E v \in Values : denied' = IF v \in denied THEN denied \ {v} ELSE denied \cup {v}
    /\ UNCHANGED <<row, answer, aborted, settings, missed, visible, sent, clock, up>>

\* Mutant: the trash looks at jobs only.
NeverRunning(d) == FALSE

\* assertDocumentIdle: the executions that keep a Document out of the trash.
RunningOn(d) == \E e \in Executions : row[e].status = "RUNNING" /\ row[e].doc = d

Trash(d) ==
    /\ up /\ Change
    /\ d \in visible /\ ~RunningOn(d)
    /\ visible' = visible \ {d}
    /\ UNCHANGED <<row, answer, aborted, settings, missed, denied, sent, clock, up>>

Restore(d) ==
    /\ up /\ Change
    /\ d \notin visible
    /\ visible' = visible \cup {d}
    /\ UNCHANGED <<row, answer, aborted, settings, missed, denied, sent, clock, up>>

\* The wall clock moves, in either direction.
ClockMoves ==
    /\ \E t \in {clock - 1, clock + 1} \cap (0..MaxClock) : clock' = t
    /\ UNCHANGED <<row, answer, aborted, settings, missed, denied, visible, sent, up, budget>>

Crash ==
    /\ up
    /\ budget.crashes > 0
    /\ budget' = [budget EXCEPT !.crashes = @ - 1]
    /\ up' = FALSE
    /\ answer' = [e \in Executions |-> IF answer[e] = "waiting" THEN "lost" ELSE answer[e]]
    /\ UNCHANGED <<row, aborted, settings, missed, denied, visible, sent, clock>>

\* Mutants: recovery fails whatever it finds; recovery forgets executions.
RecoveredAlike == [e \in Executions |-> IF row[e] = NoRow
                                        THEN NoRow ELSE Failed(row[e], "INTERRUPTED")]
RecoveredJobsOnly == row

\* StartupRecoveryService: every row that is still RUNNING fails.
Recovered == [e \in Executions |-> IF row[e].status = "RUNNING"
                                   THEN Failed(row[e], "INTERRUPTED") ELSE row[e]]

Restart ==
    /\ ~up
    /\ up' = TRUE
    /\ row' = Recovered
    /\ UNCHANGED <<answer, aborted, settings, missed, denied, visible, sent, clock, budget>>

Next ==
    \/ \E e \in Executions, d \in Documents : ExecuteRefused(e, d) \/ Execute(e, d)
    \/ \E e \in Executions : Settle(e)
    \/ CancelActive
    \/ ChangeSettings \/ ChangeDenied
    \/ \E d \in Documents : Trash(d) \/ Restore(d)
    \/ ClockMoves
    \/ Crash \/ Restart

\* A request is settled by its timeout at the latest.
Fairness == \A e \in Executions : WF_vars(Settle(e))

Spec == Init /\ [][Next]_vars /\ Fairness

-----------------------------------------------------------------------------

\* No request contains a value that the Matter protects at that time, however
\* many there are (verifyOutbound over findSource).
NothingDeniedLeaves == \A s \in sent : s.leaked = {}

\* A cancelled execution never shows a response, neither one that was on its
\* way nor one that recovery found (cancelActive: no partial response is kept).
CancelledNeverCompletes == \A e \in aborted : row[e].status # "COMPLETED"

\* What the caller learns is what is stored: COMPLETED when the row is, and the
\* code of the row otherwise, unless the end could not be written.
AnswerMatchesRow ==
    \A e \in Executions :
       /\ answer[e] \in {"none", "REFUSED"} => row[e] = NoRow
       /\ answer[e] \in {"COMPLETED", "AI_REHYDRATION_FAILED"} <=> row[e].status = "COMPLETED"
       /\ answer[e] \in RecordedCodes /\ row[e].status = "FAILED" =>
             row[e].code \in {answer[e], "INTERRUPTED"}

\* While the process runs, a row is RUNNING only for a call that still waits,
\* or for one that told its caller that the end could not be written.
RunningIsAccountedFor ==
    up => \A e \in Executions :
              row[e].status = "RUNNING" => answer[e] \in {"waiting", "AI_PERSISTENCE_FAILURE"}

\* The Document of an execution stays out of the trash until it has ended, so
\* the response is never stored for a Document that is gone.
SourceStays == \A e \in Executions : row[e].status = "RUNNING" => row[e].doc \in visible

\* The end of an execution is written once: a late answer, a failure and the
\* recovery of another process never overwrite it.
FinishedIsFinal ==
    [][\A e \in Executions : row[e].status \in {"COMPLETED", "FAILED"} => row'[e] = row[e]]_vars

\* Every call comes to an end, however the provider behaves.
CallsEnd == \A e \in Executions : answer[e] = "waiting" ~> answer[e] # "waiting"

\* What the comment of cancelActive says: each aborted execution fails closed
\* as AI_CANCELLED, with its record.
CancelledIsRecorded ==
    \A e \in aborted : answer[e] \notin {"waiting", "lost"} =>
        row[e].status = "FAILED" /\ row[e].code = "AI_CANCELLED"
=============================================================================
