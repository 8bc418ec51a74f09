--------------------------- MODULE AnalysisWindow ---------------------------
(***************************************************************************)
(* One Document on the screen while the main process analyzes it: the      *)
(* polling loop of useDocumentStatus, useAnalysisScheduler, and the        *)
(* effects of App that open and close the analysis activity window.        *)
(* Requests and answers cross the process boundary in order, each at its   *)
(* own time.  Of a run only what other events can see between its steps is *)
(* kept; DocumentAnalysis has the rest.                                    *)
(***************************************************************************)
EXTENDS Naturals, Sequences, FiniteSets

CONSTANTS
    FirstReads,     \* FIRST_READ_RETRY_LIMIT
    MaxClicks,      \* bound: what the user does
    MaxFaults       \* bound: failed requests, and failures that are not recorded

ASSUME Bounds == {FirstReads, MaxClicks, MaxFaults} \subseteq Nat

VARIABLES
    row,            \* the Document: its status, whether it has pages, and how
                    \*   often it changed
    run,            \* what the run of DocumentAnalysisRunner waits for
    unrecorded,     \* failureFor: the last run could not save its failure
    calls,          \* requests on their way to the main process
    answers,        \* answers on their way back
    selected,       \* documentId is this Document
    ui,             \* what App knows of it
    poll,           \* the loop of useDocumentStatus
    budget

main == <<row, run, unrecorded>>
screen == <<selected, ui, poll>>
vars == <<row, run, unrecorded, calls, answers, selected, ui, poll, budget>>

Live == {"PARSING", "DETECTING"}
Resumable == {"IMPORTED", "PARSED"}
Statuses == Live \cup Resumable \cup {"FAILED", "READY"}

\* What a read has brought; nothing yet, and no revision, are status and 0.
Entries == [status : Statuses \cup {"none"}, rev : Nat,
            error : {"none", "unrecorded", "other"}]
Nothing == [status |-> "none", rev |-> 0, error |-> "none"]

\* window: analysisActiveIds; processed, refreshed, ignored: the revisions in
\* the refs of App; resumed: autoResumeScheduledRef; pending and failed: of the
\* latest schedule.
Screens == [entry : Entries, window : BOOLEAN, processed : Nat, refreshed : Nat,
            ignored : Nat, resumed : BOOLEAN, pending : BOOLEAN, failed : BOOLEAN]
Blank == [entry |-> Nothing, window |-> FALSE, processed |-> 0, refreshed |-> 0,
          ignored |-> 0, resumed |-> FALSE, pending |-> FALSE, failed |-> FALSE]

\* A read is in flight, the next one has its timer, or the loop has stopped.
Polls == [state : {"reading", "timer", "idle"}, failedReads : 0..(FirstReads + 1)]
FirstRead == [state |-> "reading", failedReads |-> 0]
Stopped == [state |-> "idle", failedReads |-> 0]

TypeOK ==
    /\ row \in [status : Statuses, parsed : BOOLEAN, rev : Nat]
    /\ run \in {"off", "deferred", "inspecting", "parsing", "detecting"}
    /\ unrecorded \in BOOLEAN
    /\ \A c \in {calls[i] : i \in DOMAIN calls} : c \in [kind : {"get", "analyze"}, latest : BOOLEAN]
    /\ \A a \in {answers[i] : i \in DOMAIN answers} :
         a \in [kind : {"get", "analyze"}, latest : BOOLEAN, got : Entries]
    /\ selected \in BOOLEAN /\ ui \in Screens /\ poll \in Polls
    /\ budget \in [clicks : Nat, faults : Nat]

\* A Document just imported, whose run is accepted, or one an earlier session
\* left, selected in a new window.
Init ==
    /\ row \in {[status |-> "IMPORTED", parsed |-> FALSE, rev |-> 1],
               [status |-> "PARSED", parsed |-> TRUE, rev |-> 1],
               [status |-> "FAILED", parsed |-> FALSE, rev |-> 1],
               [status |-> "FAILED", parsed |-> TRUE, rev |-> 1]}
    /\ run \in {"off"} \cup {r \in {"deferred"} : row.status = "IMPORTED"}
    /\ unrecorded = FALSE
    /\ calls = <<[kind |-> "get", latest |-> TRUE]>> /\ answers = <<>>
    /\ selected = TRUE /\ ui = Blank /\ poll = FirstRead
    /\ budget = [clicks |-> MaxClicks, faults |-> MaxFaults]

Spent(bound) == budget[bound] > 0 /\ budget' = [budget EXCEPT ![bound] = @ - 1]

-----------------------------------------------------------------------------
(* The main process.                                                       *)

Moves(status, parsed) == row' = [status |-> status, parsed |-> parsed, rev |-> row.rev + 1]

\* From a parsed Document on nothing yields to other events but a detector that
\* is free to: what they see next is detection, or the end.
Analyzes ==
    \/ Moves("DETECTING", TRUE) /\ run' = "detecting"
    \/ Moves("READY", TRUE) /\ run' = "off"
    \/ Moves("FAILED", TRUE) /\ run' = "off"

\* The macrotask after start.  retryPendingTerminalFailure writes first what an
\* earlier run could not; parsing begins with the inspection of the file.
RunStarts ==
    /\ run = "deferred" /\ row.status # "READY"
    /\ IF row.parsed THEN Analyzes
       ELSE /\ run' = "inspecting"
            /\ IF row.status \in Live THEN Moves("FAILED", FALSE) ELSE UNCHANGED row
    /\ UNCHANGED <<unrecorded, calls, answers, screen, budget>>

AlreadyAnalyzed ==
    /\ run = "deferred" /\ row.status = "READY"
    /\ run' = "off"
    /\ UNCHANGED <<row, unrecorded, calls, answers, screen, budget>>

Inspected ==
    /\ run = "inspecting"
    /\ \/ Moves("PARSING", FALSE) /\ run' = "parsing"
       \/ Moves("FAILED", FALSE) /\ run' = "off"
    /\ UNCHANGED <<unrecorded, calls, answers, screen, budget>>

Parsed ==
    /\ run = "parsing"
    /\ \/ Moves("FAILED", FALSE) /\ run' = "off"
       \/ Analyzes
    /\ UNCHANGED <<unrecorded, calls, answers, screen, budget>>

Detected ==
    /\ run = "detecting"
    /\ \E status \in {"READY", "FAILED"} : Moves(status, TRUE)
    /\ run' = "off"
    /\ UNCHANGED <<unrecorded, calls, answers, screen, budget>>

RunStep == RunStarts \/ AlreadyAnalyzed \/ Inspected \/ Parsed \/ Detected

\* Neither the stage nor the sink can write.
RunFailsUnrecorded ==
    /\ run # "off" /\ row.status # "READY"
    /\ Spent("faults")
    /\ unrecorded' = TRUE /\ run' = "off"
    /\ \/ UNCHANGED row
       \/ run = "parsing" /\ Moves("DETECTING", TRUE)
    /\ UNCHANGED <<calls, answers, screen>>

Answered(got) ==
    /\ answers' = Append(answers, [kind |-> Head(calls).kind, latest |-> Head(calls).latest, got |-> got])
    /\ calls' = Tail(calls)

Failure(code) == [Nothing EXCEPT !.error = code]

\* document:get.
AnswerGet ==
    /\ calls # <<>> /\ Head(calls).kind = "get"
    /\ Answered(IF unrecorded THEN Failure("unrecorded")
                ELSE [status |-> row.status, rev |-> row.rev, error |-> "none"])
    /\ UNCHANGED <<main, screen, budget>>

\* document:analyze: DocumentAnalysisRunner.start.
AnswerAnalyze ==
    /\ calls # <<>> /\ Head(calls).kind = "analyze"
    /\ Answered(Nothing)
    /\ IF run = "off"
       THEN run' = "deferred" /\ unrecorded' = FALSE
       ELSE UNCHANGED <<run, unrecorded>>
    /\ UNCHANGED <<row, screen, budget>>

\* The database refuses the read of either handler.
AnswerFails ==
    /\ calls # <<>>
    /\ Spent("faults")
    /\ Answered(Failure("other"))
    /\ UNCHANGED <<main, screen>>

-----------------------------------------------------------------------------
(* The renderer.                                                           *)

\* scheduleAnalysis, up to its request.
Scheduled(u) ==
    [u EXCEPT !.window = TRUE, !.processed = 0, !.pending = TRUE,
              !.ignored = IF u.entry.status = "FAILED" THEN u.entry.rev ELSE 0]

\* Mutant: a failure seen after a schedule is always taken for the old one.
HandOffAnyway(u) == u.ignored # 0

\* A failure that was there before the schedule.
HandOff(u) == u.ignored = u.entry.rev

\* The effect that observes a revision once.
Observed(u) ==
    IF u.entry.status = "none" \/ u.processed = u.entry.rev THEN u
    ELSE LET closes == \/ u.entry.status = "READY"
                       \/ u.entry.status = "FAILED" /\ u.window /\ ~HandOff(u)
         IN  [u EXCEPT !.processed = u.entry.rev,
                       !.refreshed = IF u.entry.status \in {"READY", "FAILED"}
                                     THEN u.entry.rev ELSE @,
                       !.window = @ /\ ~closes,
                       !.ignored = IF closes /\ u.entry.status = "FAILED" THEN 0 ELSE @]

\* The effect that resumes a Document once per session.
Resumes(u) == u.entry.status \in Resumable /\ ~u.resumed /\ ~u.window

\* A loop that is left drops its reads, wherever they are.
WithoutGets(q) ==
    LET kept[n \in 0..Len(q)] ==
            IF n = 0 THEN <<>>
            ELSE IF q[n].kind = "get" THEN kept[n - 1]
            ELSE Append(kept[n - 1], q[n])
    IN  kept[Len(q)]

Superseded(q) == [i \in DOMAIN q |-> [q[i] EXCEPT !.latest = @ /\ q[i].kind # "analyze"]]
Send(q, kind) == Append(q, [kind |-> kind, latest |-> TRUE])

\* The screen is rendered with u, after a schedule if schedules: a window that
\* opened or closed, and a refresh, start the loop anew and drop its reads;
\* otherwise it goes on with next.
Rendered(u, schedules, refresh, inbox, next) ==
    LET turned == u.window # ui.window
        shown == IF turned /\ selected' THEN Observed(u) ELSE u
        rebuilt == selected' /\ (refresh \/ turned)
        asked == IF schedules THEN Send(Superseded(calls), "analyze") ELSE calls
        heard == IF schedules THEN Superseded(inbox) ELSE inbox
    IN  /\ ui' = shown
        /\ calls' = IF rebuilt THEN Send(WithoutGets(asked), "get") ELSE asked
        /\ answers' = IF rebuilt THEN WithoutGets(heard) ELSE heard
        /\ poll' = IF rebuilt THEN FirstRead ELSE next

\* Mutant: a failure ends the polling, whatever the window says.
BusyInStage(status) == status \in Live

\* stillBusy, with the window the loop was started with.
StillBusy(status) == status \in Live \/ (ui.window /\ status \in Resumable \cup {"FAILED"})

NextPoll(status) == [poll EXCEPT !.state = IF StillBusy(status) THEN "timer" ELSE "idle"]

\* A fresh snapshot: observed first, then resumed.
Snapshot(u, refresh, next) ==
    LET o == Observed(u)
    IN  IF Resumes(u)
        THEN Rendered(Scheduled([o EXCEPT !.resumed = TRUE]), TRUE, refresh, Tail(answers), next)
        ELSE Rendered(o, FALSE, refresh \/ o.refreshed # u.refreshed, Tail(answers), next)

ReadSucceeds ==
    /\ answers # <<>> /\ Head(answers).kind = "get" /\ Head(answers).got.error = "none"
    /\ UNCHANGED <<main, selected, budget>>
    /\ LET got == Head(answers).got
       IN  Snapshot([ui EXCEPT !.entry = got], FALSE, NextPoll(got.status))

\* The attempt ended without a trace in the database: the loop stops, and the
\* window closes.
ReadTellsUnrecorded ==
    /\ answers # <<>> /\ Head(answers).kind = "get" /\ Head(answers).got.error = "unrecorded"
    /\ UNCHANGED <<main, selected, budget>>
    /\ Rendered([ui EXCEPT !.entry.error = "unrecorded", !.window = FALSE],
                FALSE, FALSE, Tail(answers), Stopped)

\* The last known status decides whether to go on; before the first one a few
\* reads are tried, and more in a window.
ReadFails ==
    /\ answers # <<>> /\ Head(answers).kind = "get" /\ Head(answers).got.error = "other"
    /\ UNCHANGED <<main, selected, budget>>
    /\ LET reads == IF poll.failedReads > FirstReads THEN poll.failedReads
                    ELSE poll.failedReads + 1
           next == IF ui.entry.status # "none" THEN NextPoll(ui.entry.status)
                   ELSE [state |-> IF ui.window \/ reads <= FirstReads THEN "timer" ELSE "idle",
                         failedReads |-> reads]
       IN  Rendered([ui EXCEPT !.entry.error = "other"], FALSE, FALSE, Tail(answers), next)

TimerFires ==
    /\ poll.state = "timer"
    /\ poll' = [poll EXCEPT !.state = "reading"]
    /\ calls' = Send(calls, "get")
    /\ UNCHANGED <<main, answers, selected, ui, budget>>

\* The outcome of document:analyze; a superseded one changes nothing.
ScheduleSettles ==
    /\ answers # <<>> /\ Head(answers).kind = "analyze"
    /\ UNCHANGED <<main, selected, budget>>
    /\ LET a == Head(answers)
           refused == a.got.error # "none"
       IN  IF ~a.latest
           THEN Rendered(ui, FALSE, FALSE, Tail(answers), poll)
           ELSE Rendered([ui EXCEPT !.pending = FALSE, !.failed = refused,
                                    !.window = @ /\ ~refused, !.resumed = @ /\ ~refused],
                         FALSE, ~refused, Tail(answers), poll)

-----------------------------------------------------------------------------
(* The user.                                                               *)

\* AnalysisStatus offers its one action.
RetryOffered ==
    /\ selected /\ ui.entry.status # "READY" /\ ~ui.window /\ ~ui.pending
    /\ \/ ui.entry.status = "FAILED"
       \/ ui.entry.error = "unrecorded"
       \/ ui.failed /\ ui.entry.status # "none"

Retry ==
    /\ RetryOffered /\ Spent("clicks")
    /\ UNCHANGED <<main, selected>>
    /\ Rendered(Scheduled(ui), TRUE, FALSE, answers, poll)

\* Another Document: its first answer displaces the entry of this one.
Leave ==
    /\ selected /\ Spent("clicks")
    /\ selected' = FALSE
    /\ \E kept \in {ui.entry, Nothing} : ui' = [ui EXCEPT !.entry = kept]
    /\ calls' = WithoutGets(calls) /\ answers' = WithoutGets(answers)
    /\ poll' = Stopped
    /\ UNCHANGED main

\* selectDocument, which refreshes; an entry that was kept is shown at once.
Return ==
    /\ ~selected /\ Spent("clicks")
    /\ selected' = TRUE
    /\ LET u == IF ui.entry.error = "unrecorded" THEN [ui EXCEPT !.window = FALSE] ELSE ui
           o == Observed(u)
       IN  IF Resumes(ui)
           THEN Rendered(Scheduled([o EXCEPT !.resumed = TRUE]), TRUE, TRUE, answers, poll)
           ELSE Rendered(o, FALSE, TRUE, answers, poll)
    /\ UNCHANGED main

\* Any operation that ends with a refresh.
Refresh ==
    /\ selected /\ Spent("clicks")
    /\ UNCHANGED <<main, selected>>
    /\ Rendered(ui, FALSE, TRUE, answers, poll)

MainStep == RunStep \/ RunFailsUnrecorded \/ AnswerGet \/ AnswerAnalyze \/ AnswerFails

RendererStep ==
    \/ ReadSucceeds
    \/ ReadTellsUnrecorded
    \/ ReadFails
    \/ TimerFires
    \/ ScheduleSettles

UserStep == Retry \/ Leave \/ Return \/ Refresh

Next == MainStep \/ RendererStep \/ UserStep

\* The runtime of either process serves its events; a stage ends (a claim of
\* DocumentAnalysis).
Fairness ==
    /\ WF_vars(RunStep)
    /\ WF_vars(AnswerGet \/ AnswerAnalyze)
    /\ WF_vars(RendererStep)

Spec == Init /\ [][Next]_vars /\ Fairness

-----------------------------------------------------------------------------
(* Properties.                                                             *)

\* The progress shell does not stay for ever: a window that is open closes, for
\* every end a run can have (the effects of App, useDocumentStatus).
WindowCloses == selected /\ ui.window ~> ~selected \/ ~ui.window

\* While the window is open the loop is alive, and there is one: the next read
\* has its timer, or is under way, once (the cleanup and the retries of
\* useDocumentStatus; a failed read strands nobody).
WindowIsWatched ==
    LET traffic == calls \o answers
        reads == {i \in DOMAIN traffic : traffic[i].kind = "get"}
    IN  selected /\ ui.window =>
            \/ poll.state = "timer" /\ reads = {}
            \/ poll.state = "reading" /\ Cardinality(reads) = 1

\* Once no run is left the progress shell is gone, and the screen shows the
\* analyzed Document or offers the retry: the loop never stops on a snapshot
\* that leaves the user without both ("a transient document:get failure can
\* never strand the loop on stale data").
NobodyStranded ==
    selected /\ run = "off" ~>
        \/ ~selected \/ run # "off"
        \/ ui.entry.status = "READY" /\ ~ui.window
        \/ RetryOffered

\* What the comments say: the window stays open until the attempt it was opened
\* for has ended; the failure that closes it is the one of that attempt.
WindowCoversRun ==
    [][selected' /\ ui.window /\ ~ui'.window /\ ~ui'.failed => run' = "off"]_vars
=============================================================================
