---------------------------- MODULE PythonBridge ----------------------------
(***************************************************************************)
(* PythonWorkerClient and the native worker it spawns: jobs go to the      *)
(* child over stdin, pages and one last event per job come back as lines   *)
(* of stdout, which the client handles one after the other.  Children die, *)
(* are stopped and are replaced while lines of the old one are still under *)
(* way.                                                                    *)
(*                                                                         *)
(* Of the lines that settle nothing only page_result is kept: started and  *)
(* progress pass the same guards and every handler ignores them.           *)
(***************************************************************************)
EXTENDS Naturals, Sequences, FiniteSets, SequencesExt

CONSTANTS
    Calls,          \* calls of processDocument
    JobId(_),       \* the jobId of a call; two calls may use the same
    DocumentId(_),  \* the documentId of a call
    Idle,           \* no call, thread or line
    Pages,          \* the pages of a Document
    MaxChildren,    \* bound: workers spawned
    MaxStops,       \* bound: calls of stop()
    MaxCancels,     \* bound: calls of cancelJob()
    MaxFaults       \* bound: crashes, stray lines and failing handlers

ASSUME BoundsAssumption ==
    /\ Pages \in Nat /\ MaxChildren \in Nat /\ MaxStops \in Nat
    /\ MaxCancels \in Nat /\ MaxFaults \in Nat

VARIABLES
    child,      \* this.child: the number of the child, 0 for undefined
    pending,    \* this.pendingJobs: the call that waits under each jobId
    result,     \* what became of the promise of each call
    handled,    \* the pages that the onEvent of each call has taken
    worker,     \* per child: the process, its threads and its two pipes
    inHand,     \* per child: the line whose handlers are being awaited
    sentTo,     \* history: the child that got the request of a call
    wrote,      \* history: the last events that workers wrote
    strayed,    \* history: the children that wrote a line of no job
    misread,    \* history: the children failed for a line they wrote
    budget      \* what is left of the bounds above

vars == <<child, pending, result, handled, worker, inHand, sentTo, wrote,
          strayed, misread, budget>>
histories == <<sentTo, wrote, strayed, misread>>

JobIds == {JobId(c) : c \in Calls}
DocumentIds == {DocumentId(c) : c \in Calls}
Children == 1..MaxChildren
Terminal == {"completed", "cancelled", "error"}
Garbage == [type |-> "garbage"]
Line(type, c) == [type |-> type, job |-> JobId(c), doc |-> DocumentId(c)]
StrayLines == {Garbage} \cup ([type : {"page"}, job : JobIds, doc : DocumentIds]
                                 \ {Line("page", c) : c \in Calls})

Process(c) == [type |-> "process_document", call |-> c]
CancelJob(j) == [type |-> "cancel_job", job |-> j]

Unborn == [state |-> "unborn", input |-> <<>>, threads |-> [j \in JobIds |-> Idle], output |-> <<>>]
Thread(c) == [call |-> c, page |-> 0, stop |-> FALSE, ended |-> FALSE]

Threads == [call : Calls, page : 0..Pages, stop : BOOLEAN, ended : BOOLEAN]
Lines == {Garbage} \cup [type : {"page"} \cup Terminal, job : JobIds, doc : DocumentIds]
Events == [line : Lines \ {Garbage}, call : Calls]

ASSUME IdleAssumption == Idle \notin Calls /\ Idle \notin Threads /\ Idle \notin Events

TypeOK ==
    /\ child \in 0..MaxChildren
    /\ pending \in [JobIds -> Calls \cup {Idle}]
    /\ result \in [Calls -> {"none", "waiting", "failed", "exited", "refused"} \cup Terminal]
    /\ \A c \in Calls : handled[c] \in Seq(1..Pages)
    /\ \A k \in Children :
         /\ worker[k].state \in {"unborn", "running", "killed", "exited", "closed"}
         /\ worker[k].output \in Seq(Lines)
         /\ \A j \in JobIds : worker[k].threads[j] \in {Idle} \cup Threads
         /\ inHand[k] \in {Idle} \cup Events
    /\ sentTo \in [Calls -> 0..MaxChildren]
    /\ wrote \subseteq [child : Children, call : Calls, type : Terminal]
    /\ strayed \subseteq Children /\ misread \subseteq Children
    /\ budget \in [stops : Nat, cancels : Nat, faults : Nat]

Init ==
    /\ child = 0
    /\ pending = [j \in JobIds |-> Idle]
    /\ result = [c \in Calls |-> "none"]
    /\ handled = [c \in Calls |-> <<>>]
    /\ worker = [k \in Children |-> Unborn]
    /\ inHand = [k \in Children |-> Idle]
    /\ sentTo = [c \in Calls |-> 0]
    /\ wrote = {} /\ strayed = {} /\ misread = {}
    /\ budget = [stops |-> MaxStops, cancels |-> MaxCancels, faults |-> MaxFaults]

Spent(bound) == budget[bound] > 0 /\ budget' = [budget EXCEPT ![bound] = @ - 1]

-----------------------------------------------------------------------------
(* The client                                                              *)

\* Mutant: the rejected calls stay in the map.
RejectAll(outcome) ==
    /\ result' = [c \in Calls |-> IF pending[JobId(c)] = c THEN outcome ELSE result[c]]
    /\ UNCHANGED pending

\* failAll: the outcome of every call that is pending.
FailAll(outcome) ==
    /\ result' = [c \in Calls |-> IF pending[JobId(c)] = c THEN outcome ELSE result[c]]
    /\ pending' = [j \in JobIds |-> Idle]

Killed(w) == [w EXCEPT !.state = IF @ = "running" THEN "killed" ELSE @]

\* failChild: a child that is not the current one is left alone.
FailChild(k) ==
    IF child = k
    THEN /\ child' = 0
         /\ FailAll("failed")
         /\ worker' = [worker EXCEPT ![k] = Killed(@)]
    ELSE UNCHANGED <<child, pending, result, worker>>

\* start(): the child there is, or a new one.
Current == IF child /= 0 THEN child ELSE 1 + Cardinality({k \in Children : worker[k].state /= "unborn"})
Spawned(w) == IF w.state = "unborn" THEN [w EXCEPT !.state = "running"] ELSE w

\* Mutant: a second job replaces the one that waits under its id.
AnyJobId(c) == TRUE

\* sendAndWait refuses an id that is pending.
FreshJobId(c) == pending[JobId(c)] = Idle

\* PythonWorkerDocumentProcessor.processDocument: start, register, write.  The
\* pipe to a process that has died may still seem writable.
ProcessDocument(c) ==
    /\ result[c] = "none" /\ Current \in Children
    /\ child' = Current
    /\ \/ /\ FreshJobId(c)
          /\ result' = [result EXCEPT ![c] = "waiting"]
          /\ pending' = [pending EXCEPT ![JobId(c)] = c]
          /\ worker' = [worker EXCEPT ![Current] =
                           [Spawned(worker[Current]) EXCEPT !.input = Append(@, Process(c))]]
          /\ sentTo' = [sentTo EXCEPT ![c] = Current]
       \/ /\ ~FreshJobId(c) \/ worker[Current].state = "exited"
          /\ result' = [result EXCEPT ![c] = "refused"]
          /\ worker' = [worker EXCEPT ![Current] = Spawned(@)]
          /\ UNCHANGED <<pending, sentTo>>
    /\ UNCHANGED <<handled, inHand, wrote, strayed, misread, budget>>

\* cancelJob: refused without a child, otherwise only a message.
CancelPending(j) ==
    /\ Spent("cancels")
    /\ child /= 0
    /\ worker' = [worker EXCEPT ![child].input = Append(@, CancelJob(j))]
    /\ UNCHANGED <<child, pending, result, handled, inHand, histories>>

Stop ==
    /\ Spent("stops")
    /\ child /= 0 /\ FailChild(child)
    /\ UNCHANGED <<handled, inHand, histories>>

\* Mutant: lines of a replaced child are read like those of the current one.
AnyChildSpeaks(k) == TRUE

\* The first guard of handleStdoutLine.
Speaks(k) == child = k

Expected(line) == /\ line /= Garbage
                  /\ pending[line.job] /= Idle
                  /\ DocumentId(pending[line.job]) = line.doc

\* Mutant: a line is read while the handlers of the one before still run.
NeverBusy(k) == TRUE

\* The chain of promises: one line of a child at a time.
Ready(k) == inHand[k] = Idle

\* handleStdoutLine up to the handlers: what is not expected fails the child.
ReadLine(k) ==
    /\ Ready(k) /\ worker[k].output /= <<>>
    /\ LET line == Head(worker[k].output)
           rest == [worker EXCEPT ![k].output = Tail(@)]
       IN  \/ /\ Speaks(k) /\ Expected(line)
              /\ inHand' = [inHand EXCEPT ![k] = [line |-> line, call |-> pending[line.job]]]
              /\ worker' = rest
              /\ UNCHANGED <<child, pending, result, misread>>
           \/ /\ Speaks(k) /\ ~Expected(line)
              /\ child' = 0 /\ FailAll("failed")
              /\ worker' = [rest EXCEPT ![k] = Killed(@)]
              /\ misread' = misread \cup {k}
              /\ UNCHANGED inHand
           \/ /\ ~Speaks(k)
              /\ worker' = rest
              /\ UNCHANGED <<child, pending, result, misread, inHand>>
    /\ UNCHANGED <<handled, sentTo, wrote, strayed, budget>>

\* The handler of the call has taken a page.
Taken(event) ==
    IF event.line.type = "page"
    THEN [handled EXCEPT ![event.call] = Append(@, Len(@) + 1)]
    ELSE handled

\* Mutant: the child is not looked at again after the handlers.
SettlesAnyway(k) == inHand[k].line.type \in Terminal

\* The second guard of handleStdoutLine, and the events that end a job.
Settles(k) == child = k /\ inHand[k].line.type \in Terminal

\* The handlers have returned.  A promise that is settled stays as it is.
HandlersReturn(k) ==
    /\ inHand[k] /= Idle
    /\ LET event == inHand[k]
       IN  /\ handled' = Taken(event)
           /\ IF Settles(k)
              THEN /\ pending' = [pending EXCEPT ![event.line.job] = Idle]
                   /\ result' = [result EXCEPT ![event.call] =
                                    IF @ = "waiting" THEN event.line.type ELSE @]
              ELSE UNCHANGED <<pending, result>>
    /\ inHand' = [inHand EXCEPT ![k] = Idle]
    /\ UNCHANGED <<child, worker, histories, budget>>

HandlerFails(k) ==
    /\ Spent("faults")
    /\ inHand[k] /= Idle
    /\ inHand' = [inHand EXCEPT ![k] = Idle]
    /\ FailChild(k)
    /\ UNCHANGED <<handled, histories>>

\* An 'error' of the process or of one of its pipes: it could not be spawned,
\* or was written to after its death.
PipeFails(k) ==
    /\ worker[k].state = "exited" /\ child = k
    /\ FailChild(k)
    /\ UNCHANGED <<handled, inHand, histories, budget>>

\* Mutant: the exit is handled at once, beside the lines that are queued.
ClosesAtOnce(k) == worker[k].state = "exited"

\* 'close' comes after the last line, and waits for the lines to be handled.
Drained(k) == worker[k].state = "exited" /\ worker[k].output = <<>> /\ inHand[k] = Idle

\* Mutant: the pending calls are left to the next child.
ClosedOnly(k) == /\ child' = IF child = k THEN 0 ELSE child
                 /\ UNCHANGED <<pending, result>>

Closed(k) == IF child = k THEN child' = 0 /\ FailAll("exited")
                          ELSE UNCHANGED <<child, pending, result>>

Close(k) ==
    /\ Drained(k)
    /\ Closed(k)
    /\ worker' = [worker EXCEPT ![k].state = "closed"]
    /\ UNCHANGED <<handled, inHand, histories, budget>>

-----------------------------------------------------------------------------
(* The worker: its main thread reads requests, one thread runs each job.   *)

Runs(k) == worker[k].state \in {"running", "killed"}

\* A line for the job of call c; the last one is kept in the history.
Writes(k, c, type, threads) ==
    /\ worker' = [worker EXCEPT ![k].output = Append(@, Line(type, c)), ![k].threads = threads]
    /\ wrote' = IF type \in Terminal THEN wrote \cup {[child |-> k, call |-> c, type |-> type]}
                                     ELSE wrote

\* main: a job whose id is still in the table is answered with an error.
ReadRequest(k) ==
    /\ Runs(k) /\ worker[k].input /= <<>>
    /\ LET request == Head(worker[k].input)
           c == request.call
           j == IF request.type = "cancel_job" THEN request.job ELSE JobId(c)
           threads == worker[k].threads
           rest == [worker EXCEPT ![k].input = Tail(@)]
       IN  \/ /\ request.type = "cancel_job"
              /\ worker' = IF threads[j] = Idle THEN rest
                           ELSE [rest EXCEPT ![k].threads[j].stop = TRUE]
              /\ UNCHANGED wrote
           \/ /\ request.type = "process_document" /\ threads[j] = Idle
              /\ worker' = [rest EXCEPT ![k].threads[j] = Thread(c)]
              /\ UNCHANGED wrote
           \/ /\ request.type = "process_document" /\ threads[j] /= Idle
              /\ worker' = [rest EXCEPT ![k].output = Append(@, Line("error", c))]
              /\ wrote' = wrote \cup {[child |-> k, call |-> c, type |-> "error"]}
    /\ UNCHANGED <<child, pending, result, handled, inHand, sentTo, strayed, misread, budget>>

\* The cancellation is looked at before every page.
EmitPage(k, j) ==
    LET t == worker[k].threads[j]
    IN  /\ Runs(k) /\ t /= Idle
        /\ ~t.ended /\ ~t.stop /\ t.page < Pages
        /\ Writes(k, t.call, "page", [worker[k].threads EXCEPT ![j].page = @ + 1])
        /\ UNCHANGED <<child, pending, result, handled, inHand, sentTo, strayed, misread, budget>>

\* process_document returns, or run_job catches what it raised.
EmitEnd(k, j) ==
    LET t == worker[k].threads[j]
    IN  /\ Runs(k) /\ t /= Idle
        /\ ~t.ended
        /\ \E type \in Terminal :
             /\ type = "completed" => t.page = Pages
             /\ type = "cancelled" => (t.stop /\ t.page < Pages)
             /\ Writes(k, t.call, type, [worker[k].threads EXCEPT ![j].ended = TRUE])
        /\ UNCHANGED <<child, pending, result, handled, inHand, sentTo, strayed, misread, budget>>

\* The finally of run_job, after the last event of the job was written.
LeaveTable(k, j) ==
    /\ Runs(k) /\ worker[k].threads[j] /= Idle
    /\ worker[k].threads[j].ended
    /\ worker' = [worker EXCEPT ![k].threads[j] = Idle]
    /\ UNCHANGED <<child, pending, result, handled, inHand, histories, budget>>

\* A line that belongs to no job of the worker.
WriteStray(k) ==
    /\ Spent("faults")
    /\ worker[k].state = "running"
    /\ \E line \in StrayLines :
           worker' = [worker EXCEPT ![k].output = Append(@, line)]
    /\ strayed' = strayed \cup {k}
    /\ UNCHANGED <<child, pending, result, handled, inHand, sentTo, wrote, misread>>

Exited(k) == worker' = [worker EXCEPT ![k].state = "exited",
                                      ![k].input = <<>>, ![k].threads = Unborn.threads]

Crash(k) ==
    /\ Spent("faults")
    /\ worker[k].state = "running" /\ Exited(k)
    /\ UNCHANGED <<child, pending, result, handled, inHand, histories>>

\* A killed child goes.
Die(k) ==
    /\ worker[k].state = "killed" /\ Exited(k)
    /\ UNCHANGED <<child, pending, result, handled, inHand, histories, budget>>

-----------------------------------------------------------------------------
ClientNext(k) == \/ ReadLine(k) \/ HandlersReturn(k) \/ HandlerFails(k)
                 \/ PipeFails(k) \/ Close(k)
WorkerNext(k) == \/ ReadRequest(k) \/ WriteStray(k) \/ Crash(k) \/ Die(k)
                 \/ \E j \in JobIds : EmitPage(k, j) \/ EmitEnd(k, j) \/ LeaveTable(k, j)

Next == \/ \E c \in Calls : ProcessDocument(c)
        \/ \E j \in JobIds : CancelPending(j)
        \/ Stop
        \/ \E k \in Children : ClientNext(k) \/ WorkerNext(k)

\* The client has no timeout: it relies on a worker that reads its requests
\* and ends its jobs, or exits; and on handlers that return.
Fairness == \A k \in Children :
    /\ WF_vars(ReadLine(k)) /\ WF_vars(HandlersReturn(k)) /\ WF_vars(Close(k))
    /\ WF_vars(ReadRequest(k))
    /\ \A j \in JobIds : WF_vars(EmitPage(k, j) \/ EmitEnd(k, j))

Spec == Init /\ [][Next]_vars /\ Fairness

-----------------------------------------------------------------------------
(* What the application relies on                                          *)

\* A call waits exactly while it is the entry of its jobId, and always for the
\* child the client has now: no promise is forgotten when a child is failed,
\* stopped or replaced, or when a handler returns late.
WaitingIsPending ==
    \A c \in Calls :
        /\ result[c] = "waiting" <=> pending[JobId(c)] = c
        /\ result[c] = "waiting" => (child /= 0 /\ sentTo[c] = child)

\* A job is settled by the worker it was sent to, with an event that worker
\* wrote for it, and its handler sees no line of another: what a replaced child
\* left behind reaches no job of its successor, even under the same jobId and
\* for the same Document.
OwnWorkerAnswers ==
    /\ \A c \in Calls : result[c] \in Terminal =>
          [child |-> sentTo[c], call |-> c, type |-> result[c]] \in wrote
    /\ \A k \in Children : inHand[k] /= Idle => sentTo[inHand[k].call] = k

\* A job completes only after its handler has taken every page, though the
\* handlers may take their time.
CompletedIsWhole ==
    \A c \in Calls : result[c] = "completed" => Len(handled[c]) = Pages

\* The exit of a worker is handled after the lines it wrote before: a job that
\* was finished is not reported as cut off.
ExitLosesNothing ==
    \A c \in Calls : result[c] = "exited" =>
        ~\E type \in Terminal : [child |-> sentTo[c], call |-> c, type |-> type] \in wrote

\* The client kills no worker for lines that belong to its jobs: not for those
\* of a job cancelled or refused, nor for a job that reuses an id.
NoFalseAlarm == misread \subseteq strayed

\* Every call comes to an end, whatever crashes, stops or stray lines happen.
CallsSettle == \A c \in Calls : result[c] = "waiting" ~> result[c] /= "waiting"
=============================================================================
