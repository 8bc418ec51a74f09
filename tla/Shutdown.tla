------------------------------ MODULE Shutdown ------------------------------
(***************************************************************************)
(* The orderly end of the program: the quit coordinator, the shutdown of   *)
(* the runtime, and what it must wait for: analysis runs and IPC           *)
(* operations, which wait in turn for a file, the Python worker, the       *)
(* network or a dialog, and then write what came of it.                    *)
(***************************************************************************)
EXTENDS Naturals

CONSTANTS
    Runs,           \* background runs of the analysis
    Stages,         \* diagnostic IPC operations that run one stage
    AiCalls,        \* IPC operations that ask the network provider
    Imports,        \* IPC operations that show a dialog
    RunOf(_),       \* the run an import schedules when it has succeeded
    MaxQuits,       \* bound: requests to quit
    MaxFaults       \* bound: failures to close the database

ASSUME BoundsAssumption ==
    /\ MaxQuits \in Nat /\ MaxFaults \in Nat
    /\ \A i \in Imports : RunOf(i) \in Runs

VARIABLES
    op,             \* what each run or IPC operation waits for
    runnerClosed,   \* DocumentAnalysisRunner.#closed
    ipcClosed,      \* IpcOperationTracker.#closed
    shutdown,       \* how far the promise of shutdown() is
    registered,     \* the runs whose promises the drain awaits
    expired,        \* whether the deadline of the drain has passed
    db,             \* the database connection
    draining, gateOpen,     \* the flags of the quit coordinator
    joined,         \* the continuations the coordinator hung on shutdown()
    quits,          \* history: the quits it issued
    exited,         \* whether the program is gone
    budget          \* what is left of the bounds above

vars == <<op, runnerClosed, ipcClosed, shutdown, registered, expired, db,
          draining, gateOpen, joined, quits, exited, budget>>

IpcOps == Stages \cup AiCalls \cup Imports
Ops == Runs \cup IpcOps
Waits == {"file", "worker", "network", "dialog", "write"}
Ends == {"done", "unwritten"}

TypeOK ==
    /\ op \in [Ops -> {"none"} \cup Waits \cup Ends]
    /\ runnerClosed \in BOOLEAN /\ ipcClosed \in BOOLEAN
    /\ expired \in BOOLEAN
    /\ draining \in BOOLEAN /\ gateOpen \in BOOLEAN /\ exited \in BOOLEAN
    /\ shutdown \in {"none", "draining", "settled"}
    /\ registered \subseteq Runs
    /\ db \in {"open", "closed", "stuck"}
    /\ joined \in Nat /\ quits \in Nat
    /\ budget \in [quits : Nat, faults : Nat]

Init ==
    /\ op = [o \in Ops |-> "none"]
    /\ runnerClosed = FALSE /\ ipcClosed = FALSE
    /\ shutdown = "none" /\ registered = {} /\ expired = FALSE
    /\ db = "open"
    /\ draining = FALSE /\ gateOpen = FALSE
    /\ joined = 0 /\ quits = 0 /\ exited = FALSE
    /\ budget = [quits |-> MaxQuits, faults |-> MaxFaults]

Spent(bound) == budget[bound] > 0 /\ budget' = [budget EXCEPT ![bound] = @ - 1]

quitting == <<runnerClosed, ipcClosed, shutdown, registered, expired, db,
              draining, gateOpen, joined, quits, exited>>

-----------------------------------------------------------------------------
(* Operations                                                              *)

\* The first thing an operation waits for.
FirstWait(o) == IF o \in AiCalls THEN "network" ELSE IF o \in Imports THEN "dialog" ELSE "file"

\* IpcOperationTracker.run.
StartIpc(o) ==
    /\ ~exited /\ ~ipcClosed
    /\ op[o] = "none"
    /\ op' = [op EXCEPT ![o] = FirstWait(o)]
    /\ UNCHANGED <<quitting, budget>>

\* Mutant: a run is taken on whatever the runner was told.
AlwaysAccepts(r) == op[r] = "none"

\* DocumentAnalysisRunner.start: ignored after close.
Accepts(r) == ~runnerClosed /\ op[r] = "none"

\* The channel document:analyze: an IPC operation of one turn.
Analyze(r) ==
    /\ ~exited /\ ~ipcClosed
    /\ Accepts(r)
    /\ op' = [op EXCEPT ![r] = "file"]
    /\ UNCHANGED <<quitting, budget>>

\* The source has been inspected: the worker is started if there is none.
AskWorker(o) ==
    /\ ~exited
    /\ o \in Runs \cup Stages /\ op[o] = "file"
    /\ op' = [op EXCEPT ![o] = "worker"]
    /\ UNCHANGED <<quitting, budget>>

\* An answer or an error, from the worker or the provider; a file was picked.
Answered(o) ==
    /\ ~exited
    /\ op[o] \in {"worker", "network", "dialog"}
    /\ op' = [op EXCEPT ![o] = "write"]
    /\ UNCHANGED <<quitting, budget>>

\* A dialog that is dismissed leaves nothing to write.
Dismissed(o) ==
    /\ ~exited
    /\ op[o] = "dialog"
    /\ op' = [op EXCEPT ![o] = "done"]
    /\ UNCHANGED <<quitting, budget>>

\* The result or the failure is written; an import then schedules its run.  On a
\* closed database the row stays as it is, for the recovery of the next start.
Write(o) ==
    /\ ~exited
    /\ op[o] = "write"
    /\ op' = [p \in Ops |->
          IF p = o THEN IF db = "closed" THEN "unwritten" ELSE "done"
          ELSE IF o \in Imports /\ p = RunOf(o) /\ db /= "closed" /\ Accepts(p) THEN "file"
          ELSE op[p]]
    /\ UNCHANGED <<quitting, budget>>

-----------------------------------------------------------------------------
(* Quitting                                                                *)

Waiting(o) == op[o] \in Waits

\* Mutant: the requests in flight are left to their own timeouts.
NotAborted(o) == IF op[o] = "worker" THEN "write" ELSE op[o]

\* cancelActive and stop: who waits for the network or the worker fails now.
Stopped(o) == IF op[o] \in {"network", "worker"} THEN "write" ELSE op[o]

\* Mutant: a second request during the drain is let through.
PassesLater == gateOpen \/ draining

\* The gate.
Passes == gateOpen

\* Mutant: every request waits for the shutdown, and quits after it.
Joins == TRUE

\* Only the first request begins the drain.
Begins == ~draining

\* Mutant: the runner waits for operations that are not its own.
RegisteredOps == {o \in Ops : Waiting(o)}

\* The promises a drain of the runner finds.
RegisteredRuns == {r \in Runs : Waiting(r)}

\* shutdown() up to its drain; a second call gets the promise of the first.
BeginShutdown ==
    IF shutdown = "none"
    THEN /\ runnerClosed' = TRUE /\ ipcClosed' = TRUE
         /\ op' = [o \in Ops |-> Stopped(o)]
         /\ registered' = RegisteredRuns
         /\ shutdown' = "draining"
    ELSE UNCHANGED <<runnerClosed, ipcClosed, op, registered, shutdown>>

\* before-quit, on a request of the user.
RequestQuit ==
    /\ Spent("quits")
    /\ ~exited
    /\ \/ /\ Passes
          /\ exited' = TRUE
          /\ UNCHANGED <<op, runnerClosed, ipcClosed, shutdown, registered, draining, joined>>
       \/ /\ ~Passes /\ Begins
          /\ draining' = TRUE
          /\ joined' = joined + 1
          /\ BeginShutdown
          /\ UNCHANGED exited
       \/ /\ ~Passes /\ ~Begins
          /\ UNCHANGED <<op, runnerClosed, ipcClosed, shutdown, registered, draining, joined, exited>>
    /\ UNCHANGED <<expired, db, gateOpen, quits>>

\* The timer of drainWithDeadline.
Expire ==
    /\ shutdown = "draining" /\ ~expired
    /\ expired' = TRUE
    /\ UNCHANGED <<op, runnerClosed, ipcClosed, shutdown, registered, db,
                   draining, gateOpen, joined, quits, exited, budget>>

\* Mutant: only the runs are awaited.
RunsDrained == \A r \in registered : ~Waiting(r)

\* The runs there were when the drain began, and every IPC operation.
Drained == (\A r \in registered : ~Waiting(r)) /\ (\A o \in IpcOps : ~Waiting(o))

\* Mutant: the drain has no deadline.
WhenDrained == Drained

\* drainWithDeadline.
Released == Drained \/ expired

\* closeDatabase: the connection may refuse to close.
CloseDatabase ==
    /\ shutdown = "draining" /\ Released
    /\ \/ db' = "closed" /\ UNCHANGED budget
       \/ db' = "stuck" /\ Spent("faults")
    /\ shutdown' = "settled"
    /\ UNCHANGED <<op, runnerClosed, ipcClosed, registered, expired,
                   draining, gateOpen, joined, quits, exited>>

\* Mutant: a shutdown that is rejected leaves the gate shut.
AfterSuccess == db = "closed"

\* The gate opens however the shutdown ended.
AfterShutdown == TRUE

\* The finally of the coordinator: the gate opens and one quit is issued.
OpenGate ==
    /\ shutdown = "settled" /\ ~exited /\ AfterShutdown
    /\ quits < joined
    /\ gateOpen' = TRUE
    /\ quits' = quits + 1
    /\ UNCHANGED <<op, runnerClosed, ipcClosed, shutdown, registered, expired,
                   db, draining, joined, exited, budget>>

\* before-quit, for the quit that was issued.
Quit ==
    /\ quits > 0 /\ ~exited
    /\ Passes
    /\ exited' = TRUE
    /\ UNCHANGED <<op, runnerClosed, ipcClosed, shutdown, registered, expired,
                   db, draining, gateOpen, joined, quits, budget>>

-----------------------------------------------------------------------------
OpStep(o) == AskWorker(o) \/ Answered(o) \/ Dismissed(o) \/ Write(o)

Next == \/ \E o \in IpcOps : StartIpc(o)
        \/ \E r \in Runs : Analyze(r)
        \/ \E o \in Ops : OpStep(o)
        \/ RequestQuit \/ Expire \/ CloseDatabase \/ OpenGate \/ Quit

\* Only the timer and the program's own continuations are relied on: a dialog
\* may stay open, a worker or a provider may never answer.
Fairness == WF_vars(Expire) /\ WF_vars(CloseDatabase)
            /\ WF_vars(OpenGate) /\ WF_vars(Quit)

Spec == Init /\ [][Next]_vars /\ Fairness

-----------------------------------------------------------------------------
(* What the user and the database rely on                                  *)

\* The program is gone only after the shutdown has run: the intake is closed, the
\* database is closed or has refused to, and what still ran had its time.
ExitIsOrderly ==
    exited => /\ runnerClosed /\ ipcClosed /\ db /= "open"
              /\ expired \/ \A o \in Ops : ~Waiting(o)

\* An operation meets a closed database only when the deadline has passed: the
\* runs and operations that a shutdown finds, and the failures it causes in
\* them, are written before the database closes.
WritesKept == (\E o \in Ops : op[o] = "unwritten") => expired

\* However often the user asks, at most one quit is issued.
OneQuit == quits <= 1

\* No operation holds the exit by waiting for the network: requests in flight
\* are aborted, and new ones are refused.
NetworkLetGo == draining => \A o \in Ops : op[o] /= "network"

\* A request to quit ends the program, though a dialog stays open, a worker does
\* not answer or the database does not close.
QuitEnds == draining ~> exited

\* The comment of shutdown() says that it settles the two unbounded waiters, AI
\* calls and the Python child, and keeps the deadline for other cases.
WorkerLetGo == draining => \A o \in Ops : op[o] /= "worker"
=============================================================================
