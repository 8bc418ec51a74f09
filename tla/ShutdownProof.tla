---------------------------- MODULE ShutdownProof ----------------------------
(***************************************************************************)
(* Proofs about Shutdown, for any runs and operations, any requests to     *)
(* quit and any failures to close the database.                            *)
(***************************************************************************)
EXTENDS Shutdown, TLAPS

-----------------------------------------------------------------------------
(* The invariant                                                           *)

\* How far the shutdown is shows in the flags.
Phases ==
    /\ draining <=> shutdown /= "none"
    /\ draining => runnerClosed /\ ipcClosed
    /\ shutdown = "settled" <=> db /= "open"
    /\ gateOpen => shutdown = "settled"
    /\ exited => gateOpen
    /\ joined = IF draining THEN 1 ELSE 0
    /\ quits <= joined

\* Whoever may still write is awaited, until the deadline.
Awaited ==
    /\ shutdown = "draining" => \A r \in Runs : Waiting(r) => r \in registered
    /\ shutdown = "settled" => (expired \/ \A o \in Ops : ~Waiting(o))

IInv == TypeOK /\ Phases /\ Awaited /\ WritesKept /\ NetworkLetGo

-----------------------------------------------------------------------------
(* Types                                                                   *)

LEMMA InitType == Init => TypeOK
  <1> SUFFICES ASSUME Init PROVE TypeOK
    OBVIOUS
  <1>1. op \in [Ops -> {"none"} \cup Waits \cup Ends]
    BY DEF Init
  <1>2. budget \in [quits : Nat, faults : Nat]
    BY BoundsAssumption DEF Init
  <1> QED
    BY <1>1, <1>2 DEF Init, TypeOK

\* The budget keeps its shape.
LEMMA SpentType ==
    ASSUME TypeOK, NEW b \in {"quits", "faults"}, Spent(b)
    PROVE  budget' \in [quits : Nat, faults : Nat]
  <1>1. budget \in [quits : Nat, faults : Nat]
    BY DEF TypeOK
  <1>2. budget[b] \in Nat /\ budget[b] > 0
    BY <1>1 DEF Spent
  <1> QED
    BY <1>1, <1>2 DEF Spent

\* What the steps of an operation do to the types.
LEMMA OpType ==
    ASSUME TypeOK, NEW o \in Ops, StartIpc(o) \/ OpStep(o) \/ (o \in Runs /\ Analyze(o))
    PROVE  TypeOK'
  <1>1. CASE StartIpc(o)
    BY <1>1 DEF TypeOK, StartIpc, FirstWait, quitting, Waits
  <1>2. CASE OpStep(o)
    BY <1>2 DEF TypeOK, OpStep, AskWorker, Answered, Dismissed, Write, quitting, Waits, Ends
  <1>3. CASE o \in Runs /\ Analyze(o)
    BY <1>3 DEF TypeOK, Analyze, quitting, Waits
  <1> QED
    BY <1>1, <1>2, <1>3

\* What quitting does to the types.
LEMMA QuitType ==
    ASSUME TypeOK, RequestQuit \/ Expire \/ CloseDatabase \/ OpenGate \/ Quit
    PROVE  TypeOK'
  <1>1. CASE RequestQuit
    <2>1. budget' \in [quits : Nat, faults : Nat]
      BY <1>1, SpentType DEF RequestQuit
    <2>2. [o \in Ops |-> Stopped(o)] \in [Ops -> {"none"} \cup Waits \cup Ends]
      BY DEF TypeOK, Stopped, Waits
    <2>3. op' \in [Ops -> {"none"} \cup Waits \cup Ends] /\ registered' \subseteq Runs
      BY <1>1, <2>2 DEF TypeOK, RequestQuit, BeginShutdown, RegisteredRuns
    <2>4. joined' \in Nat /\ quits' \in Nat
      BY <1>1 DEF TypeOK, RequestQuit
    <2>5. /\ runnerClosed' \in BOOLEAN /\ ipcClosed' \in BOOLEAN
          /\ shutdown' \in {"none", "draining", "settled"}
      BY <1>1 DEF TypeOK, RequestQuit, BeginShutdown
    <2>6. /\ draining' \in BOOLEAN /\ exited' \in BOOLEAN
          /\ UNCHANGED <<expired, db, gateOpen>>
      BY <1>1 DEF TypeOK, RequestQuit
    <2> QED
      BY <2>1, <2>3, <2>4, <2>5, <2>6 DEF TypeOK
  <1>2. CASE Expire
    BY <1>2 DEF TypeOK, Expire
  <1>3. CASE CloseDatabase
    <2>1. budget' \in [quits : Nat, faults : Nat]
      BY <1>3, SpentType DEF CloseDatabase, TypeOK
    <2> QED
      BY <1>3, <2>1 DEF TypeOK, CloseDatabase
  <1>4. CASE OpenGate \/ Quit
    <2>1. joined' \in Nat /\ quits' \in Nat
      BY <1>4 DEF TypeOK, OpenGate, Quit
    <2> QED
      BY <1>4, <2>1 DEF TypeOK, OpenGate, Quit, AfterShutdown, Passes
  <1> QED
    BY <1>1, <1>2, <1>3, <1>4

-----------------------------------------------------------------------------
(* The rest of the invariant                                               *)

LEMMA InitInv == Init => IInv
  BY InitType DEF Init, IInv, Phases, Awaited, WritesKept, NetworkLetGo, TypeOK, Waiting, Waits

\* A step of an operation leaves the flags alone; before the drain it may do
\* anything, after it only what the drain awaits.
LEMMA OpInv ==
    ASSUME IInv, NEW o \in Ops, StartIpc(o) \/ OpStep(o) \/ (o \in Runs /\ Analyze(o))
    PROVE  IInv'
  <1>1. TypeOK'
    BY OpType DEF IInv
  <1>2. /\ UNCHANGED quitting
        /\ \A p \in Ops : op'[p] = op[p] \/ p = o \/ ~runnerClosed
    <2>1. CASE StartIpc(o) \/ (o \in Runs /\ Analyze(o))
      BY <2>1 DEF IInv, TypeOK, StartIpc, Analyze
    <2>2. CASE OpStep(o)
      BY <2>2 DEF IInv, TypeOK, OpStep, AskWorker, Answered, Dismissed, Write, Accepts
    <2> QED
      BY <2>1, <2>2
  <1>3. /\ draining => Waiting(o)
        /\ op'[o] = "network" => ~ipcClosed
        /\ op'[o] = "unwritten" => (Waiting(o) /\ db = "closed")
    <2>1. CASE StartIpc(o)
      BY <2>1 DEF IInv, Phases, TypeOK, StartIpc, FirstWait
    <2>2. CASE o \in Runs /\ Analyze(o)
      BY <2>2 DEF IInv, Phases, TypeOK, Analyze
    <2>3. CASE OpStep(o)
      BY <2>3 DEF IInv, TypeOK, OpStep, AskWorker, Answered, Dismissed, Write, Waiting, Waits
    <2> QED
      BY <2>1, <2>2, <2>3
  <1>4. Phases'
    BY <1>2 DEF IInv, Phases, quitting
  <1>5. Awaited'
    <2>1. \A p \in Ops : (runnerClosed /\ Waiting(p)') => (Waiting(p) \/ p = o)
      BY <1>2 DEF Waiting
    <2> QED
      BY <1>2, <1>3, <2>1 DEF IInv, Phases, Awaited, quitting, Ops
  <1>6. WritesKept'
    <2>1. \A p \in Ops : op'[p] = "unwritten" => op[p] = "unwritten" \/ p = o
      BY DEF IInv, TypeOK, StartIpc, FirstWait, OpStep, AskWorker, Answered, Dismissed, Write, Analyze
    <2> QED
      BY <1>2, <1>3, <2>1 DEF IInv, Phases, Awaited, WritesKept, quitting
  <1>7. NetworkLetGo'
    BY <1>2, <1>3 DEF IInv, Phases, NetworkLetGo, quitting
  <1> QED
    BY <1>1, <1>4, <1>5, <1>6, <1>7 DEF IInv

\* The drain begins with everybody who waits registered, and nobody left at the
\* network.
LEMMA RequestInv ==
    ASSUME IInv, RequestQuit
    PROVE  IInv'
  <1>1. TypeOK'
    BY QuitType DEF IInv
  <1>2. CASE draining \/ gateOpen
    <2>1. UNCHANGED <<op, runnerClosed, ipcClosed, shutdown, registered, draining,
                      joined, expired, db, gateOpen, quits>>
      BY <1>2 DEF IInv, Phases, RequestQuit, Passes, Begins
    <2>2. exited' => (exited \/ gateOpen)
      BY DEF RequestQuit, Passes
    <2> QED
      BY <1>1, <2>1, <2>2 DEF IInv, Phases, Awaited, WritesKept, NetworkLetGo, Waiting
  <1>3. CASE ~draining /\ ~gateOpen
    <2>1. shutdown = "none" /\ joined = 0 /\ quits = 0 /\ db = "open"
      BY <1>3 DEF IInv, Phases, TypeOK
    <2>2. /\ draining' /\ joined' = 1 /\ runnerClosed' /\ ipcClosed'
          /\ shutdown' = "draining" /\ registered' = {r \in Runs : Waiting(r)}
          /\ op' = [p \in Ops |-> Stopped(p)]
          /\ UNCHANGED <<expired, db, gateOpen, quits, exited>>
      BY <1>3, <2>1 DEF RequestQuit, Passes, Begins, BeginShutdown, RegisteredRuns
    <2>3. \A p \in Ops : /\ op'[p] /= "network"
                         /\ op'[p] \in Waits => op[p] \in Waits
                         /\ op'[p] = "unwritten" => op[p] = "unwritten"
      BY <2>2 DEF Stopped, Waits
    <2>4. Phases'
      BY <2>1, <2>2 DEF IInv, Phases
    <2>5. Awaited'
      BY <2>2, <2>3 DEF Awaited, Waiting, Ops
    <2>6. WritesKept' /\ NetworkLetGo'
      BY <2>2, <2>3 DEF IInv, WritesKept, NetworkLetGo
    <2> QED
      BY <1>1, <2>4, <2>5, <2>6 DEF IInv
  <1> QED
    BY <1>2, <1>3

\* The database closes when all are done, or late.
LEMMA CloseInv ==
    ASSUME IInv, CloseDatabase
    PROVE  IInv'
  <1>1. TypeOK'
    BY QuitType DEF IInv
  <1>2. Phases'
    BY DEF IInv, Phases, CloseDatabase
  <1>3. Awaited'
    BY DEF IInv, Awaited, CloseDatabase, Released, Drained, Waiting, Ops
  <1>4. WritesKept' /\ NetworkLetGo'
    BY DEF IInv, WritesKept, NetworkLetGo, CloseDatabase
  <1> QED
    BY <1>1, <1>2, <1>3, <1>4 DEF IInv

\* The timer, the gate and the quit.
LEMMA EndInv ==
    ASSUME IInv, Expire \/ OpenGate \/ Quit
    PROVE  IInv'
  <1>1. TypeOK'
    BY QuitType DEF IInv
  <1>2. Phases'
    BY DEF IInv, Phases, TypeOK, Expire, OpenGate, Quit, Passes
  <1>3. Awaited' /\ WritesKept' /\ NetworkLetGo'
    BY DEF IInv, Awaited, WritesKept, NetworkLetGo, Expire, OpenGate, Quit, Waiting
  <1> QED
    BY <1>1, <1>2, <1>3 DEF IInv

\* Every step keeps the invariant.
LEMMA NextInv == IInv /\ [Next]_vars => IInv'
  <1> SUFFICES ASSUME IInv, [Next]_vars PROVE IInv'
    OBVIOUS
  <1>1. ASSUME NEW o \in IpcOps, StartIpc(o) PROVE IInv'
    BY <1>1, OpInv DEF Ops
  <1>2. ASSUME NEW r \in Runs, Analyze(r) PROVE IInv'
    BY <1>2, OpInv DEF Ops
  <1>3. ASSUME NEW o \in Ops, OpStep(o) PROVE IInv'
    BY <1>3, OpInv
  <1>4. CASE RequestQuit
    BY <1>4, RequestInv
  <1>5. CASE CloseDatabase
    BY <1>5, CloseInv
  <1>6. CASE Expire \/ OpenGate \/ Quit
    BY <1>6, EndInv
  <1>7. CASE UNCHANGED vars
    BY <1>7 DEF vars, IInv, TypeOK, Phases, Awaited, WritesKept, NetworkLetGo, Waiting
  <1> QED
    BY <1>1, <1>2, <1>3, <1>4, <1>5, <1>6, <1>7 DEF Next

\* The flags, the drain and the writes always fit together.
THEOREM Inductive == Spec => []IInv
  BY InitInv, NextInv, PTL DEF Spec

-----------------------------------------------------------------------------
(* What the runs check, for every instance                                 *)

\* The variables keep their types.
THEOREM TypeCorrect == Spec => []TypeOK
  <1>1. IInv => TypeOK
    BY DEF IInv
  <1> QED
    BY <1>1, Inductive, PTL

\* The program is gone only after its shutdown, whatever quits were asked for.
THEOREM OrderlyExit == Spec => []ExitIsOrderly
  <1>1. IInv => ExitIsOrderly
    BY DEF IInv, Phases, Awaited, ExitIsOrderly
  <1> QED
    BY <1>1, Inductive, PTL

\* Before the deadline no operation meets a closed database.
THEOREM NoLateWrite == Spec => []WritesKept
  <1>1. IInv => WritesKept
    BY DEF IInv
  <1> QED
    BY <1>1, Inductive, PTL

\* The coordinator issues at most one quit, whatever the user asks meanwhile.
THEOREM QuitsOnce == Spec => []OneQuit
  <1>1. IInv => OneQuit
    BY DEF IInv, Phases, OneQuit, TypeOK
  <1> QED
    BY <1>1, Inductive, PTL

\* While the program quits nothing waits for the network.
THEOREM NetworkFree == Spec => []NetworkLetGo
  <1>1. IInv => NetworkLetGo
    BY DEF IInv
  <1> QED
    BY <1>1, Inductive, PTL
=============================================================================
