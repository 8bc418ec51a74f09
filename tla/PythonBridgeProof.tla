-------------------------- MODULE PythonBridgeProof --------------------------
(***************************************************************************)
(* Proofs about PythonBridge, for any calls, jobIds and Documents, any     *)
(* number of children, and any stops, cancellations, crashes, stray lines  *)
(* and failing handlers.                                                   *)
(***************************************************************************)
EXTENDS PythonBridge, FiniteSetTheorems, TLAPS

-----------------------------------------------------------------------------
(* Types                                                                   *)

Messages == [type : {"process_document"}, call : Calls] \cup [type : {"cancel_job"}, job : JobIds]
States == {"unborn", "running", "killed", "exited", "closed"}
Workers == [state : States, input : Seq(Messages), threads : [JobIds -> {Idle} \cup Threads],
            output : Seq(Lines)]
Results == {"none", "waiting", "failed", "exited", "refused"} \cup Terminal
Answers == [child : Children, call : Calls, type : Terminal]

Typed ==
    /\ child \in 0..MaxChildren
    /\ pending \in [JobIds -> Calls \cup {Idle}]
    /\ result \in [Calls -> Results]
    /\ handled \in [Calls -> Seq(Nat)]
    /\ worker \in [Children -> Workers]
    /\ inHand \in [Children -> {Idle} \cup Events]
    /\ sentTo \in [Calls -> 0..MaxChildren]
    /\ wrote \subseteq Answers
    /\ strayed \subseteq Children /\ misread \subseteq Children
    /\ budget \in [stops : Nat, cancels : Nat, faults : Nat]

-----------------------------------------------------------------------------
(* The invariant                                                           *)

\* Children are spawned in their order; one that is not has done nothing.
Spawning ==
    \E m \in 0..MaxChildren : \A k \in Children :
        IF k <= m THEN worker[k].state /= "unborn"
        ELSE /\ worker[k] = Unborn /\ inHand[k] = Idle
             /\ \A c \in Calls : sentTo[c] /= k

\* The child the client has was neither killed nor closed.
CurrentLives == child /= 0 => worker[child].state \in {"running", "exited"}

\* What is under way for a call is under way at the child it was sent to.
Addressed ==
    /\ \A c \in Calls : result[c] = "none" => sentTo[c] = 0
    /\ \A j \in JobIds : pending[j] /= Idle => JobId(pending[j]) = j
    /\ \A a \in wrote : sentTo[a.call] = a.child
    /\ \A k \in Children :
         /\ \A i \in DOMAIN worker[k].input :
              worker[k].input[i].type = "process_document" =>
                  sentTo[worker[k].input[i].call] = k
         /\ \A j \in JobIds : worker[k].threads[j] /= Idle =>
              /\ sentTo[worker[k].threads[j].call] = k
              /\ JobId(worker[k].threads[j].call) = j
         /\ inHand[k] /= Idle => sentTo[inHand[k].call] = k

\* A stray line is one of a child that wrote such a line.
StraysKnown ==
    \A k \in Children : \A i \in DOMAIN worker[k].output :
        worker[k].output[i] \in StrayLines => k \in strayed

\* The calls cut off by an exit were sent to a child that is closed.
ExitedClosed ==
    \A c \in Calls : result[c] = "exited" =>
        sentTo[c] \in Children /\ worker[sentTo[c]].state = "closed"

\* Of the child the client has: every line but a stray one is expected; the last
\* line of a job is its last event, which the worker has written for it.
LinesExpected(k) ==
    \A i \in DOMAIN worker[k].output :
        LET line == worker[k].output[i]
        IN  /\ line \in StrayLines \/ Expected(line)
            /\ line.type \in Terminal =>
                 /\ [child |-> k, call |-> pending[line.job], type |-> line.type] \in wrote
                 /\ \A m \in DOMAIN worker[k].output :
                      (m > i /\ worker[k].output[m] \notin StrayLines)
                          => worker[k].output[m].job /= line.job

\* The line in hand is that of a call that is pending, and if it is the last
\* event of the job no line of that job is behind it.
HandExpected(k) ==
    inHand[k] /= Idle =>
        LET line == inHand[k].line
        IN  /\ pending[line.job] = inHand[k].call
            /\ line.doc = DocumentId(inHand[k].call)
            /\ line.type \in Terminal =>
                 /\ [child |-> k, call |-> inHand[k].call, type |-> line.type] \in wrote
                 /\ \A m \in DOMAIN worker[k].output :
                      worker[k].output[m] \notin StrayLines
                          => worker[k].output[m].job /= line.job

\* What was written for a call that waits is still under way.
Undelivered(k) ==
    \A a \in wrote : (a.child = k /\ result[a.call] = "waiting") =>
        \/ \E i \in DOMAIN worker[k].output : worker[k].output[i] = Line(a.type, a.call)
        \/ inHand[k] /= Idle /\ inHand[k].line = Line(a.type, a.call)

\* No last event of the call is written yet, nor is one of its job under way.
Unanswered(k, c) ==
    /\ \A a \in wrote : ~(a.child = k /\ a.call = c)
    /\ \A i \in DOMAIN worker[k].output :
         worker[k].output[i].type \in Terminal => worker[k].output[i].job /= JobId(c)
    /\ (inHand[k] /= Idle /\ inHand[k].line.type \in Terminal) => inHand[k].line.job /= JobId(c)

\* A request that is not read yet is that of a pending call, and the only one for
\* its job.
RequestsPending(k) ==
    \A i \in DOMAIN worker[k].input :
        LET c == worker[k].input[i].call
        IN  worker[k].input[i].type = "process_document" =>
              /\ pending[JobId(c)] = c /\ Unanswered(k, c)
              /\ worker[k].threads[JobId(c)] = Idle \/ worker[k].threads[JobId(c)].ended
              /\ \A m \in DOMAIN worker[k].input :
                   (m /= i /\ worker[k].input[m].type = "process_document")
                       => JobId(worker[k].input[m].call) /= JobId(c)

\* So is the job a thread still works on.
ThreadsPending(k) ==
    \A j \in JobIds :
        LET t == worker[k].threads[j]
        IN  (t /= Idle /\ ~t.ended) => pending[j] = t.call /\ Unanswered(k, t.call)

AtCurrent(k) ==
    /\ LinesExpected(k) /\ HandExpected(k) /\ Undelivered(k)
    /\ RequestsPending(k) /\ ThreadsPending(k)

IInv ==
    /\ Typed /\ Spawning /\ CurrentLives /\ Addressed /\ StraysKnown /\ ExitedClosed
    /\ WaitingIsPending /\ OwnWorkerAnswers /\ ExitLosesNothing /\ NoFalseAlarm
    /\ \A k \in Children : child = k => AtCurrent(k)

-----------------------------------------------------------------------------
(* Sequences, lines and records                                            *)

LEMMA AppendFacts ==
    ASSUME NEW S, NEW s \in Seq(S), NEW e \in S
    PROVE  /\ Append(s, e) \in Seq(S)
           /\ Len(s) \in Nat /\ DOMAIN s = 1..Len(s)
           /\ DOMAIN Append(s, e) = 1..(Len(s) + 1)
           /\ Append(s, e)[Len(s) + 1] = e
           /\ \A i \in 1..Len(s) : Append(s, e)[i] = s[i]
  OBVIOUS

LEMMA TailFacts ==
    ASSUME NEW S, NEW s \in Seq(S), s /= <<>>
    PROVE  /\ Tail(s) \in Seq(S) /\ Head(s) \in S /\ Head(s) = s[1]
           /\ Len(s) \in Nat /\ Len(s) > 0 /\ DOMAIN s = 1..Len(s)
           /\ DOMAIN Tail(s) = 1..(Len(s) - 1)
           /\ \A i \in 1..(Len(s) - 1) : Tail(s)[i] = s[i + 1]
  OBVIOUS

LEMMA Elements ==
    ASSUME NEW S, NEW s \in Seq(S)
    PROVE  /\ Len(s) \in Nat /\ DOMAIN s = 1..Len(s)
           /\ \A i \in DOMAIN s : s[i] \in S
  OBVIOUS

\* The last events are those of jobs, and none of them is a stray line.
LEMMA LineKinds ==
    /\ \A c \in Calls, type \in {"page"} \cup Terminal :
         /\ Line(type, c) \in Lines \ {Garbage} /\ Line(type, c) \notin StrayLines
         /\ Line(type, c).type = type /\ Line(type, c).job = JobId(c)
         /\ Line(type, c).doc = DocumentId(c)
    /\ \A line \in Lines : line.type \in Terminal => line /= Garbage /\ line \notin StrayLines
    /\ StrayLines \subseteq Lines
    /\ \A line \in Lines \ {Garbage} : line.job \in JobIds /\ line.type \in {"page"} \cup Terminal
  <1>1. \A c \in Calls : JobId(c) \in JobIds /\ DocumentId(c) \in DocumentIds
    BY DEF JobIds, DocumentIds
  <1>2. \A line \in Lines : line.type \in Terminal => line /= Garbage
    BY DEF Garbage, Terminal
  <1>3. \A line \in Lines : line.type \in Terminal => line \notin StrayLines
    BY <1>2 DEF StrayLines, Terminal
  <1>4. ASSUME NEW c \in Calls, NEW type \in {"page"} \cup Terminal
        PROVE  /\ Line(type, c) \in Lines \ {Garbage} /\ Line(type, c) \notin StrayLines
               /\ Line(type, c).type = type /\ Line(type, c).job = JobId(c)
               /\ Line(type, c).doc = DocumentId(c)
    <2>1. /\ Line(type, c).type = type /\ Line(type, c).job = JobId(c)
          /\ Line(type, c).doc = DocumentId(c)
      BY DEF Line
    <2>2. Line(type, c) \in [type : {"page"} \cup Terminal, job : JobIds, doc : DocumentIds]
      BY <1>1 DEF Line
    <2>3. Line(type, c) /= Garbage
      BY <2>1 DEF Garbage, Terminal
    <2>4. Line(type, c) \notin StrayLines
      <3>1. CASE type = "page"
        BY <2>3, <3>1 DEF StrayLines
      <3>2. CASE type \in Terminal
        BY <1>3, <2>1, <2>2, <3>2 DEF Lines
      <3> QED
        BY <3>1, <3>2
    <2> QED
      BY <2>1, <2>2, <2>3, <2>4 DEF Lines
  <1>5. StrayLines \subseteq Lines
    BY DEF StrayLines, Lines
  <1>6. \A line \in Lines \ {Garbage} : line.job \in JobIds /\ line.type \in {"page"} \cup Terminal
    BY DEF Lines
  <1> QED
    BY <1>2, <1>3, <1>4, <1>5, <1>6

\* A stray line is never expected.
LEMMA StrayUnexpected ==
    ASSUME Typed, Addressed, NEW line \in StrayLines
    PROVE  ~Expected(line)
  <1> SUFFICES ASSUME Expected(line) PROVE FALSE
    OBVIOUS
  <1>1. line /= Garbage /\ pending[line.job] /= Idle /\ DocumentId(pending[line.job]) = line.doc
    BY DEF Expected
  <1>2. /\ line \in [type : {"page"}, job : JobIds, doc : DocumentIds]
        /\ line \notin {Line("page", c) : c \in Calls}
    BY <1>1 DEF StrayLines
  <1>3. PICK c \in Calls : c = pending[line.job]
    BY <1>1, <1>2 DEF Typed
  <1>4. JobId(c) = line.job /\ DocumentId(c) = line.doc
    BY <1>1, <1>2, <1>3 DEF Addressed
  <1>5. line = Line("page", c)
    BY <1>2, <1>4 DEF Line
  <1> QED
    BY <1>2, <1>5

LEMMA SpentType ==
    ASSUME Typed, NEW b \in {"stops", "cancels", "faults"}, Spent(b)
    PROVE  budget' \in [stops : Nat, cancels : Nat, faults : Nat]
  <1>1. budget \in [stops : Nat, cancels : Nat, faults : Nat]
    BY DEF Typed
  <1>2. budget[b] \in Nat /\ budget[b] > 0
    BY <1>1 DEF Spent
  <1> QED
    BY <1>1, <1>2 DEF Spent

-----------------------------------------------------------------------------
(* Steps of a worker                                                       *)

\* The requests and threads of a worker are of calls that were sent to it.
Owns(k, w) ==
    /\ \A i \in DOMAIN w.input :
         w.input[i].type = "process_document" => sentTo[w.input[i].call] = k
    /\ \A j \in JobIds : w.threads[j] /= Idle =>
         sentTo[w.threads[j].call] = k /\ JobId(w.threads[j].call) = j

\* What is expected of a worker that does not move stays expected.
LEMMA LinesKept ==
    ASSUME NEW x, LinesExpected(x), worker'[x] = worker[x], UNCHANGED pending, wrote \subseteq wrote'
    PROVE  LinesExpected(x)'
  BY DEF LinesExpected, Expected

LEMMA RequestsKept ==
    ASSUME NEW x, RequestsPending(x), worker'[x] = worker[x], UNCHANGED pending,
           \A c : Unanswered(x, c) => Unanswered(x, c)'
    PROVE  RequestsPending(x)'
  BY DEF RequestsPending

LEMMA ThreadsKept ==
    ASSUME NEW x, ThreadsPending(x), worker'[x] = worker[x], UNCHANGED pending,
           \A c : Unanswered(x, c) => Unanswered(x, c)'
    PROVE  ThreadsPending(x)'
  BY DEF ThreadsPending

\* What a step of one process keeps, whatever else it does.
LEMMA WorkerStep ==
    ASSUME IInv, NEW k \in Children, NEW w \in Workers,
           worker' = [worker EXCEPT ![k] = w],
           UNCHANGED <<child, pending, result, handled, inHand, sentTo, misread>>,
           worker[k].state /= "unborn", w.state /= "unborn",
           worker[k].state = "closed" => (w.state = "closed" /\ wrote' = wrote),
           child = k => w.state \in {"running", "exited"},
           strayed \subseteq strayed', strayed' \subseteq Children,
           budget' \in [stops : Nat, cancels : Nat, faults : Nat],
           wrote \subseteq wrote', wrote' \subseteq Answers,
           \A a \in wrote' : a \in wrote \/ (a.child = k /\ sentTo[a.call] = k),
           Owns(k, w),
           \A i \in DOMAIN w.output : w.output[i] \in StrayLines => k \in strayed',
           child = k => AtCurrent(k)'
    PROVE  IInv'
  <1> USE DEF IInv
  <1>1. /\ \A m \in Children : worker'[m] = IF m = k THEN w ELSE worker[m]
        /\ worker' \in [Children -> Workers]
    BY DEF Typed
  <1>2. Typed'
    BY <1>1 DEF Typed
  <1>3. Spawning'
    <2>1. PICK m \in 0..MaxChildren : \A x \in Children :
            IF x <= m THEN worker[x].state /= "unborn"
            ELSE worker[x] = Unborn /\ inHand[x] = Idle /\ \A c \in Calls : sentTo[c] /= x
      BY DEF Spawning
    <2>2. k <= m
      BY <2>1 DEF Unborn
    <2> QED
      BY <1>1, <2>1, <2>2 DEF Spawning
  <1>4. CurrentLives'
    <2>1. child /= 0 => child \in Children
      BY BoundsAssumption DEF Typed, Children
    <2> QED
      BY <1>1, <2>1 DEF CurrentLives
  <1>5. Addressed'
    <2>1. /\ \A c \in Calls : result'[c] = "none" => sentTo'[c] = 0
          /\ \A j \in JobIds : pending'[j] /= Idle => JobId(pending'[j]) = j
          /\ \A x \in Children : inHand'[x] /= Idle => sentTo'[inHand'[x].call] = x
      BY DEF Addressed
    <2>2. \A a \in wrote' : sentTo'[a.call] = a.child
      BY DEF Addressed
    <2>3. \A x \in Children : Owns(x, worker[x])
      BY DEF Addressed, Owns
    <2>4. \A x \in Children : Owns(x, worker'[x])
      BY <1>1, <2>3
    <2> QED
      BY <2>1, <2>2, <2>4, SMTT(20) DEF Addressed, Owns
  <1>6. StraysKnown'
    BY <1>1 DEF StraysKnown
  <1>7. ExitedClosed' /\ ExitLosesNothing'
    <2>1. ExitedClosed'
      BY <1>1 DEF ExitedClosed
    <2>2. \A c \in Calls : result[c] = "exited" => (sentTo[c] /= k \/ wrote' = wrote)
      BY DEF ExitedClosed
    <2>3. ExitLosesNothing'
      BY <2>2 DEF ExitLosesNothing
    <2> QED
      BY <2>1, <2>3
  <1>8. WaitingIsPending' /\ OwnWorkerAnswers' /\ NoFalseAlarm'
    <2>1. WaitingIsPending'
      BY DEF WaitingIsPending
    <2>2. OwnWorkerAnswers'
      BY DEF OwnWorkerAnswers
    <2> QED
      BY <2>1, <2>2 DEF NoFalseAlarm
  <1>9. ASSUME NEW x \in Children, child' = x, x /= k PROVE AtCurrent(x)'
    <2>1. AtCurrent(x)
      BY <1>9
    <2>2. /\ worker'[x] = worker[x] /\ UNCHANGED <<pending, result, inHand>>
          /\ \A a \in wrote' : a.child = x => a \in wrote
      BY <1>1, <1>9
    <2>3. \A c : Unanswered(x, c) => Unanswered(x, c)'
      BY <2>2 DEF Unanswered
    <2>4. LinesExpected(x)' /\ HandExpected(x)' /\ Undelivered(x)'
      <3>1. LinesExpected(x)'
        BY <2>1, <2>2, LinesKept DEF AtCurrent
      <3>2. HandExpected(x)'
        BY <2>1, <2>2 DEF AtCurrent, HandExpected
      <3>3. Undelivered(x)'
        BY <2>1, <2>2 DEF AtCurrent, Undelivered
      <3> QED
        BY <3>1, <3>2, <3>3
    <2>5. RequestsPending(x)' /\ ThreadsPending(x)'
      <3>1. RequestsPending(x)'
        BY <2>1, <2>2, <2>3, RequestsKept DEF AtCurrent
      <3>2. ThreadsPending(x)'
        BY <2>1, <2>2, <2>3, ThreadsKept DEF AtCurrent
      <3> QED
        BY <3>1, <3>2
    <2> QED
      BY <2>4, <2>5 DEF AtCurrent
  <1>10. \A x \in Children : child' = x => AtCurrent(x)'
    BY <1>9
  <1> QED
    BY <1>2, <1>3, <1>4, <1>5, <1>6, <1>7, <1>8, <1>10

\* A step that writes no line and settles nothing leaves what is under way.
LEMMA NoLine ==
    ASSUME NEW k \in Children, LinesExpected(k), HandExpected(k), Undelivered(k),
           worker'[k].output = worker[k].output, UNCHANGED <<pending, result, inHand, wrote>>
    PROVE  /\ LinesExpected(k)' /\ HandExpected(k)' /\ Undelivered(k)'
           /\ \A d : Unanswered(k, d) => Unanswered(k, d)'
  <1>1. LinesExpected(k)'
    BY DEF LinesExpected, Expected
  <1>2. HandExpected(k)'
    BY DEF HandExpected
  <1>3. Undelivered(k)'
    BY DEF Undelivered
  <1>4. \A d : Unanswered(k, d) => Unanswered(k, d)'
    BY DEF Unanswered
  <1> QED
    BY <1>1, <1>2, <1>3, <1>4

\* A line of the job of a call that is pending and not answered yet.
LEMMA JobLine ==
    ASSUME IInv, NEW k \in Children, AtCurrent(k), NEW c \in Calls,
           NEW type \in {"page"} \cup Terminal,
           pending[JobId(c)] = c, Unanswered(k, c),
           worker'[k].output = Append(worker[k].output, Line(type, c)),
           UNCHANGED <<pending, result, inHand>>,
           wrote' = IF type \in Terminal
                    THEN wrote \cup {[child |-> k, call |-> c, type |-> type]} ELSE wrote
    PROVE  /\ LinesExpected(k)' /\ HandExpected(k)' /\ Undelivered(k)'
           /\ \A d : (Unanswered(k, d) /\ (type \in Terminal => d /= c /\ JobId(d) /= JobId(c)))
                        => Unanswered(k, d)'
  <1> DEFINE line == Line(type, c)
  <1>1. /\ line \in Lines \ {Garbage} /\ line \notin StrayLines
        /\ line.type = type /\ line.job = JobId(c) /\ line.doc = DocumentId(c)
    BY LineKinds DEF line
  <1> HIDE DEF line
  <1>2. PICK out \in Seq(Lines) : out = worker[k].output
    BY DEF IInv, Typed, Workers
  <1>3. PICK n \in Nat : n = Len(out)
    OBVIOUS
  <1>4. PICK next \in Seq(Lines) :
              /\ next = worker'[k].output
              /\ DOMAIN out = 1..n /\ DOMAIN next = 1..(n + 1) /\ next[n + 1] = line
              /\ \A i \in 1..n : next[i] = out[i]
    <2>1. /\ Append(out, line) \in Seq(Lines) /\ DOMAIN out = 1..n
          /\ DOMAIN Append(out, line) = 1..(n + 1) /\ Append(out, line)[n + 1] = line
          /\ \A i \in 1..n : Append(out, line)[i] = out[i]
      BY <1>1, <1>3, AppendFacts
    <2>2. Append(out, line) = worker'[k].output
      BY <1>2 DEF line
    <2> QED
      BY <2>1, <2>2
  <1>5. Expected(line)
    <2>1. pending[JobId(c)] /= Idle
      BY IdleAssumption
    <2> QED
      BY <1>1, <2>1 DEF Expected
  <1>6. wrote \subseteq wrote' /\ (type \in Terminal => [child |-> k, call |-> c, type |-> type] \in wrote')
    OBVIOUS
  <1>7. LinesExpected(k)'
    <2>1. ASSUME NEW i \in 1..(n + 1)
          PROVE  /\ next[i] \in StrayLines \/ Expected(next[i])
                 /\ next[i].type \in Terminal =>
                      /\ [child |-> k, call |-> pending[next[i].job], type |-> next[i].type] \in wrote'
                      /\ \A m \in 1..(n + 1) :
                           (m > i /\ next[m] \notin StrayLines) => next[m].job /= next[i].job
      <3>1. CASE i = n + 1
        <4>1. next[i] = line
          BY <1>4, <3>1
        <4>2. \A m \in 1..(n + 1) : ~(m > i)
          BY <3>1
        <4> QED
          BY <1>1, <1>5, <1>6, <4>1, <4>2
      <3>2. CASE i \in 1..n
        <4>1. /\ out[i] \in StrayLines \/ Expected(out[i])
              /\ out[i].type \in Terminal =>
                   /\ [child |-> k, call |-> pending[out[i].job], type |-> out[i].type] \in wrote
                   /\ \A m \in 1..n : (m > i /\ out[m] \notin StrayLines) => out[m].job /= out[i].job
          BY <1>2, <1>4, <3>2 DEF AtCurrent, LinesExpected
        <4>2. out[i].type \in Terminal => out[i].job /= line.job
          BY <1>1, <1>2, <1>4, <3>2 DEF Unanswered
        <4>3. \A m \in 1..(n + 1) : m \in 1..n \/ m = n + 1
          OBVIOUS
        <4> QED
          BY <1>4, <1>6, <3>2, <4>1, <4>2, <4>3
      <3> QED
        BY <3>1, <3>2
    <2>2. \A l : Expected(l)' <=> Expected(l)
      BY DEF Expected
    <2> QED
      BY <1>4, <2>1, <2>2 DEF LinesExpected
  <1>8. HandExpected(k)'
    <2>1. (inHand[k] /= Idle /\ inHand[k].line.type \in Terminal) => inHand[k].line.job /= line.job
      BY <1>1 DEF Unanswered
    <2>2. \A m \in 1..(n + 1) : m \in 1..n \/ m = n + 1
      OBVIOUS
    <2> QED
      BY <1>2, <1>4, <1>6, <2>1, <2>2 DEF AtCurrent, HandExpected
  <1>9. Undelivered(k)'
    <2>1. ASSUME NEW a \in wrote', a.child = k, result[a.call] = "waiting"
          PROVE  (\E i \in 1..(n + 1) : next[i] = Line(a.type, a.call))
                    \/ (inHand[k] /= Idle /\ inHand[k].line = Line(a.type, a.call))
      <3>1. CASE a \in wrote
        BY <1>2, <1>4, <2>1, <3>1 DEF AtCurrent, Undelivered
      <3>2. CASE type \in Terminal /\ a = [child |-> k, call |-> c, type |-> type]
        <4>1. next[n + 1] = Line(a.type, a.call) /\ n + 1 \in 1..(n + 1)
          BY <1>4, <3>2 DEF line
        <4> QED
          BY <4>1
      <3> QED
        BY <3>1, <3>2
    <2> QED
      BY <1>4, <2>1 DEF Undelivered
  <1>10. ASSUME NEW d, Unanswered(k, d), type \in Terminal => d /= c /\ JobId(d) /= JobId(c)
         PROVE  Unanswered(k, d)'
    <2>1. \A a \in wrote' : ~(a.child = k /\ a.call = d)
      BY <1>10 DEF Unanswered
    <2>2. \A i \in 1..(n + 1) : next[i].type \in Terminal => next[i].job /= JobId(d)
      <3>1. \A i \in 1..n : out[i].type \in Terminal => out[i].job /= JobId(d)
        BY <1>2, <1>4, <1>10 DEF Unanswered
      <3>2. \A i \in 1..(n + 1) : i \in 1..n \/ i = n + 1
        OBVIOUS
      <3> QED
        BY <1>1, <1>4, <1>10, <3>1, <3>2
    <2> QED
      BY <1>4, <1>10, <2>1, <2>2 DEF Unanswered
  <1> QED
    BY <1>7, <1>8, <1>9, <1>10

\* A stray line.
LEMMA StrayLine ==
    ASSUME IInv, NEW k \in Children, AtCurrent(k), NEW line \in StrayLines,
           worker'[k].output = Append(worker[k].output, line),
           UNCHANGED <<pending, result, inHand, wrote>>
    PROVE  /\ LinesExpected(k)' /\ HandExpected(k)' /\ Undelivered(k)'
           /\ \A d : Unanswered(k, d) => Unanswered(k, d)'
  <1>1. line \in Lines /\ line.type \notin Terminal
    BY LineKinds
  <1>2. PICK out \in Seq(Lines) : out = worker[k].output
    BY DEF IInv, Typed, Workers
  <1>3. PICK n \in Nat : n = Len(out)
    OBVIOUS
  <1>4. PICK next \in Seq(Lines) :
              /\ next = worker'[k].output
              /\ DOMAIN out = 1..n /\ DOMAIN next = 1..(n + 1) /\ next[n + 1] = line
              /\ \A i \in 1..n : next[i] = out[i]
    <2>1. /\ Append(out, line) \in Seq(Lines) /\ DOMAIN out = 1..n
          /\ DOMAIN Append(out, line) = 1..(n + 1) /\ Append(out, line)[n + 1] = line
          /\ \A i \in 1..n : Append(out, line)[i] = out[i]
      BY <1>1, <1>3, AppendFacts
    <2>2. Append(out, line) = worker'[k].output
      BY <1>2
    <2> QED
      BY <2>1, <2>2
  <1>5. \A m \in 1..(n + 1) : m \in 1..n \/ m = n + 1
    OBVIOUS
  <1>6. LinesExpected(k)'
    BY <1>1, <1>2, <1>4, <1>5, SMTT(20) DEF AtCurrent, LinesExpected, Expected
  <1>7. HandExpected(k)'
    BY <1>2, <1>4, <1>5 DEF AtCurrent, HandExpected
  <1>8. Undelivered(k)'
    BY <1>2, <1>4, <1>5 DEF AtCurrent, Undelivered
  <1>9. \A d : Unanswered(k, d) => Unanswered(k, d)'
    BY <1>1, <1>2, <1>4, <1>5 DEF Unanswered
  <1> QED
    BY <1>6, <1>7, <1>8, <1>9

\* Requests that are still unread and threads that still work, after a step that
\* takes none of them up.
LEMMA StillPending ==
    ASSUME IInv, NEW k \in Children, AtCurrent(k), UNCHANGED pending,
           \A d : Unanswered(k, d) => Unanswered(k, d)',
           NEW off \in {0, 1},
           \A i \in DOMAIN worker'[k].input : worker'[k].input[i].type = "process_document" =>
              /\ i \in Nat /\ i + off \in DOMAIN worker[k].input
              /\ worker'[k].input[i] = worker[k].input[i + off],
           \A j \in JobIds :
              /\ worker[k].threads[j] = Idle => worker'[k].threads[j] = Idle
              /\ worker[k].threads[j] /= Idle =>
                   \/ worker'[k].threads[j] = Idle
                   \/ /\ worker'[k].threads[j].call = worker[k].threads[j].call
                      /\ worker[k].threads[j].ended => worker'[k].threads[j].ended
    PROVE  RequestsPending(k)' /\ ThreadsPending(k)'
  <1>1. ThreadsPending(k)'
    BY DEF AtCurrent, ThreadsPending
  <1>2. RequestsPending(k)'
    <2>1. \A i \in DOMAIN worker[k].input : worker[k].input[i].type = "process_document"
            => worker[k].input[i].call \in Calls
      BY DEF IInv, Typed, Workers, Messages
    <2>2. \A c \in Calls : JobId(c) \in JobIds
      BY DEF JobIds
    <2>3. ASSUME NEW i \in DOMAIN worker'[k].input,
                 worker'[k].input[i].type = "process_document",
                 NEW c, c = worker'[k].input[i].call
          PROVE  /\ pending[JobId(c)] = c /\ Unanswered(k, c)'
                 /\ worker'[k].threads[JobId(c)] = Idle \/ worker'[k].threads[JobId(c)].ended
                 /\ \A m \in DOMAIN worker'[k].input :
                      (m /= i /\ worker'[k].input[m].type = "process_document")
                          => JobId(worker'[k].input[m].call) /= JobId(c)
      <3>1. i + off \in DOMAIN worker[k].input /\ worker'[k].input[i] = worker[k].input[i + off]
        BY <2>3
      <3>2. c \in Calls
        BY <2>1, <2>3, <3>1
      <3>3. /\ pending[JobId(c)] = c /\ Unanswered(k, c)
            /\ worker[k].threads[JobId(c)] = Idle \/ worker[k].threads[JobId(c)].ended
            /\ \A m \in DOMAIN worker[k].input :
                 (m /= i + off /\ worker[k].input[m].type = "process_document")
                     => JobId(worker[k].input[m].call) /= JobId(c)
        BY <2>3, <3>1, SMTT(20) DEF AtCurrent, RequestsPending
      <3>4. worker'[k].threads[JobId(c)] = Idle \/ worker'[k].threads[JobId(c)].ended
        BY <2>2, <3>2, <3>3
      <3>5. ASSUME NEW m \in DOMAIN worker'[k].input, m /= i,
                   worker'[k].input[m].type = "process_document"
            PROVE  JobId(worker'[k].input[m].call) /= JobId(c)
        <4>1. /\ m + off \in DOMAIN worker[k].input /\ worker'[k].input[m] = worker[k].input[m + off]
              /\ m + off /= i + off
          BY <2>3, <3>5
        <4> QED
          BY <3>3, <3>5, <4>1
      <3> QED
        BY <3>3, <3>4, <3>5
    <2> QED
      BY <2>3 DEF RequestsPending
  <1> QED
    BY <1>1, <1>2

\* The worker that a line leaves behind.
LEMMA WritesIs ==
    ASSUME Typed, NEW k \in Children, NEW c \in Calls, NEW type \in {"page"} \cup Terminal,
           NEW threads \in [JobIds -> {Idle} \cup Threads],
           Writes(k, c, type, threads)
    PROVE  \E v \in Workers :
              /\ worker' = [worker EXCEPT ![k] = v]
              /\ v.state = worker[k].state /\ v.input = worker[k].input /\ v.threads = threads
              /\ v.output = Append(worker[k].output, Line(type, c))
              /\ v.output \in Seq(Lines)
              /\ \A i \in DOMAIN v.output :
                   v.output[i] = Line(type, c)
                     \/ (i \in DOMAIN worker[k].output /\ v.output[i] = worker[k].output[i])
  <1>1. PICK w \in Workers : w = worker[k]
    BY DEF Typed
  <1>2. PICK line \in Lines : line = Line(type, c)
    BY LineKinds
  <1>3. PICK out \in Seq(Lines) : out = w.output
    BY DEF Workers
  <1>4. /\ Append(out, line) \in Seq(Lines)
        /\ \A i \in DOMAIN Append(out, line) : Append(out, line)[i] = line
              \/ (i \in DOMAIN out /\ Append(out, line)[i] = out[i])
    <2>1. PICK n \in Nat : n = Len(out) /\ DOMAIN out = 1..n
      OBVIOUS
    <2>2. /\ Append(out, line) \in Seq(Lines) /\ DOMAIN Append(out, line) = 1..(n + 1)
          /\ Append(out, line)[n + 1] = line /\ \A i \in 1..n : Append(out, line)[i] = out[i]
      BY <2>1, AppendFacts
    <2> QED
      BY <2>1, <2>2
  <1>5. PICK next \in Seq(Lines) : next = Append(out, line)
    BY <1>4
  <1> DEFINE v == [w EXCEPT !.output = next, !.threads = threads]
  <1>6. v \in Workers
    BY DEF Workers
  <1>7. v.state = w.state /\ v.input = w.input /\ v.threads = threads /\ v.output = next
    BY DEF Workers
  <1>8. worker' = [worker EXCEPT ![k] = v]
    <2>1. worker' = [worker EXCEPT ![k].output = next, ![k].threads = threads]
      BY <1>1, <1>2, <1>3, <1>5 DEF Writes
    <2>2. worker' = [worker EXCEPT ![k] = [worker[k] EXCEPT !.output = next, !.threads = threads]]
      BY <1>1, <2>1 DEF Typed, Workers
    <2> QED
      BY <1>1, <2>2
  <1> HIDE DEF v
  <1>9. v.output = Append(worker[k].output, Line(type, c)) /\ v.output \in Seq(Lines)
    BY <1>1, <1>2, <1>3, <1>5, <1>7
  <1>10. \A i \in DOMAIN v.output : v.output[i] = Line(type, c)
            \/ (i \in DOMAIN worker[k].output /\ v.output[i] = worker[k].output[i])
    BY <1>1, <1>2, <1>3, <1>4, <1>5, <1>7
  <1> QED
    BY <1>1, <1>6, <1>7, <1>8, <1>9, <1>10

LEMMA EmitPageInv ==
    ASSUME IInv, NEW k \in Children, NEW j \in JobIds, EmitPage(k, j)
    PROVE  IInv'
  <1>1. PICK t \in Threads : t = worker[k].threads[j]
    BY DEF EmitPage, IInv, Typed, Workers
  <1>2. PICK c \in Calls : c = t.call
    BY DEF Threads
  <1>3. PICK w \in Workers : w = worker[k]
    BY DEF IInv, Typed
  <1>4. ~t.ended /\ t.page < Pages /\ w.state \in {"running", "killed"}
    BY <1>1, <1>3 DEF EmitPage, Runs
  <1>5. PICK next \in [JobIds -> {Idle} \cup Threads] :
              next = [w.threads EXCEPT ![j] = [t EXCEPT !.page = @ + 1]]
    <2>1. [t EXCEPT !.page = @ + 1] \in Threads
      BY <1>4, BoundsAssumption DEF Threads
    <2> QED
      BY <1>1, <1>3, <2>1 DEF Workers
  <1>6. Writes(k, c, "page", next)
    BY <1>1, <1>2, <1>3, <1>5 DEF EmitPage
  <1>7. PICK v \in Workers :
              /\ worker' = [worker EXCEPT ![k] = v]
              /\ v.state = w.state /\ v.input = w.input /\ v.threads = next
              /\ v.output = Append(w.output, Line("page", c))
              /\ \A i \in DOMAIN v.output : v.output[i] = Line("page", c)
                    \/ (i \in DOMAIN w.output /\ v.output[i] = w.output[i])
    <2>1. "page" \in {"page"} \cup Terminal /\ Typed
      BY DEF IInv
    <2> QED
      BY <1>3, <1>6, <2>1, WritesIs
  <1>8. Line("page", c) \notin StrayLines
    BY LineKinds
  <1>9. UNCHANGED <<child, pending, result, handled, inHand, sentTo, strayed, misread, budget, wrote>>
    BY <1>6 DEF EmitPage, Writes, Terminal
  <1>10. /\ worker'[k] = v
         /\ \A i \in JobIds : i /= j => v.threads[i] = w.threads[i]
         /\ v.threads[j] /= Idle /\ v.threads[j].call = c /\ v.threads[j].ended = t.ended
    <2>1. next[j] = [t EXCEPT !.page = @ + 1]
      BY <1>5 DEF Workers
    <2>1a. [t EXCEPT !.page = @ + 1] \in Threads
      BY <1>4, BoundsAssumption DEF Threads
    <2>2. next[j].call = c /\ next[j].ended = t.ended
      BY <1>2, <2>1 DEF Threads
    <2>3. worker'[k] = v
      BY <1>7 DEF IInv, Typed
    <2>4. \A i \in JobIds : i /= j => next[i] = w.threads[i]
      BY <1>5 DEF Workers
    <2> QED
      BY <1>7, <2>1, <2>1a, <2>2, <2>3, <2>4, IdleAssumption
  <1>11. Owns(k, v)
    BY <1>1, <1>2, <1>3, <1>7, <1>10, IdleAssumption, SMTT(20) DEF IInv, Addressed, Owns
  <1>12. \A i \in DOMAIN v.output : v.output[i] \in StrayLines => k \in strayed'
    <2>1. \A i \in DOMAIN w.output : w.output[i] \in StrayLines => k \in strayed
      BY <1>3 DEF IInv, StraysKnown
    <2> QED
      BY <1>7, <1>8, <1>9, <2>1
  <1>13. child = k => AtCurrent(k)'
    <2> SUFFICES ASSUME child = k PROVE AtCurrent(k)'
      OBVIOUS
    <2>1. AtCurrent(k)
      BY DEF IInv
    <2>2. pending[j] = c /\ Unanswered(k, c) /\ JobId(c) = j
      BY <1>1, <1>2, <1>4, <2>1, IdleAssumption DEF AtCurrent, ThreadsPending, IInv, Addressed
    <2>3. /\ LinesExpected(k)' /\ HandExpected(k)' /\ Undelivered(k)'
          /\ \A d : Unanswered(k, d) => Unanswered(k, d)'
      BY <1>3, <1>7, <1>9, <1>10, <2>1, <2>2, JobLine DEF Terminal
    <2>4. \A i \in DOMAIN w.input : i \in Nat /\ i + 0 = i
      BY DEF Workers
    <2>5. RequestsPending(k)' /\ ThreadsPending(k)'
      BY <1>1, <1>2, <1>3, <1>7, <1>9, <1>10, <2>1, <2>3, <2>4, StillPending, IdleAssumption, SMTT(30)
    <2> QED
      BY <2>3, <2>5 DEF AtCurrent
  <1>14. budget \in [stops : Nat, cancels : Nat, faults : Nat] /\ wrote \subseteq Answers /\ strayed \subseteq Children
    BY DEF IInv, Typed
  <1>15. child = k => w.state \in {"running", "exited"}
    BY <1>3, BoundsAssumption DEF IInv, CurrentLives, Children
  <1> QED
    BY <1>3, <1>4, <1>7, <1>9, <1>11, <1>12, <1>13, <1>14, <1>15, WorkerStep

LEMMA EmitEndInv ==
    ASSUME IInv, NEW k \in Children, NEW j \in JobIds, EmitEnd(k, j)
    PROVE  IInv'
  <1>1. PICK t \in Threads : t = worker[k].threads[j]
    BY DEF EmitEnd, IInv, Typed, Workers
  <1>2. PICK c \in Calls : c = t.call
    BY DEF Threads
  <1>3. PICK w \in Workers : w = worker[k]
    BY DEF IInv, Typed
  <1>4. ~t.ended /\ w.state \in {"running", "killed"}
    BY <1>1, <1>3 DEF EmitEnd, Runs
  <1>5. PICK next \in [JobIds -> {Idle} \cup Threads] :
              next = [w.threads EXCEPT ![j] = [t EXCEPT !.ended = TRUE]]
    <2>1. [t EXCEPT !.ended = TRUE] \in Threads
      BY DEF Threads
    <2> QED
      BY <1>1, <1>3, <2>1 DEF Workers
  <1>6. PICK type \in Terminal : Writes(k, c, type, next)
    BY <1>1, <1>2, <1>3, <1>5 DEF EmitEnd
  <1>7. PICK v \in Workers :
              /\ worker' = [worker EXCEPT ![k] = v]
              /\ v.state = w.state /\ v.input = w.input /\ v.threads = next
              /\ v.output = Append(w.output, Line(type, c))
              /\ \A i \in DOMAIN v.output : v.output[i] = Line(type, c)
                    \/ (i \in DOMAIN w.output /\ v.output[i] = w.output[i])
    <2>1. type \in {"page"} \cup Terminal /\ Typed
      BY DEF IInv
    <2> QED
      BY <1>3, <1>6, <2>1, WritesIs
  <1>8. Line(type, c) \notin StrayLines
    BY LineKinds
  <1>9. /\ UNCHANGED <<child, pending, result, handled, inHand, sentTo, strayed, misread, budget>>
        /\ wrote' = wrote \cup {[child |-> k, call |-> c, type |-> type]}
    BY <1>6 DEF EmitEnd, Writes
  <1>10. /\ worker'[k] = v
         /\ \A i \in JobIds : i /= j => v.threads[i] = w.threads[i]
         /\ v.threads[j] /= Idle /\ v.threads[j].call = c /\ v.threads[j].ended = TRUE
    <2>1. next[j] = [t EXCEPT !.ended = TRUE]
      BY <1>5 DEF Workers
    <2>2. [t EXCEPT !.ended = TRUE] \in Threads
      BY DEF Threads
    <2>3. next[j].call = c /\ next[j].ended = TRUE
      BY <1>2, <2>1 DEF Threads
    <2>4. worker'[k] = v
      BY <1>7 DEF IInv, Typed
    <2>5. \A i \in JobIds : i /= j => next[i] = w.threads[i]
      BY <1>5 DEF Workers
    <2> QED
      BY <1>7, <2>1, <2>2, <2>3, <2>4, <2>5, IdleAssumption, ZenonT(60)
  <1>11. sentTo[c] = k /\ JobId(c) = j
    BY <1>1, <1>2, IdleAssumption DEF IInv, Addressed
  <1>12. Owns(k, v)
    BY <1>3, <1>7, <1>10, <1>11 DEF IInv, Addressed, Owns
  <1>13. \A i \in DOMAIN v.output : v.output[i] \in StrayLines => k \in strayed'
    <2>1. \A i \in DOMAIN w.output : w.output[i] \in StrayLines => k \in strayed
      BY <1>3 DEF IInv, StraysKnown
    <2> QED
      BY <1>7, <1>8, <1>9, <2>1
  <1>14. child = k => AtCurrent(k)'
    <2> SUFFICES ASSUME child = k PROVE AtCurrent(k)'
      OBVIOUS
    <2>1. AtCurrent(k)
      BY DEF IInv
    <2>2. pending[j] = c /\ Unanswered(k, c)
      BY <1>1, <1>2, <1>4, <2>1, IdleAssumption DEF AtCurrent, ThreadsPending
    <2>3. /\ LinesExpected(k)' /\ HandExpected(k)' /\ Undelivered(k)'
          /\ \A d : (Unanswered(k, d) /\ JobId(d) /= j) => Unanswered(k, d)'
      BY <1>3, <1>7, <1>9, <1>10, <1>11, <2>1, <2>2, JobLine
    <2>4. ThreadsPending(k)'
      <3>1. ASSUME NEW i \in JobIds, v.threads[i] /= Idle, ~v.threads[i].ended
            PROVE  pending[i] = v.threads[i].call /\ Unanswered(k, v.threads[i].call)'
        <4>1. i /= j /\ v.threads[i] = w.threads[i]
          BY <1>10, <3>1
        <4>2. pending[i] = w.threads[i].call /\ Unanswered(k, w.threads[i].call)
          BY <1>3, <2>1, <3>1, <4>1 DEF AtCurrent, ThreadsPending
        <4>3. JobId(w.threads[i].call) = i
          BY <1>3, <3>1, <4>1 DEF IInv, Addressed
        <4> QED
          BY <2>3, <4>1, <4>2, <4>3
      <3> QED
        BY <1>9, <1>10, <3>1 DEF ThreadsPending
    <2>5. RequestsPending(k)'
      <3>1. ASSUME NEW i \in DOMAIN w.input, w.input[i].type = "process_document",
                   NEW d \in Calls, d = w.input[i].call
            PROVE  /\ pending[JobId(d)] = d /\ Unanswered(k, d)'
                   /\ v.threads[JobId(d)] = Idle \/ v.threads[JobId(d)].ended
                   /\ \A m \in DOMAIN w.input :
                        (m /= i /\ w.input[m].type = "process_document")
                            => JobId(w.input[m].call) /= JobId(d)
        <4>1. /\ pending[JobId(d)] = d /\ Unanswered(k, d)
              /\ w.threads[JobId(d)] = Idle \/ w.threads[JobId(d)].ended
              /\ \A m \in DOMAIN w.input :
                   (m /= i /\ w.input[m].type = "process_document")
                       => JobId(w.input[m].call) /= JobId(d)
          BY <1>3, <2>1, <3>1 DEF AtCurrent, RequestsPending
        <4>2. JobId(d) /= j
          BY <1>1, <1>3, <1>4, <4>1, IdleAssumption
        <4>3. JobId(d) \in JobIds
          BY DEF JobIds
        <4> QED
          BY <1>10, <2>3, <4>1, <4>2, <4>3
      <3>2. \A i \in DOMAIN w.input : w.input[i].type = "process_document" => w.input[i].call \in Calls
        BY DEF Workers, Messages
      <3> QED
        BY <1>7, <1>9, <1>10, <3>1, <3>2 DEF RequestsPending
    <2> QED
      BY <2>3, <2>4, <2>5 DEF AtCurrent
  <1>15. /\ budget \in [stops : Nat, cancels : Nat, faults : Nat] /\ strayed \subseteq Children
         /\ wrote' \subseteq Answers
    BY <1>9 DEF IInv, Typed, Answers
  <1>16. child = k => w.state \in {"running", "exited"}
    BY <1>3, BoundsAssumption DEF IInv, CurrentLives, Children
  <1>17. \A a \in wrote' : a \in wrote \/ (a.child = k /\ sentTo[a.call] = k)
    BY <1>9, <1>11
  <1>18. w.state \notin {"unborn", "closed"} /\ wrote \subseteq wrote' /\ strayed \subseteq strayed'
    BY <1>4, <1>9
  <1> QED
    BY <1>3, <1>7, <1>9, <1>12, <1>13, <1>14, <1>15, <1>16, <1>17, <1>18, WorkerStep

LEMMA LeaveTableInv ==
    ASSUME IInv, NEW k \in Children, NEW j \in JobIds, LeaveTable(k, j)
    PROVE  IInv'
  <1>1. PICK w \in Workers : w = worker[k]
    BY DEF IInv, Typed
  <1>2. PICK next \in [JobIds -> {Idle} \cup Threads] : next = [w.threads EXCEPT ![j] = Idle]
    BY DEF Workers
  <1>3. PICK v \in Workers : v = [w EXCEPT !.threads = next]
    BY DEF Workers
  <1>4. v.state = w.state /\ v.input = w.input /\ v.output = w.output /\ v.threads = next
    BY <1>3 DEF Workers
  <1>5. /\ worker' = [worker EXCEPT ![k] = v]
        /\ UNCHANGED <<child, pending, result, handled, inHand, sentTo, wrote, strayed, misread, budget>>
        /\ w.state \in {"running", "killed"}
    BY <1>1, <1>2, <1>3 DEF LeaveTable, Runs, histories, IInv, Typed, Workers
  <1>6. worker'[k] = v
    BY <1>5 DEF IInv, Typed
  <1>7. next[j] = Idle /\ \A i \in JobIds : i /= j => next[i] = w.threads[i]
    BY <1>2 DEF Workers
  <1>8. Owns(k, v)
    BY <1>1, <1>4, <1>7 DEF IInv, Addressed, Owns
  <1>9. \A i \in DOMAIN v.output : v.output[i] \in StrayLines => k \in strayed'
    BY <1>1, <1>4, <1>5 DEF IInv, StraysKnown
  <1>10. child = k => AtCurrent(k)'
    <2> SUFFICES ASSUME child = k PROVE AtCurrent(k)'
      OBVIOUS
    <2>1. AtCurrent(k)
      BY DEF IInv
    <2>2. /\ LinesExpected(k)' /\ HandExpected(k)' /\ Undelivered(k)'
          /\ \A d : Unanswered(k, d) => Unanswered(k, d)'
      BY <1>1, <1>4, <1>5, <1>6, <2>1, NoLine DEF AtCurrent
    <2>3. \A i \in DOMAIN w.input : i \in Nat /\ i + 0 = i
      BY DEF Workers
    <2>4. RequestsPending(k)' /\ ThreadsPending(k)'
      BY <1>1, <1>4, <1>5, <1>6, <1>7, <2>1, <2>2, <2>3, StillPending
    <2> QED
      BY <2>2, <2>4 DEF AtCurrent
  <1>11. /\ budget \in [stops : Nat, cancels : Nat, faults : Nat] /\ wrote \subseteq Answers
         /\ strayed \subseteq Children
    BY DEF IInv, Typed
  <1>12. child = k => w.state \in {"running", "exited"}
    BY <1>1, BoundsAssumption DEF IInv, CurrentLives, Children
  <1>13. \A a \in wrote' : a \in wrote
    BY <1>5
  <1> QED
    BY <1>1, <1>4, <1>5, <1>8, <1>9, <1>10, <1>11, <1>12, <1>13, WorkerStep

LEMMA WriteStrayInv ==
    ASSUME IInv, NEW k \in Children, WriteStray(k)
    PROVE  IInv'
  <1>1. PICK w \in Workers : w = worker[k]
    BY DEF IInv, Typed
  <1>2. PICK line \in StrayLines :
              worker' = [worker EXCEPT ![k].output = Append(worker[k].output, line)]
    BY DEF WriteStray
  <1>3. line \in Lines
    BY LineKinds
  <1>4. PICK out \in Seq(Lines) : out = w.output
    BY DEF Workers
  <1>5. PICK n \in Nat : n = Len(out) /\ DOMAIN out = 1..n
    BY <1>4
  <1>6. PICK next \in Seq(Lines) :
              /\ next = Append(out, line) /\ DOMAIN next = 1..(n + 1)
              /\ next[n + 1] = line /\ \A i \in 1..n : next[i] = out[i]
    <2>1. /\ Append(out, line) \in Seq(Lines) /\ DOMAIN Append(out, line) = 1..(n + 1)
          /\ Append(out, line)[n + 1] = line /\ \A i \in 1..n : Append(out, line)[i] = out[i]
      BY <1>3, <1>5, AppendFacts
    <2> QED
      BY <2>1
  <1>7. PICK v \in Workers : v = [w EXCEPT !.output = next]
    BY DEF Workers
  <1>8. v.state = w.state /\ v.input = w.input /\ v.output = next /\ v.threads = w.threads
    BY <1>7 DEF Workers
  <1>9. /\ worker' = [worker EXCEPT ![k] = v]
        /\ UNCHANGED <<child, pending, result, handled, inHand, sentTo, wrote, misread>>
        /\ w.state = "running" /\ strayed' = strayed \cup {k}
    BY <1>1, <1>2, <1>4, <1>6, <1>7 DEF WriteStray, IInv, Typed
  <1>10. worker'[k] = v
    BY <1>9 DEF IInv, Typed
  <1>11. Owns(k, v)
    BY <1>1, <1>8 DEF IInv, Addressed, Owns
  <1>12. child = k => AtCurrent(k)'
    <2> SUFFICES ASSUME child = k PROVE AtCurrent(k)'
      OBVIOUS
    <2>1. AtCurrent(k)
      BY DEF IInv
    <2>2. worker'[k].output = Append(worker[k].output, line)
      BY <1>1, <1>4, <1>6, <1>8, <1>10
    <2>3. /\ LinesExpected(k)' /\ HandExpected(k)' /\ Undelivered(k)'
          /\ \A d : Unanswered(k, d) => Unanswered(k, d)'
      BY <1>9, <2>1, <2>2, StrayLine
    <2>4. \A i \in DOMAIN w.input : i \in Nat /\ i + 0 = i
      BY DEF Workers
    <2>5. RequestsPending(k)' /\ ThreadsPending(k)'
      BY <1>1, <1>8, <1>9, <1>10, <2>1, <2>3, <2>4, StillPending
    <2> QED
      BY <2>3, <2>5 DEF AtCurrent
  <1>13. /\ budget' \in [stops : Nat, cancels : Nat, faults : Nat] /\ wrote \subseteq Answers
         /\ strayed' \subseteq Children
    BY <1>9, SpentType DEF WriteStray, IInv, Typed
  <1>14. (\A a \in wrote' : a \in wrote) /\ k \in strayed'
    BY <1>9
  <1> QED
    BY <1>1, <1>8, <1>9, <1>11, <1>12, <1>13, <1>14, WorkerStep

\* A process that is gone reads nothing and works on nothing.
LEMMA ExitInv ==
    ASSUME IInv, NEW k \in Children, Crash(k) \/ Die(k)
    PROVE  IInv'
  <1>1. PICK w \in Workers : w = worker[k]
    BY DEF IInv, Typed
  <1>2. PICK none \in [JobIds -> {Idle} \cup Threads] : none = [j \in JobIds |-> Idle]
    OBVIOUS
  <1>3. PICK v \in Workers : v = [w EXCEPT !.state = "exited", !.input = <<>>, !.threads = none]
    <2>1. <<>> \in Seq(Messages) /\ "exited" \in States
      BY DEF States
    <2>2. PICK empty \in Seq(Messages) : empty = <<>>
      BY <2>1
    <2>3. [w EXCEPT !.state = "exited", !.input = empty, !.threads = none] \in Workers
      BY <2>1 DEF Workers
    <2> QED
      BY <2>2, <2>3
  <1>4. v.state = "exited" /\ v.input = <<>> /\ v.output = w.output /\ v.threads = none
    BY <1>3 DEF Workers
  <1>5. worker' = [worker EXCEPT ![k] = v]
    <2>1. worker' = [worker EXCEPT ![k].state = "exited", ![k].input = <<>>, ![k].threads = none]
      BY <1>2 DEF Crash, Die, Exited, Unborn
    <2>2. worker' = [worker EXCEPT ![k] =
                        [worker[k] EXCEPT !.state = "exited", !.input = <<>>, !.threads = none]]
      BY <1>1, <2>1 DEF IInv, Typed, Workers
    <2> QED
      BY <1>1, <1>3, <2>2
  <1>6. /\ UNCHANGED <<child, pending, result, handled, inHand, sentTo, wrote, strayed, misread>>
        /\ w.state \in {"running", "killed"}
    BY <1>1 DEF Crash, Die, histories
  <1>7. worker'[k] = v
    BY <1>5 DEF IInv, Typed
  <1>8. DOMAIN v.input = {} /\ \A j \in JobIds : v.threads[j] = Idle
    BY <1>2, <1>4
  <1>9. Owns(k, v)
    BY <1>8 DEF Owns
  <1>10. \A i \in DOMAIN v.output : v.output[i] \in StrayLines => k \in strayed'
    BY <1>1, <1>4, <1>6 DEF IInv, StraysKnown
  <1>11. child = k => AtCurrent(k)'
    <2> SUFFICES ASSUME child = k PROVE AtCurrent(k)'
      OBVIOUS
    <2>1. /\ LinesExpected(k)' /\ HandExpected(k)' /\ Undelivered(k)'
          /\ \A d : Unanswered(k, d) => Unanswered(k, d)'
      BY <1>1, <1>4, <1>6, <1>7, NoLine DEF IInv, AtCurrent
    <2>2. RequestsPending(k)' /\ ThreadsPending(k)'
      BY <1>7, <1>8 DEF RequestsPending, ThreadsPending
    <2> QED
      BY <2>1, <2>2 DEF AtCurrent
  <1>12. /\ budget' \in [stops : Nat, cancels : Nat, faults : Nat] /\ wrote \subseteq Answers
         /\ strayed \subseteq Children
    BY SpentType DEF Crash, Die, IInv, Typed
  <1>13. \A a \in wrote' : a \in wrote
    BY <1>6
  <1> QED
    BY <1>1, <1>4, <1>5, <1>6, <1>9, <1>10, <1>11, <1>12, <1>13, WorkerStep

LEMMA CancelInv ==
    ASSUME IInv, NEW j \in JobIds, CancelPending(j)
    PROVE  IInv'
  <1>1. PICK k \in Children : k = child
    BY BoundsAssumption DEF CancelPending, IInv, Typed, Children
  <1>2. PICK w \in Workers : w = worker[k]
    BY DEF IInv, Typed
  <1>3. CancelJob(j) \in Messages /\ CancelJob(j).type = "cancel_job"
    BY DEF CancelJob, Messages
  <1>4. PICK msg \in Messages : msg = CancelJob(j)
    BY <1>3
  <1>5. PICK in \in Seq(Messages) : in = w.input
    BY DEF Workers
  <1>6. PICK n \in Nat : n = Len(in) /\ DOMAIN in = 1..n
    OBVIOUS
  <1>7. PICK next \in Seq(Messages) :
              /\ next = Append(in, msg) /\ DOMAIN next = 1..(n + 1)
              /\ next[n + 1] = msg /\ \A i \in 1..n : next[i] = in[i]
    <2>1. /\ Append(in, msg) \in Seq(Messages) /\ DOMAIN Append(in, msg) = 1..(n + 1)
          /\ Append(in, msg)[n + 1] = msg /\ \A i \in 1..n : Append(in, msg)[i] = in[i]
      BY <1>6, AppendFacts
    <2> QED
      BY <2>1
  <1>8. PICK v \in Workers : v = [w EXCEPT !.input = next]
    BY DEF Workers
  <1>9. v.state = w.state /\ v.output = w.output /\ v.input = next /\ v.threads = w.threads
    BY <1>8 DEF Workers
  <1>10. /\ worker' = [worker EXCEPT ![k] = v]
         /\ UNCHANGED <<child, pending, result, handled, inHand, sentTo, wrote, strayed, misread>>
    <2>1. worker' = [worker EXCEPT ![k].input = Append(worker[k].input, CancelJob(j))]
      BY <1>1 DEF CancelPending
    <2> QED
      BY <1>2, <1>4, <1>5, <1>7, <1>8, <2>1 DEF CancelPending, histories, IInv, Typed
  <1>11. worker'[k] = v /\ w.state \in {"running", "exited"}
    BY <1>1, <1>2, <1>10, BoundsAssumption DEF IInv, Typed, CurrentLives, Children
  <1>12. \A i \in DOMAIN next : next[i].type = "process_document" =>
            i \in Nat /\ i + 0 \in DOMAIN in /\ next[i] = in[i + 0] /\ next[i] = in[i] /\ i \in DOMAIN in
    <2>1. \A i \in 1..(n + 1) : i \in 1..n \/ i = n + 1
      OBVIOUS
    <2> QED
      BY <1>3, <1>4, <1>6, <1>7, <2>1
  <1>13. Owns(k, v)
    <2>1. Owns(k, w)
      BY <1>2 DEF IInv, Addressed, Owns
    <2> QED
      BY <1>5, <1>9, <1>12, <2>1 DEF Owns
  <1>14. \A i \in DOMAIN v.output : v.output[i] \in StrayLines => k \in strayed'
    BY <1>2, <1>9, <1>10 DEF IInv, StraysKnown
  <1>15. AtCurrent(k)'
    <2>1. AtCurrent(k)
      BY <1>1 DEF IInv
    <2>2. /\ LinesExpected(k)' /\ HandExpected(k)' /\ Undelivered(k)'
          /\ \A d : Unanswered(k, d) => Unanswered(k, d)'
      BY <1>2, <1>9, <1>10, <1>11, <2>1, NoLine DEF AtCurrent
    <2>3. RequestsPending(k)' /\ ThreadsPending(k)'
      BY <1>2, <1>5, <1>9, <1>10, <1>11, <1>12, <2>1, <2>2, StillPending
    <2> QED
      BY <2>2, <2>3 DEF AtCurrent
  <1>16. /\ budget' \in [stops : Nat, cancels : Nat, faults : Nat] /\ wrote \subseteq Answers
         /\ strayed \subseteq Children
    BY SpentType DEF CancelPending, IInv, Typed
  <1>17. \A a \in wrote' : a \in wrote
    BY <1>10
  <1> QED
    BY <1>2, <1>9, <1>10, <1>11, <1>13, <1>14, <1>15, <1>16, <1>17, WorkerStep

\* The rest of the input of a worker that has read a request.
LEMMA InputTail ==
    ASSUME NEW w \in Workers, w.input /= <<>>
    PROVE  /\ Tail(w.input) \in Seq(Messages) /\ Head(w.input) \in Messages
           /\ 1 \in DOMAIN w.input /\ Head(w.input) = w.input[1]
           /\ \A i \in DOMAIN Tail(w.input) :
                /\ i \in Nat /\ i + 1 \in DOMAIN w.input /\ i + 1 /= 1
                /\ Tail(w.input)[i] = w.input[i + 1]
  <1>1. PICK in \in Seq(Messages) : in = w.input
    BY DEF Workers
  <1>2. PICK n \in Nat : n = Len(in) /\ DOMAIN in = 1..n
    OBVIOUS
  <1>3. /\ Tail(in) \in Seq(Messages) /\ Head(in) \in Messages /\ n > 0
        /\ Head(in) = in[1] /\ DOMAIN Tail(in) = 1..(n - 1)
        /\ \A i \in 1..(n - 1) : Tail(in)[i] = in[i + 1]
    BY <1>1, <1>2, TailFacts
  <1>4. 1 \in 1..n /\ \A i \in 1..(n - 1) : i \in Nat /\ i + 1 \in 1..n /\ i + 1 /= 1
    BY <1>3
  <1> QED
    BY <1>1, <1>2, <1>3, <1>4

\* The guards all the cases of ReadRequest share.
LEMMA ReadRequestCases ==
    ASSUME IInv, NEW k \in Children, ReadRequest(k)
    PROVE  LET request == Head(worker[k].input)
               c == request.call
               rest == [worker EXCEPT ![k].input = Tail(@)]
           IN  /\ worker[k].state \in {"running", "killed"} /\ worker[k].input /= <<>>
               /\ UNCHANGED <<child, pending, result, handled, inHand, sentTo, strayed, misread, budget>>
               /\ \/ /\ request.type = "cancel_job"
                     /\ worker' = IF worker[k].threads[request.job] = Idle THEN rest
                                  ELSE [rest EXCEPT ![k].threads[request.job].stop = TRUE]
                     /\ wrote' = wrote
                  \/ /\ request.type = "process_document" /\ worker[k].threads[JobId(c)] = Idle
                     /\ worker' = [rest EXCEPT ![k].threads[JobId(c)] = Thread(c)]
                     /\ wrote' = wrote
                  \/ /\ request.type = "process_document" /\ worker[k].threads[JobId(c)] /= Idle
                     /\ worker' = [rest EXCEPT ![k].output = Append(@, Line("error", c))]
                     /\ wrote' = wrote \cup {[child |-> k, call |-> c, type |-> "error"]}
  BY DEF ReadRequest, Runs

\* A cancellation only marks the thread.
LEMMA ReadCancel ==
    ASSUME IInv, NEW k \in Children, ReadRequest(k),
           Head(worker[k].input).type = "cancel_job"
    PROVE  IInv'
  <1>1. PICK w \in Workers : w = worker[k]
    BY DEF IInv, Typed
  <1>2. /\ w.state \in {"running", "killed"} /\ w.input /= <<>>
        /\ UNCHANGED <<child, pending, result, handled, inHand, sentTo, wrote, strayed, misread, budget>>
    BY <1>1, ReadRequestCases
  <1>3. PICK tail \in Seq(Messages), j \in JobIds :
              /\ tail = Tail(w.input) /\ j = Head(w.input).job
              /\ \A i \in DOMAIN tail : i \in Nat /\ i + 1 \in DOMAIN w.input /\ tail[i] = w.input[i + 1]
    <2>1. Head(w.input).job \in JobIds
      BY <1>1, <1>2, InputTail DEF Messages
    <2> QED
      BY <1>2, <2>1, InputTail
  <1>4. worker' = IF w.threads[j] = Idle THEN [worker EXCEPT ![k].input = tail]
                  ELSE [[worker EXCEPT ![k].input = tail] EXCEPT ![k].threads[j].stop = TRUE]
    BY <1>1, <1>3, ReadRequestCases
  <1>5. PICK v \in Workers :
              /\ worker' = [worker EXCEPT ![k] = v]
              /\ v.state = w.state /\ v.input = tail /\ v.output = w.output
              /\ \A i \in JobIds :
                   /\ w.threads[i] = Idle => v.threads[i] = Idle
                   /\ w.threads[i] /= Idle =>
                        /\ v.threads[i].call = w.threads[i].call
                        /\ v.threads[i].ended = w.threads[i].ended
                        /\ v.threads[i] /= Idle
    <2>1. CASE w.threads[j] = Idle
      <3>1. PICK v \in Workers : v = [w EXCEPT !.input = tail]
        BY DEF Workers
      <3>2. worker' = [worker EXCEPT ![k] = v]
        BY <1>1, <1>4, <2>1, <3>1 DEF IInv, Typed
      <3>3. v.state = w.state /\ v.input = tail /\ v.output = w.output /\ v.threads = w.threads
        BY <3>1 DEF Workers
      <3> QED
        BY <3>2, <3>3
    <2>2. CASE w.threads[j] /= Idle
      <3>1. PICK t \in Threads : t = w.threads[j]
        BY <2>2 DEF Workers
      <3>2. PICK u \in Threads : u = [t EXCEPT !.stop = TRUE]
        BY DEF Threads
      <3>2a. u.call = t.call /\ u.ended = t.ended
        BY <3>2 DEF Threads
      <3>3. PICK next \in [JobIds -> {Idle} \cup Threads] : next = [w.threads EXCEPT ![j] = u]
        BY DEF Workers
      <3>4. PICK v \in Workers : v = [w EXCEPT !.input = tail, !.threads = next]
        BY DEF Workers
      <3>5. worker' = [worker EXCEPT ![k] = v]
        <4>0. PICK x \in Workers : x = [w EXCEPT !.input = tail]
          BY DEF Workers
        <4>1. x = [w EXCEPT !.input = tail] /\ x.threads = w.threads
          BY <4>0 DEF Workers
        <4>2. [worker EXCEPT ![k].input = tail] = [worker EXCEPT ![k] = x]
          BY <1>1, <4>1 DEF IInv, Typed
        <4>3. worker' = [[worker EXCEPT ![k] = x] EXCEPT ![k].threads[j].stop = TRUE]
          BY <1>4, <2>2, <4>2
        <4>4. worker' = [worker EXCEPT ![k] = [x EXCEPT !.threads[j].stop = TRUE]]
          BY <4>3 DEF IInv, Typed
        <4>5. [x EXCEPT !.threads[j].stop = TRUE] = [x EXCEPT !.threads = next]
          BY <3>1, <3>2, <3>3, <4>1 DEF Workers
        <4>6. [x EXCEPT !.threads = next] = v
          BY <3>4, <4>1 DEF Workers
        <4> QED
          BY <4>4, <4>5, <4>6
      <3>6. v.state = w.state /\ v.input = tail /\ v.output = w.output /\ v.threads = next
        BY <3>4 DEF Workers
      <3>7. next[j] = u /\ \A i \in JobIds : i /= j => next[i] = w.threads[i]
        BY <3>3 DEF Workers
      <3> QED
        BY <2>2, <3>1, <3>2a, <3>5, <3>6, <3>7, IdleAssumption
    <2> QED
      BY <2>1, <2>2
  <1>6. worker'[k] = v
    BY <1>5 DEF IInv, Typed
  <1>7. Owns(k, v)
    <2>1. Owns(k, w)
      BY <1>1 DEF IInv, Addressed, Owns
    <2> QED
      BY <1>3, <1>5, <2>1 DEF Owns
  <1>8. \A i \in DOMAIN v.output : v.output[i] \in StrayLines => k \in strayed'
    BY <1>1, <1>2, <1>5 DEF IInv, StraysKnown
  <1>9. child = k => AtCurrent(k)'
    <2> SUFFICES ASSUME child = k PROVE AtCurrent(k)'
      OBVIOUS
    <2>1. AtCurrent(k)
      BY DEF IInv
    <2>2. /\ LinesExpected(k)' /\ HandExpected(k)' /\ Undelivered(k)'
          /\ \A d : Unanswered(k, d) => Unanswered(k, d)'
      BY <1>1, <1>2, <1>5, <1>6, <2>1, NoLine DEF AtCurrent
    <2>3. RequestsPending(k)' /\ ThreadsPending(k)'
      BY <1>1, <1>2, <1>3, <1>5, <1>6, <2>1, <2>2, StillPending, ZenonT(60)
    <2> QED
      BY <2>2, <2>3 DEF AtCurrent
  <1>10. /\ budget \in [stops : Nat, cancels : Nat, faults : Nat] /\ wrote \subseteq Answers
         /\ strayed \subseteq Children
    BY DEF IInv, Typed
  <1>11. child = k => w.state \in {"running", "exited"}
    BY <1>1, BoundsAssumption DEF IInv, CurrentLives, Children
  <1>12. \A a \in wrote' : a \in wrote
    BY <1>2
  <1> QED
    BY <1>1, <1>2, <1>5, <1>7, <1>8, <1>9, <1>10, <1>11, <1>12, WorkerStep

\* What a worker does with the request that is at the head of its input.
LEMMA RequestAtHead ==
    ASSUME IInv, NEW k \in Children, ReadRequest(k),
           Head(worker[k].input).type = "process_document"
    PROVE  \E c \in Calls, tail \in Seq(Messages) :
              /\ c = Head(worker[k].input).call /\ tail = Tail(worker[k].input)
              /\ JobId(c) \in JobIds /\ sentTo[c] = k
              /\ 1 \in DOMAIN worker[k].input /\ worker[k].input[1].type = "process_document"
              /\ worker[k].input[1].call = c
              /\ \A i \in DOMAIN tail : /\ i \in Nat /\ i + 1 \in DOMAIN worker[k].input
                                         /\ i + 1 /= 1 /\ tail[i] = worker[k].input[i + 1]
  <1>1. PICK w \in Workers : w = worker[k]
    BY DEF IInv, Typed
  <1>2. w.input /= <<>>
    BY <1>1, ReadRequestCases
  <1>3. /\ Tail(w.input) \in Seq(Messages) /\ Head(w.input) \in Messages
        /\ 1 \in DOMAIN w.input /\ Head(w.input) = w.input[1]
        /\ \A i \in DOMAIN Tail(w.input) : /\ i \in Nat /\ i + 1 \in DOMAIN w.input /\ i + 1 /= 1
                                           /\ Tail(w.input)[i] = w.input[i + 1]
    BY <1>2, InputTail
  <1>4. Head(w.input).call \in Calls
    BY <1>1, <1>3 DEF Messages
  <1>5. JobId(Head(w.input).call) \in JobIds
    BY <1>4 DEF JobIds
  <1>6. sentTo[Head(w.input).call] = k
    BY <1>1, <1>3 DEF IInv, Addressed
  <1> QED
    BY <1>1, <1>3, <1>4, <1>5, <1>6

\* At the current child that call is pending and unanswered, and the requests
\* behind it are of other jobs.
LEMMA HeadPending ==
    ASSUME IInv, NEW k \in Children, AtCurrent(k), NEW c \in Calls,
           1 \in DOMAIN worker[k].input, worker[k].input[1].type = "process_document",
           worker[k].input[1].call = c
    PROVE  /\ pending[JobId(c)] = c /\ Unanswered(k, c)
           /\ worker[k].threads[JobId(c)] = Idle \/ worker[k].threads[JobId(c)].ended
           /\ \A m \in DOMAIN worker[k].input :
                (m /= 1 /\ worker[k].input[m].type = "process_document")
                    => JobId(worker[k].input[m].call) /= JobId(c)
  BY DEF AtCurrent, RequestsPending

\* The requests behind the head stay pending, whatever happens to its job.
LEMMA OthersPending ==
    ASSUME IInv, NEW k \in Children, AtCurrent(k), UNCHANGED pending, NEW c \in Calls,
           1 \in DOMAIN worker[k].input, worker[k].input[1].type = "process_document",
           worker[k].input[1].call = c,
           \A d \in Calls : (Unanswered(k, d) /\ JobId(d) /= JobId(c)) => Unanswered(k, d)',
           \A i \in DOMAIN worker'[k].input :
              /\ i \in Nat /\ i + 1 \in DOMAIN worker[k].input /\ i + 1 /= 1
              /\ worker'[k].input[i] = worker[k].input[i + 1],
           \A j \in JobIds : j /= JobId(c) => worker'[k].threads[j] = worker[k].threads[j]
    PROVE  RequestsPending(k)'
  <1>1. ASSUME NEW i \in DOMAIN worker'[k].input,
               worker'[k].input[i].type = "process_document",
               NEW d, d = worker'[k].input[i].call
        PROVE  /\ pending[JobId(d)] = d /\ Unanswered(k, d)'
               /\ worker'[k].threads[JobId(d)] = Idle \/ worker'[k].threads[JobId(d)].ended
               /\ \A m \in DOMAIN worker'[k].input :
                    (m /= i /\ worker'[k].input[m].type = "process_document")
                        => JobId(worker'[k].input[m].call) /= JobId(d)
    <2>1. /\ i + 1 \in DOMAIN worker[k].input /\ i + 1 /= 1
          /\ worker'[k].input[i] = worker[k].input[i + 1]
      BY <1>1
    <2>2. d \in Calls
      BY <1>1, <2>1 DEF IInv, Typed, Workers, Messages
    <2>3. JobId(d) \in JobIds
      BY <2>2 DEF JobIds
    <2>4. JobId(d) /= JobId(c)
      BY <1>1, <2>1, HeadPending
    <2>5. /\ pending[JobId(d)] = d /\ Unanswered(k, d)
          /\ worker[k].threads[JobId(d)] = Idle \/ worker[k].threads[JobId(d)].ended
          /\ \A m \in DOMAIN worker[k].input :
               (m /= i + 1 /\ worker[k].input[m].type = "process_document")
                   => JobId(worker[k].input[m].call) /= JobId(d)
      BY <1>1, <2>1, SMTT(20) DEF AtCurrent, RequestsPending
    <2>6. ASSUME NEW m \in DOMAIN worker'[k].input, m /= i,
                 worker'[k].input[m].type = "process_document"
          PROVE  JobId(worker'[k].input[m].call) /= JobId(d)
      <3>1. /\ m + 1 \in DOMAIN worker[k].input /\ worker'[k].input[m] = worker[k].input[m + 1]
            /\ m + 1 /= i + 1
        BY <1>1, <2>6
      <3> QED
        BY <2>5, <2>6, <3>1
    <2> QED
      BY <2>2, <2>3, <2>4, <2>5, <2>6
  <1> QED
    BY <1>1 DEF RequestsPending

\* A request is taken up by a thread.
LEMMA ReadStart ==
    ASSUME IInv, NEW k \in Children, ReadRequest(k),
           Head(worker[k].input).type = "process_document",
           worker[k].threads[JobId(Head(worker[k].input).call)] = Idle
    PROVE  IInv'
  <1>1. PICK w \in Workers : w = worker[k]
    BY DEF IInv, Typed
  <1>2. PICK c \in Calls, tail \in Seq(Messages) :
              /\ c = Head(w.input).call /\ tail = Tail(w.input)
              /\ JobId(c) \in JobIds /\ sentTo[c] = k
              /\ 1 \in DOMAIN w.input /\ w.input[1].type = "process_document"
              /\ w.input[1].call = c
              /\ \A i \in DOMAIN tail : /\ i \in Nat /\ i + 1 \in DOMAIN w.input
                                         /\ i + 1 /= 1 /\ tail[i] = w.input[i + 1]
    BY <1>1, RequestAtHead
  <1>3. /\ w.state \in {"running", "killed"}
        /\ UNCHANGED <<child, pending, result, handled, inHand, sentTo, wrote, strayed, misread, budget>>
        /\ worker' = [[worker EXCEPT ![k].input = tail] EXCEPT ![k].threads[JobId(c)] = Thread(c)]
    BY <1>1, <1>2, ReadRequestCases, ZenonT(60)
  <1>4. PICK t \in Threads : t = Thread(c)
    <2>1. Thread(c) \in Threads
      BY BoundsAssumption DEF Thread, Threads
    <2> QED
      BY <2>1
  <1>5. t.call = c /\ ~t.ended
    BY <1>4 DEF Thread
  <1>6. PICK next \in [JobIds -> {Idle} \cup Threads] : next = [w.threads EXCEPT ![JobId(c)] = t]
    BY DEF Workers
  <1>7. PICK v \in Workers : v = [w EXCEPT !.input = tail, !.threads = next]
    BY DEF Workers
  <1>8. worker' = [worker EXCEPT ![k] = v]
    <2>1. PICK x \in Workers : x = [w EXCEPT !.input = tail]
      BY DEF Workers
    <2>2. x.threads = w.threads
      BY <2>1 DEF Workers
    <2>3. [worker EXCEPT ![k].input = tail] = [worker EXCEPT ![k] = x]
      BY <1>1, <2>1 DEF IInv, Typed
    <2>3a. worker' = [[worker EXCEPT ![k] = x] EXCEPT ![k].threads[JobId(c)] = t]
      BY <1>3, <1>4, <2>3
    <2>4. worker' = [worker EXCEPT ![k] = [x EXCEPT !.threads[JobId(c)] = t]]
      BY <2>3a DEF IInv, Typed
    <2>5. [x EXCEPT !.threads[JobId(c)] = t] = [x EXCEPT !.threads = next]
      BY <1>6, <2>2 DEF Workers
    <2>6. [x EXCEPT !.threads = next] = v
      BY <1>7, <2>1 DEF Workers
    <2> QED
      BY <2>4, <2>5, <2>6
  <1>9. v.state = w.state /\ v.input = tail /\ v.output = w.output /\ v.threads = next
    BY <1>7 DEF Workers
  <1>10. next[JobId(c)] = t /\ \A i \in JobIds : i /= JobId(c) => next[i] = w.threads[i]
    BY <1>2, <1>6 DEF Workers
  <1>11. worker'[k] = v
    BY <1>8 DEF IInv, Typed
  <1>12. Owns(k, v)
    <2>1. Owns(k, w)
      BY <1>1 DEF IInv, Addressed, Owns
    <2> QED
      BY <1>2, <1>5, <1>9, <1>10, <2>1 DEF Owns
  <1>13. \A i \in DOMAIN v.output : v.output[i] \in StrayLines => k \in strayed'
    BY <1>1, <1>3, <1>9 DEF IInv, StraysKnown
  <1>14. child = k => AtCurrent(k)'
    <2> SUFFICES ASSUME child = k PROVE AtCurrent(k)'
      OBVIOUS
    <2>1. AtCurrent(k)
      BY DEF IInv
    <2>2. /\ LinesExpected(k)' /\ HandExpected(k)' /\ Undelivered(k)'
          /\ \A d : Unanswered(k, d) => Unanswered(k, d)'
      BY <1>1, <1>3, <1>9, <1>11, <2>1, NoLine DEF AtCurrent
    <2>3. pending[JobId(c)] = c /\ Unanswered(k, c)
      BY <1>1, <1>2, <2>1, HeadPending
    <2>4. RequestsPending(k)'
      <3>1. \A i \in DOMAIN worker'[k].input :
              /\ i \in Nat /\ i + 1 \in DOMAIN worker[k].input /\ i + 1 /= 1
              /\ worker'[k].input[i] = worker[k].input[i + 1]
        BY <1>1, <1>2, <1>9, <1>11
      <3>2. \A i \in JobIds : i /= JobId(c) => worker'[k].threads[i] = worker[k].threads[i]
        BY <1>1, <1>9, <1>10, <1>11
      <3> QED
        BY <1>1, <1>2, <1>3, <2>1, <2>2, <3>1, <3>2, OthersPending
    <2>5. ThreadsPending(k)'
      <3>1. ASSUME NEW i \in JobIds, v.threads[i] /= Idle, ~v.threads[i].ended
            PROVE  pending[i] = v.threads[i].call /\ Unanswered(k, v.threads[i].call)'
        <4>1. CASE i = JobId(c)
          BY <1>5, <1>9, <1>10, <2>2, <2>3, <4>1
        <4>2. CASE i /= JobId(c)
          BY <1>1, <1>9, <1>10, <2>1, <2>2, <3>1, <4>2 DEF AtCurrent, ThreadsPending
        <4> QED
          BY <4>1, <4>2
      <3> QED
        BY <1>3, <1>11, <3>1 DEF ThreadsPending
    <2> QED
      BY <2>2, <2>4, <2>5 DEF AtCurrent
  <1>15. /\ budget \in [stops : Nat, cancels : Nat, faults : Nat] /\ wrote \subseteq Answers
         /\ strayed \subseteq Children
    BY DEF IInv, Typed
  <1>16. child = k => w.state \in {"running", "exited"}
    BY <1>1, BoundsAssumption DEF IInv, CurrentLives, Children
  <1>17. \A a \in wrote' : a \in wrote
    BY <1>3
  <1> QED
    BY <1>1, <1>3, <1>8, <1>9, <1>12, <1>13, <1>14, <1>15, <1>16, <1>17, WorkerStep

\* The id of the request is still in the table: it is answered at once.
LEMMA ReadRefused ==
    ASSUME IInv, NEW k \in Children, ReadRequest(k),
           Head(worker[k].input).type = "process_document",
           worker[k].threads[JobId(Head(worker[k].input).call)] /= Idle
    PROVE  IInv'
  <1>1. PICK w \in Workers : w = worker[k]
    BY DEF IInv, Typed
  <1>2. PICK c \in Calls, tail \in Seq(Messages) :
              /\ c = Head(w.input).call /\ tail = Tail(w.input)
              /\ JobId(c) \in JobIds /\ sentTo[c] = k
              /\ 1 \in DOMAIN w.input /\ w.input[1].type = "process_document"
              /\ w.input[1].call = c
              /\ \A i \in DOMAIN tail : /\ i \in Nat /\ i + 1 \in DOMAIN w.input
                                         /\ i + 1 /= 1 /\ tail[i] = w.input[i + 1]
    BY <1>1, RequestAtHead
  <1>3. /\ w.state \in {"running", "killed"}
        /\ UNCHANGED <<child, pending, result, handled, inHand, sentTo, strayed, misread, budget>>
        /\ worker' = [[worker EXCEPT ![k].input = tail] EXCEPT ![k].output = Append(@, Line("error", c))]
        /\ wrote' = wrote \cup {[child |-> k, call |-> c, type |-> "error"]}
    BY <1>1, <1>2, ReadRequestCases
  <1>4. PICK line \in Lines : line = Line("error", c)
    BY LineKinds DEF Terminal
  <1>5. line \notin StrayLines
    BY <1>4, LineKinds DEF Terminal
  <1>6. PICK out \in Seq(Lines) : out = w.output
    BY DEF Workers
  <1>7. /\ Append(out, line) \in Seq(Lines)
        /\ \A i \in DOMAIN Append(out, line) : Append(out, line)[i] = line
              \/ (i \in DOMAIN out /\ Append(out, line)[i] = out[i])
    <2>1. PICK n \in Nat : n = Len(out) /\ DOMAIN out = 1..n
      OBVIOUS
    <2>2. /\ Append(out, line) \in Seq(Lines) /\ DOMAIN Append(out, line) = 1..(n + 1)
          /\ Append(out, line)[n + 1] = line /\ \A i \in 1..n : Append(out, line)[i] = out[i]
      BY <2>1, AppendFacts
    <2> QED
      BY <2>1, <2>2
  <1>7a. PICK next \in Seq(Lines) : next = Append(out, line)
    BY <1>7
  <1>8. PICK v \in Workers : v = [w EXCEPT !.input = tail, !.output = next]
    BY DEF Workers
  <1>9. v.state = w.state /\ v.input = tail /\ v.output = next /\ v.threads = w.threads
    BY <1>8 DEF Workers
  <1>10. worker' = [worker EXCEPT ![k] = v]
    <2>1. PICK x \in Workers : x = [w EXCEPT !.input = tail]
      BY DEF Workers
    <2>2. x.output = out
      BY <1>6, <2>1 DEF Workers
    <2>3. [worker EXCEPT ![k].input = tail] = [worker EXCEPT ![k] = x]
      BY <1>1, <2>1 DEF IInv, Typed
    <2>3a. worker' = [[worker EXCEPT ![k] = x] EXCEPT ![k].output = Append(@, line)]
      BY <1>3, <1>4, <2>3
    <2>3b. worker' = [worker EXCEPT ![k] = [x EXCEPT !.output = Append(@, line)]]
      BY <2>3a DEF IInv, Typed
    <2>4. worker' = [worker EXCEPT ![k] = [x EXCEPT !.output = next]]
      BY <1>7a, <2>2, <2>3b
    <2>5. [x EXCEPT !.output = next] = v
      BY <1>8, <2>1 DEF Workers
    <2> QED
      BY <2>4, <2>5
  <1>11. worker'[k] = v
    BY <1>10 DEF IInv, Typed
  <1>12. Owns(k, v)
    <2>1. Owns(k, w)
      BY <1>1 DEF IInv, Addressed, Owns
    <2> QED
      BY <1>2, <1>9, <2>1 DEF Owns
  <1>13. \A i \in DOMAIN v.output : v.output[i] \in StrayLines => k \in strayed'
    <2>1. \A i \in DOMAIN out : out[i] \in StrayLines => k \in strayed
      BY <1>1, <1>6 DEF IInv, StraysKnown
    <2> QED
      BY <1>3, <1>5, <1>7, <1>7a, <1>9, <2>1
  <1>14. child = k => AtCurrent(k)'
    <2> SUFFICES ASSUME child = k PROVE AtCurrent(k)'
      OBVIOUS
    <2>1. AtCurrent(k)
      BY DEF IInv
    <2>2. /\ pending[JobId(c)] = c /\ Unanswered(k, c)
          /\ w.threads[JobId(c)].ended
      BY <1>1, <1>2, <2>1, HeadPending
    <2>3. worker'[k].output = Append(worker[k].output, Line("error", c))
      BY <1>1, <1>4, <1>6, <1>7a, <1>9, <1>11
    <2>4. "error" \in {"page"} \cup Terminal /\ "error" \in Terminal
      BY DEF Terminal
    <2>5. /\ LinesExpected(k)' /\ HandExpected(k)' /\ Undelivered(k)'
          /\ \A d : (Unanswered(k, d) /\ JobId(d) /= JobId(c)) => Unanswered(k, d)'
      BY <1>3, <2>1, <2>2, <2>3, <2>4, JobLine
    <2>6. RequestsPending(k)'
      BY <1>1, <1>2, <1>3, <1>9, <1>11, <2>1, <2>5, OthersPending
    <2>7. ThreadsPending(k)'
      <3>1. ASSUME NEW i \in JobIds, w.threads[i] /= Idle, ~w.threads[i].ended
            PROVE  pending[i] = w.threads[i].call /\ Unanswered(k, w.threads[i].call)'
        <4>1. pending[i] = w.threads[i].call /\ Unanswered(k, w.threads[i].call)
          BY <1>1, <2>1, <3>1 DEF AtCurrent, ThreadsPending
        <4>2. JobId(w.threads[i].call) = i /\ i /= JobId(c)
          BY <1>1, <2>2, <3>1 DEF IInv, Addressed
        <4> QED
          BY <2>5, <4>1, <4>2
      <3> QED
        BY <1>3, <1>9, <1>11, <3>1 DEF ThreadsPending
    <2> QED
      BY <2>5, <2>6, <2>7 DEF AtCurrent
  <1>15. /\ budget \in [stops : Nat, cancels : Nat, faults : Nat] /\ wrote' \subseteq Answers
         /\ strayed \subseteq Children
    BY <1>3 DEF IInv, Typed, Answers, Terminal
  <1>16. child = k => w.state \in {"running", "exited"}
    BY <1>1, BoundsAssumption DEF IInv, CurrentLives, Children
  <1>17. \A a \in wrote' : a \in wrote \/ (a.child = k /\ sentTo[a.call] = k)
    BY <1>2, <1>3
  <1>18. wrote \subseteq wrote' /\ w.state \notin {"unborn", "closed"} /\ strayed \subseteq strayed'
    BY <1>3
  <1> QED
    BY <1>1, <1>3, <1>9, <1>10, <1>12, <1>13, <1>14, <1>15, <1>16, <1>17, <1>18, WorkerStep

LEMMA ReadRequestInv ==
    ASSUME IInv, NEW k \in Children, ReadRequest(k)
    PROVE  IInv'
  BY ReadRequestCases, ReadCancel, ReadStart, ReadRefused

-----------------------------------------------------------------------------
(* Steps of the client                                                     *)

\* The child the client has is failed, stopped, misread or closed: the pending
\* calls get the outcome, and none of them was answered when it is an exit.
LEMMA FailStep ==
    ASSUME IInv, NEW k \in Children, child = k, child' = 0,
           NEW outcome \in {"failed", "exited"}, FailAll(outcome),
           NEW w \in Workers, worker' = [worker EXCEPT ![k] = w], w.state /= "unborn",
           UNCHANGED <<handled, sentTo, wrote, strayed>>,
           inHand' \in [Children -> {Idle} \cup Events],
           \A x \in Children : inHand'[x] \in {inHand[x], Idle},
           outcome = "exited" =>
              /\ w.state = "closed"
              /\ \A c \in Calls : pending[JobId(c)] = c =>
                    \A a \in wrote : ~(a.child = k /\ a.call = c),
           Owns(k, w),
           \A i \in DOMAIN w.output : w.output[i] \in StrayLines => k \in strayed,
           misread' \subseteq strayed,
           budget' \in [stops : Nat, cancels : Nat, faults : Nat]
    PROVE  IInv'
  <1> USE DEF IInv
  <1>1. /\ \A m \in Children : worker'[m] = IF m = k THEN w ELSE worker[m]
        /\ worker' \in [Children -> Workers]
    BY DEF Typed
  <1>2. /\ \A c \in Calls : result'[c] = IF pending[JobId(c)] = c THEN outcome ELSE result[c]
        /\ \A j \in JobIds : pending'[j] = Idle
        /\ \A c \in Calls : JobId(c) \in JobIds
    BY DEF FailAll, JobIds
  <1>3. worker[k].state \in {"running", "exited"}
    BY BoundsAssumption DEF CurrentLives, Children
  <1>4. Typed'
    <2>1. result' \in [Calls -> Results]
      BY <1>2 DEF FailAll, Typed, Results
    <2>2. pending' \in [JobIds -> Calls \cup {Idle}]
      BY DEF FailAll
    <2>3. child' \in 0..MaxChildren /\ misread' \subseteq Children
      BY BoundsAssumption DEF Typed
    <2> QED
      BY <1>1, <2>1, <2>2, <2>3 DEF Typed
  <1>5. Spawning'
    <2>1. PICK m \in 0..MaxChildren : \A x \in Children :
            IF x <= m THEN worker[x].state /= "unborn"
            ELSE worker[x] = Unborn /\ inHand[x] = Idle /\ \A c \in Calls : sentTo[c] /= x
      BY DEF Spawning
    <2>2. k <= m
      BY <1>3, <2>1 DEF Unborn
    <2> QED
      BY <1>1, <2>1, <2>2 DEF Spawning
  <1>6. CurrentLives'
    BY DEF CurrentLives
  <1>7. Addressed'
    <2>1. \A c \in Calls : result'[c] = "none" => sentTo'[c] = 0
      BY <1>2 DEF Addressed
    <2>2. \A j \in JobIds : pending'[j] /= Idle => JobId(pending'[j]) = j
      BY <1>2
    <2>3. \A a \in wrote' : sentTo'[a.call] = a.child
      BY DEF Addressed
    <2>4. \A x \in Children : Owns(x, worker[x]) /\ (inHand'[x] /= Idle => sentTo'[inHand'[x].call] = x)
      BY DEF Addressed, Owns
    <2>5. \A x \in Children : Owns(x, worker'[x])
      BY <1>1, <2>4
    <2> QED
      BY <2>1, <2>2, <2>3, <2>4, <2>5, SMTT(20) DEF Addressed, Owns
  <1>8. StraysKnown'
    BY <1>1 DEF StraysKnown
  <1>9. ExitedClosed' /\ ExitLosesNothing'
    <2>1. \A c \in Calls : result'[c] = "exited" =>
             \/ result[c] = "exited" /\ sentTo[c] /= k
             \/ outcome = "exited" /\ pending[JobId(c)] = c /\ sentTo[c] = k
      BY <1>2, <1>3 DEF ExitedClosed, WaitingIsPending
    <2>2. ExitedClosed'
      BY <1>1, <2>1 DEF ExitedClosed
    <2>3. ExitLosesNothing'
      BY <2>1 DEF ExitLosesNothing
    <2> QED
      BY <2>2, <2>3
  <1>10. WaitingIsPending'
    <2>1. \A c \in Calls : pending'[JobId(c)] /= c
      BY <1>2, IdleAssumption
    <2>2. \A c \in Calls : result'[c] /= "waiting"
      BY <1>2 DEF WaitingIsPending
    <2> QED
      BY <2>1, <2>2 DEF WaitingIsPending
  <1>11. OwnWorkerAnswers'
    <2>1. \A c \in Calls : result'[c] \in Terminal => result[c] = result'[c]
      BY <1>2 DEF Terminal
    <2>2. \A x \in Children : inHand'[x] /= Idle => inHand'[x] = inHand[x]
      OBVIOUS
    <2> QED
      BY <2>1, <2>2 DEF OwnWorkerAnswers
  <1>12. \A x \in Children : child' /= x
    BY BoundsAssumption DEF Children
  <1> QED
    BY <1>4, <1>5, <1>6, <1>7, <1>8, <1>9, <1>10, <1>11, <1>12 DEF NoFalseAlarm

\* Killing a worker leaves its requests, threads and lines.
LEMMA KilledIs ==
    ASSUME NEW w \in Workers
    PROVE  /\ Killed(w) \in Workers /\ Killed(w).input = w.input
           /\ Killed(w).threads = w.threads /\ Killed(w).output = w.output
           /\ w.state /= "unborn" => Killed(w).state /= "unborn"
  BY DEF Killed, Workers, States

LEMMA FailChildInv ==
    ASSUME IInv, NEW k \in Children, FailChild(k),
           UNCHANGED <<handled, sentTo, wrote, strayed, misread>>,
           inHand' \in [Children -> {Idle} \cup Events],
           \A x \in Children : inHand'[x] \in {inHand[x], Idle},
           child /= k => inHand' = [inHand EXCEPT ![k] = Idle],
           budget' \in [stops : Nat, cancels : Nat, faults : Nat]
    PROVE  IInv'
  <1>1. PICK w \in Workers : w = worker[k]
    BY DEF IInv, Typed
  <1>2. CASE child = k
    <2>1. child' = 0 /\ FailAll("failed") /\ worker' = [worker EXCEPT ![k] = Killed(w)]
      BY <1>1, <1>2 DEF FailChild
    <2>2. /\ Killed(w) \in Workers /\ Killed(w).input = w.input
          /\ Killed(w).threads = w.threads /\ Killed(w).output = w.output
          /\ w.state /= "unborn" => Killed(w).state /= "unborn"
      BY KilledIs
    <2>3. w.state /= "unborn"
      BY <1>1, <1>2, BoundsAssumption DEF IInv, CurrentLives, Children
    <2>4. Owns(k, Killed(w))
      BY <1>1, <2>2 DEF IInv, Addressed, Owns
    <2>5. \A i \in DOMAIN Killed(w).output : Killed(w).output[i] \in StrayLines => k \in strayed
      BY <1>1, <2>2 DEF IInv, StraysKnown
    <2>6. misread' \subseteq strayed
      BY DEF IInv, NoFalseAlarm
    <2> QED
      BY <1>2, <2>1, <2>2, <2>3, <2>4, <2>5, <2>6, FailStep
  <1>3. CASE child /= k
    <2>1. UNCHANGED <<child, pending, result, worker>> /\ inHand' = [inHand EXCEPT ![k] = Idle]
      BY <1>3 DEF FailChild
    <2>2. \A x \in Children : x /= k => inHand'[x] = inHand[x]
      BY <2>1 DEF IInv, Typed
    <2>3. Typed'
      BY <2>1 DEF IInv, Typed
    <2>4. Spawning' /\ CurrentLives' /\ StraysKnown' /\ ExitedClosed'
      <3>1. Spawning'
        BY <2>1 DEF IInv, Spawning
      <3> QED
        BY <2>1, <3>1 DEF IInv, CurrentLives, StraysKnown, ExitedClosed
    <2>5. Addressed'
      BY <2>1 DEF IInv, Addressed
    <2>6. WaitingIsPending' /\ ExitLosesNothing' /\ NoFalseAlarm'
      BY <2>1 DEF IInv, WaitingIsPending, ExitLosesNothing, NoFalseAlarm
    <2>7. OwnWorkerAnswers'
      BY <2>1 DEF IInv, OwnWorkerAnswers
    <2>8. ASSUME NEW x \in Children, child' = x PROVE AtCurrent(x)'
      <3>1. AtCurrent(x) /\ inHand'[x] = inHand[x]
        BY <1>3, <2>1, <2>2, <2>8 DEF IInv
      <3>2. \A d : Unanswered(x, d) => Unanswered(x, d)'
        BY <2>1, <3>1 DEF Unanswered
      <3>3. LinesExpected(x)' /\ HandExpected(x)' /\ Undelivered(x)'
        BY <2>1, <3>1 DEF AtCurrent, LinesExpected, HandExpected, Undelivered, Expected
      <3>4. RequestsPending(x)' /\ ThreadsPending(x)'
        BY <2>1, <3>1, <3>2 DEF AtCurrent, RequestsPending, ThreadsPending
      <3> QED
        BY <3>3, <3>4 DEF AtCurrent
    <2> QED
      BY <2>3, <2>4, <2>5, <2>6, <2>7, <2>8 DEF IInv
  <1> QED
    BY <1>2, <1>3

LEMMA StopInv ==
    ASSUME IInv, Stop
    PROVE  IInv'
  <1>1. PICK k \in Children : k = child
    BY BoundsAssumption DEF Stop, IInv, Typed, Children
  <1>2. /\ FailChild(k) /\ UNCHANGED <<handled, sentTo, wrote, strayed, misread, inHand>>
        /\ budget' \in [stops : Nat, cancels : Nat, faults : Nat]
    BY <1>1, SpentType DEF Stop, histories, IInv
  <1>3. inHand \in [Children -> {Idle} \cup Events]
    BY DEF IInv, Typed
  <1> QED
    BY <1>1, <1>2, <1>3, FailChildInv

LEMMA PipeFailsInv ==
    ASSUME IInv, NEW k \in Children, PipeFails(k)
    PROVE  IInv'
  <1>1. /\ child = k /\ FailChild(k) /\ UNCHANGED <<handled, sentTo, wrote, strayed, misread, inHand>>
        /\ budget' \in [stops : Nat, cancels : Nat, faults : Nat]
    BY DEF PipeFails, histories, IInv, Typed
  <1>2. inHand \in [Children -> {Idle} \cup Events]
    BY DEF IInv, Typed
  <1> QED
    BY <1>1, <1>2, FailChildInv

LEMMA HandlerFailsInv ==
    ASSUME IInv, NEW k \in Children, HandlerFails(k)
    PROVE  IInv'
  <1>1. /\ FailChild(k) /\ UNCHANGED <<handled, sentTo, wrote, strayed, misread>>
        /\ inHand' = [inHand EXCEPT ![k] = Idle]
        /\ budget' \in [stops : Nat, cancels : Nat, faults : Nat]
    BY SpentType DEF HandlerFails, histories, IInv
  <1>2. /\ inHand' \in [Children -> {Idle} \cup Events]
        /\ \A x \in Children : inHand'[x] \in {inHand[x], Idle}
    BY <1>1 DEF IInv, Typed
  <1> QED
    BY <1>1, <1>2, FailChildInv

LEMMA CloseInv ==
    ASSUME IInv, NEW k \in Children, Close(k)
    PROVE  IInv'
  <1>1. PICK w \in Workers : w = worker[k]
    BY DEF IInv, Typed
  <1>2. /\ w.state = "exited" /\ w.output = <<>> /\ inHand[k] = Idle
        /\ worker' = [worker EXCEPT ![k].state = "closed"]
        /\ UNCHANGED <<handled, inHand, sentTo, wrote, strayed, misread, budget>>
    BY <1>1 DEF Close, Drained, histories
  <1>3. PICK v \in Workers : v = [w EXCEPT !.state = "closed"]
    BY DEF Workers, States
  <1>4. /\ v.state = "closed" /\ v.input = w.input /\ v.output = <<>> /\ v.threads = w.threads
        /\ worker' = [worker EXCEPT ![k] = v]
    BY <1>1, <1>2, <1>3 DEF Workers, IInv, Typed
  <1>5. Owns(k, v)
    BY <1>1, <1>4 DEF IInv, Addressed, Owns
  <1>6. DOMAIN v.output = {}
    BY <1>4
  <1>7. /\ budget \in [stops : Nat, cancels : Nat, faults : Nat] /\ misread \subseteq strayed
        /\ inHand \in [Children -> {Idle} \cup Events] /\ wrote \subseteq Answers
        /\ strayed \subseteq Children
    BY DEF IInv, Typed, NoFalseAlarm
  <1>8. CASE child = k
    <2>1. child' = 0 /\ FailAll("exited")
      BY <1>8 DEF Close, Closed
    <2>2. ASSUME NEW c \in Calls, pending[JobId(c)] = c, NEW a \in wrote
          PROVE  ~(a.child = k /\ a.call = c)
      <3>1. result[c] = "waiting"
        BY <2>2 DEF IInv, WaitingIsPending
      <3>2. Undelivered(k)
        BY <1>8 DEF IInv, AtCurrent
      <3>3. DOMAIN worker[k].output = {}
        BY <1>1, <1>2
      <3> QED
        BY <1>2, <3>1, <3>2, <3>3 DEF Undelivered
    <2> QED
      BY <1>2, <1>4, <1>5, <1>6, <1>7, <1>8, <2>1, <2>2, FailStep
  <1>9. CASE child /= k
    <2>1. UNCHANGED <<child, pending, result>>
      BY <1>9 DEF Close, Closed
    <2>2. /\ \A a \in wrote' : a \in wrote
          /\ strayed \subseteq strayed' /\ wrote \subseteq wrote'
          /\ v.state /= "unborn" /\ worker[k].state \notin {"unborn", "closed"}
      BY <1>1, <1>2, <1>4
    <2> QED
      BY <1>2, <1>4, <1>5, <1>6, <1>7, <1>9, <2>1, <2>2, WorkerStep
  <1> QED
    BY <1>8, <1>9

\* A line is taken from the output of a child.
LEMMA LineTaken ==
    ASSUME IInv, NEW k \in Children, worker[k].output /= <<>>
    PROVE  \E v \in Workers :
             /\ [worker EXCEPT ![k].output = Tail(@)] = [worker EXCEPT ![k] = v]
             /\ v.state = worker[k].state /\ v.state /= "unborn"
             /\ v.input = worker[k].input /\ v.threads = worker[k].threads
             /\ v.output = Tail(worker[k].output)
             /\ Owns(k, v)
             /\ 1 \in DOMAIN worker[k].output
             /\ Head(worker[k].output) \in Lines /\ Head(worker[k].output) = worker[k].output[1]
             /\ \A i \in DOMAIN v.output :
                  /\ i \in Nat \ {0} /\ i + 1 \in DOMAIN worker[k].output
                  /\ v.output[i] = worker[k].output[i + 1]
             /\ \A i \in DOMAIN worker[k].output : i = 1 \/ (i \in Nat /\ i > 1 /\ i - 1 \in DOMAIN v.output
                    /\ worker[k].output[i] = v.output[i - 1])
             /\ \A i \in DOMAIN v.output : v.output[i] \in StrayLines => k \in strayed
  <1>1. PICK w \in Workers : w = worker[k]
    BY DEF IInv, Typed
  <1>2. PICK out \in Seq(Lines) : out = w.output /\ out /= <<>>
    BY <1>1 DEF Workers
  <1>3. PICK n \in Nat : n = Len(out) /\ DOMAIN out = 1..n
    OBVIOUS
  <1>4. /\ n > 0 /\ Tail(out) \in Seq(Lines) /\ Head(out) \in Lines /\ Head(out) = out[1]
        /\ DOMAIN Tail(out) = 1..(n - 1)
        /\ \A i \in 1..(n - 1) : Tail(out)[i] = out[i + 1]
    BY <1>2, <1>3, TailFacts
  <1>5. PICK tail \in Seq(Lines) : tail = Tail(out)
    BY <1>4
  <1>6. PICK v \in Workers : v = [w EXCEPT !.output = tail]
    BY DEF Workers
  <1>7. /\ v.state = w.state /\ v.input = w.input /\ v.threads = w.threads /\ v.output = tail
        /\ [worker EXCEPT ![k].output = Tail(@)] = [worker EXCEPT ![k] = v]
    BY <1>1, <1>2, <1>5, <1>6 DEF Workers, IInv, Typed
  <1>8. w.state /= "unborn"
    BY <1>1, <1>2 DEF IInv, Spawning, Unborn
  <1>9. Owns(k, v)
    BY <1>1, <1>7 DEF IInv, Addressed, Owns
  <1>10. \A i \in DOMAIN out : out[i] \in StrayLines => k \in strayed
    BY <1>1, <1>2 DEF IInv, StraysKnown
  <1>11. /\ 1 \in DOMAIN out
         /\ \A i \in DOMAIN tail : i \in Nat \ {0} /\ i + 1 \in DOMAIN out /\ tail[i] = out[i + 1]
         /\ \A i \in DOMAIN out : i = 1 \/ (i \in Nat /\ i > 1 /\ i - 1 \in DOMAIN tail /\ out[i] = tail[i - 1])
    BY <1>3, <1>4, <1>5
  <1>12. \A i \in DOMAIN tail : tail[i] \in StrayLines => k \in strayed
    BY <1>10, <1>11
  <1>13. \A i \in DOMAIN v.output : v.output[i] \in StrayLines => k \in strayed
    BY <1>7, <1>12
  <1>14. /\ v.state = worker[k].state /\ v.state /= "unborn"
         /\ v.input = worker[k].input /\ v.threads = worker[k].threads
         /\ v.output = Tail(worker[k].output)
         /\ 1 \in DOMAIN worker[k].output
         /\ Head(worker[k].output) \in Lines /\ Head(worker[k].output) = worker[k].output[1]
    BY <1>1, <1>2, <1>4, <1>5, <1>7, <1>8, <1>11
  <1>15. /\ \A i \in DOMAIN v.output : i \in Nat \ {0} /\ i + 1 \in DOMAIN worker[k].output
                                      /\ v.output[i] = worker[k].output[i + 1]
         /\ \A i \in DOMAIN worker[k].output : i = 1 \/ (i \in Nat /\ i > 1 /\ i - 1 \in DOMAIN v.output
                    /\ worker[k].output[i] = v.output[i - 1])
    BY <1>1, <1>2, <1>7, <1>11
  <1> WITNESS v \in Workers
  <1> QED
    BY <1>7, <1>9, <1>13, <1>14, <1>15

\* A line of a child that is not the current one is dropped.
LEMMA ReadIgnored ==
    ASSUME IInv, NEW k \in Children, worker[k].output /= <<>>, child /= k,
           worker' = [worker EXCEPT ![k].output = Tail(@)],
           UNCHANGED <<child, pending, result, handled, inHand, sentTo, wrote, strayed, misread, budget>>
    PROVE  IInv'
  <1>1. PICK v \in Workers :
             /\ worker' = [worker EXCEPT ![k] = v]
             /\ v.state = worker[k].state /\ v.state /= "unborn"
             /\ Owns(k, v)
             /\ \A i \in DOMAIN v.output : v.output[i] \in StrayLines => k \in strayed
    BY LineTaken
  <1>2. /\ budget \in [stops : Nat, cancels : Nat, faults : Nat] /\ wrote \subseteq Answers
        /\ strayed \subseteq Children
    BY DEF IInv, Typed
  <1>3. (\A a \in wrote' : a \in wrote) /\ strayed \subseteq strayed' /\ wrote \subseteq wrote'
    OBVIOUS
  <1> QED
    BY <1>1, <1>2, <1>3, WorkerStep

\* A line of the current child that is not expected fails it: it was a stray one.
LEMMA ReadUnexpected ==
    ASSUME IInv, NEW k \in Children, worker[k].output /= <<>>, child = k,
           ~Expected(Head(worker[k].output)), child' = 0, FailAll("failed"),
           worker' = [[worker EXCEPT ![k].output = Tail(@)] EXCEPT ![k] = Killed(@)],
           misread' = misread \cup {k},
           UNCHANGED <<handled, inHand, sentTo, wrote, strayed, budget>>
    PROVE  IInv'
  <1>1. PICK v \in Workers :
             /\ [worker EXCEPT ![k].output = Tail(@)] = [worker EXCEPT ![k] = v]
             /\ v.state /= "unborn" /\ Owns(k, v)
             /\ 1 \in DOMAIN worker[k].output
             /\ Head(worker[k].output) = worker[k].output[1]
             /\ \A i \in DOMAIN v.output : v.output[i] \in StrayLines => k \in strayed
    BY LineTaken
  <1>2. worker[k].output[1] \in StrayLines
    BY <1>1 DEF IInv, AtCurrent, LinesExpected
  <1>3. k \in strayed
    BY <1>1, <1>2 DEF IInv, StraysKnown
  <1>4. /\ Killed(v) \in Workers /\ Killed(v).input = v.input
        /\ Killed(v).threads = v.threads /\ Killed(v).output = v.output
        /\ v.state /= "unborn" => Killed(v).state /= "unborn"
    BY KilledIs
  <1>5. worker' = [worker EXCEPT ![k] = Killed(v)]
    BY <1>1 DEF IInv, Typed
  <1>6. Owns(k, Killed(v))
    BY <1>1, <1>4 DEF Owns
  <1>7. \A i \in DOMAIN Killed(v).output : Killed(v).output[i] \in StrayLines => k \in strayed
    BY <1>1, <1>4
  <1>8. misread' \subseteq strayed
    BY <1>3 DEF IInv, NoFalseAlarm
  <1>9. /\ inHand' \in [Children -> {Idle} \cup Events]
        /\ \A x \in Children : inHand'[x] \in {inHand[x], Idle}
        /\ budget' \in [stops : Nat, cancels : Nat, faults : Nat]
    BY DEF IInv, Typed
  <1> QED
    BY <1>1, <1>4, <1>5, <1>6, <1>7, <1>8, <1>9, FailStep

\* The call of an expected line waits for this child.
LEMMA ExpectedCall ==
    ASSUME IInv, NEW k \in Children, child = k, NEW line \in Lines, Expected(line)
    PROVE  /\ pending[line.job] \in Calls /\ JobId(pending[line.job]) = line.job
           /\ line /= Garbage /\ line \notin StrayLines
           /\ line.job \in JobIds /\ line.doc = DocumentId(pending[line.job])
           /\ sentTo[pending[line.job]] = k
  <1>1. /\ line /= Garbage /\ pending[line.job] /= Idle /\ line.doc = DocumentId(pending[line.job])
        /\ line \notin StrayLines
    BY StrayUnexpected DEF Expected, IInv
  <1>2. line.job \in JobIds
    BY <1>1, LineKinds
  <1>3. PICK c \in Calls : c = pending[line.job]
    BY <1>1, <1>2 DEF IInv, Typed
  <1>4. JobId(c) = line.job
    BY <1>1, <1>2, <1>3 DEF IInv, Addressed
  <1>5. sentTo[c] = k
    BY <1>3, <1>4 DEF IInv, WaitingIsPending
  <1> QED
    BY <1>1, <1>2, <1>3, <1>4, <1>5

\* An expected line comes into the hand of the handlers.
LEMMA ReadExpected ==
    ASSUME IInv, NEW k \in Children, worker[k].output /= <<>>, child = k, inHand[k] = Idle,
           Expected(Head(worker[k].output)),
           inHand' = [inHand EXCEPT ![k] = [line |-> Head(worker[k].output),
                                            call |-> pending[Head(worker[k].output).job]]],
           worker' = [worker EXCEPT ![k].output = Tail(@)],
           UNCHANGED <<child, pending, result, misread, handled, sentTo, wrote, strayed, budget>>
    PROVE  IInv'
  <1>1. PICK v \in Workers :
             /\ worker' = [worker EXCEPT ![k] = v]
             /\ v.state = worker[k].state /\ v.state /= "unborn"
             /\ v.input = worker[k].input /\ v.threads = worker[k].threads
             /\ Owns(k, v)
             /\ 1 \in DOMAIN worker[k].output
             /\ Head(worker[k].output) \in Lines /\ Head(worker[k].output) = worker[k].output[1]
             /\ \A i \in DOMAIN v.output :
                  /\ i \in Nat \ {0} /\ i + 1 \in DOMAIN worker[k].output
                  /\ v.output[i] = worker[k].output[i + 1]
             /\ \A i \in DOMAIN worker[k].output : i = 1 \/ (i \in Nat /\ i > 1 /\ i - 1 \in DOMAIN v.output
                    /\ worker[k].output[i] = v.output[i - 1])
             /\ \A i \in DOMAIN v.output : v.output[i] \in StrayLines => k \in strayed
    BY LineTaken
  <1>2. PICK line \in Lines : line = Head(worker[k].output) /\ line = worker[k].output[1]
    BY <1>1
  <1>3. PICK c \in Calls : c = pending[line.job]
    BY <1>2, ExpectedCall
  <1>4. /\ line /= Garbage /\ JobId(c) = line.job /\ line.job \in JobIds
        /\ line \notin StrayLines
        /\ DocumentId(c) = line.doc /\ sentTo[c] = k
    BY <1>2, <1>3, ExpectedCall
  <1>5. PICK event \in Events : event = [line |-> line, call |-> c]
    BY <1>4 DEF Events
  <1>6. event.line = line /\ event.call = c
    BY <1>5
  <1>7. /\ inHand' \in [Children -> {Idle} \cup Events]
        /\ \A x \in Children : inHand'[x] = IF x = k THEN event ELSE inHand[x]
    BY <1>2, <1>3, <1>5 DEF IInv, Typed
  <1>8. /\ worker' \in [Children -> Workers]
        /\ \A x \in Children : worker'[x] = IF x = k THEN v ELSE worker[x]
    BY <1>1 DEF IInv, Typed
  <1>9. Typed'
    BY <1>7, <1>8 DEF IInv, Typed
  <1>10. Spawning'
    <2>1. PICK m \in 0..MaxChildren : \A x \in Children :
            IF x <= m THEN worker[x].state /= "unborn"
            ELSE worker[x] = Unborn /\ inHand[x] = Idle /\ \A d \in Calls : sentTo[d] /= x
      BY DEF IInv, Spawning
    <2>2. k <= m
      BY <1>1, <2>1 DEF Unborn
    <2> QED
      BY <1>1, <1>7, <1>8, <2>1, <2>2, SMTT(20) DEF Spawning
  <1>11. CurrentLives' /\ StraysKnown' /\ ExitedClosed'
    <2>1. CurrentLives'
      BY <1>1, <1>8, BoundsAssumption DEF IInv, CurrentLives, Children
    <2>2. StraysKnown'
      BY <1>1, <1>8 DEF IInv, StraysKnown
    <2>3. ExitedClosed'
      BY <1>1, <1>8 DEF IInv, ExitedClosed
    <2> QED
      BY <2>1, <2>2, <2>3
  <1>12. Addressed'
    <2>1. /\ \A d \in Calls : result'[d] = "none" => sentTo'[d] = 0
          /\ \A j \in JobIds : pending'[j] /= Idle => JobId(pending'[j]) = j
          /\ \A a \in wrote' : sentTo'[a.call] = a.child
      BY DEF IInv, Addressed
    <2>2. \A x \in Children : inHand'[x] /= Idle => sentTo'[inHand'[x].call] = x
      BY <1>4, <1>6, <1>7 DEF IInv, Addressed
    <2>3. \A x \in Children : Owns(x, worker[x])
      BY DEF IInv, Addressed, Owns
    <2>4. \A x \in Children : Owns(x, worker'[x])
      BY <1>1, <1>8, <2>3
    <2> QED
      BY <2>1, <2>2, <2>4 DEF Addressed, Owns
  <1>13. WaitingIsPending' /\ ExitLosesNothing' /\ NoFalseAlarm'
    <2>1. WaitingIsPending'
      BY DEF IInv, WaitingIsPending
    <2> QED
      BY <2>1 DEF IInv, ExitLosesNothing, NoFalseAlarm
  <1>14. OwnWorkerAnswers'
    BY <1>4, <1>6, <1>7 DEF IInv, OwnWorkerAnswers
  <1>15. AtCurrent(k)'
    <2>1. AtCurrent(k) /\ worker'[k] = v /\ inHand'[k] = event /\ event /= Idle
      BY <1>5, <1>7, <1>8, IdleAssumption DEF IInv
    <2>2. LinesExpected(k)'
      <3>1. ASSUME NEW i \in DOMAIN worker'[k].output, NEW next, next = worker'[k].output[i]
            PROVE  /\ next \in StrayLines \/ Expected(next)'
                   /\ next.type \in Terminal =>
                        /\ [child |-> k, call |-> pending'[next.job], type |-> next.type] \in wrote'
                        /\ \A m \in DOMAIN worker'[k].output :
                             (m > i /\ worker'[k].output[m] \notin StrayLines)
                                 => worker'[k].output[m].job /= next.job
        <4>0. PICK out \in Seq(Lines), tail \in Seq(Lines) :
                  out = worker[k].output /\ tail = v.output /\ tail = worker'[k].output
          BY <2>1 DEF IInv, Typed, Workers
        <4>0a. \A m \in DOMAIN tail : m \in Nat /\ m + 1 \in DOMAIN out /\ tail[m] = out[m + 1]
          BY <1>1, <4>0
        <4>1. /\ i \in Nat /\ i + 1 \in DOMAIN out /\ next = out[i + 1]
              /\ \A m \in DOMAIN tail : m > i => m + 1 > i + 1
          BY <3>1, <4>0, <4>0a
        <4>2. LinesExpected(k) /\ UNCHANGED <<pending, wrote>>
          BY <2>1 DEF AtCurrent
        <4>3. next \in StrayLines \/ Expected(next)'
          BY <4>0, <4>1, <4>2 DEF LinesExpected, Expected
        <4>4. ASSUME next.type \in Terminal
              PROVE  /\ [child |-> k, call |-> pending'[next.job], type |-> next.type] \in wrote'
                     /\ \A m \in DOMAIN worker'[k].output :
                             (m > i /\ worker'[k].output[m] \notin StrayLines)
                                 => worker'[k].output[m].job /= next.job
          <5>1. /\ [child |-> k, call |-> pending[next.job], type |-> next.type] \in wrote
                /\ \A m \in DOMAIN out : (m > i + 1 /\ out[m] \notin StrayLines) => out[m].job /= next.job
            BY <4>0, <4>1, <4>2, <4>4 DEF LinesExpected
          <5>2. \A m \in DOMAIN tail : (m > i /\ tail[m] \notin StrayLines) => tail[m].job /= next.job
            BY <4>0a, <4>1, <5>1
          <5> QED
            BY <4>0, <4>2, <5>1, <5>2
        <4> QED
          BY <4>3, <4>4
      <3> QED
        BY <3>1 DEF LinesExpected, Expected
    <2>3. HandExpected(k)'
      <3>1. ASSUME line.type \in Terminal
            PROVE  /\ [child |-> k, call |-> c, type |-> line.type] \in wrote
                   /\ \A m \in DOMAIN worker[k].output :
                        (m > 1 /\ worker[k].output[m] \notin StrayLines)
                            => worker[k].output[m].job /= line.job
        <4>1. 1 \in DOMAIN worker[k].output /\ line = worker[k].output[1]
          BY <1>1, <1>2
        <4>2. LinesExpected(k)
          BY <2>1 DEF AtCurrent
        <4> QED
          BY <1>3, <3>1, <4>1, <4>2 DEF LinesExpected
      <3>2. \A m \in DOMAIN v.output : /\ m + 1 \in DOMAIN worker[k].output /\ m + 1 > 1
                                       /\ v.output[m] = worker[k].output[m + 1]
        BY <1>1
      <3>3. line.type \in Terminal => \A m \in DOMAIN v.output :
                                         v.output[m] \notin StrayLines => v.output[m].job /= line.job
        BY <3>1, <3>2
      <3>4. pending[line.job] = c /\ line.doc = DocumentId(c) /\ UNCHANGED <<pending, wrote>>
        BY <1>3, <1>4
      <3> QED
        BY <1>6, <2>1, <3>1, <3>3, <3>4 DEF HandExpected
    <2>4. Undelivered(k)'
      <3>1. ASSUME NEW a \in wrote, a.child = k, result[a.call] = "waiting"
            PROVE  \/ \E i \in DOMAIN v.output : v.output[i] = Line(a.type, a.call)
                   \/ line = Line(a.type, a.call)
        <4>1. PICK i \in DOMAIN worker[k].output : worker[k].output[i] = Line(a.type, a.call)
          BY <2>1, <3>1 DEF AtCurrent, Undelivered
        <4> QED
          BY <1>1, <1>2, <4>1
      <3> QED
        BY <1>6, <2>1, <3>1 DEF Undelivered
    <2>5. ASSUME NEW d, Unanswered(k, d) PROVE Unanswered(k, d)'
      <3>1. line.type \in Terminal => line.job /= JobId(d)
        BY <1>1, <1>2, <2>5 DEF Unanswered
      <3>2. \A i \in DOMAIN v.output : v.output[i].type \in Terminal => v.output[i].job /= JobId(d)
        BY <1>1, <2>5 DEF Unanswered
      <3> QED
        BY <1>6, <2>1, <2>5, <3>1, <3>2 DEF Unanswered
    <2>6. RequestsPending(k)' /\ ThreadsPending(k)'
      <3>1. v.input = worker[k].input /\ v.threads = worker[k].threads
        BY <1>1
      <3>2. RequestsPending(k)'
        BY <2>1, <2>5, <3>1, SMTT(30) DEF AtCurrent, RequestsPending
      <3>3. ThreadsPending(k)'
        BY <2>1, <2>5, <3>1 DEF AtCurrent, ThreadsPending
      <3> QED
        BY <3>2, <3>3
    <2> QED
      BY <2>2, <2>3, <2>4, <2>6 DEF AtCurrent
  <1>16. \A x \in Children : child' = x => AtCurrent(x)'
    BY <1>15
  <1> QED
    BY <1>9, <1>10, <1>11, <1>12, <1>13, <1>14, <1>16 DEF IInv

LEMMA ReadLineInv ==
    ASSUME IInv, NEW k \in Children, ReadLine(k)
    PROVE  IInv'
  <1>1. /\ inHand[k] = Idle /\ worker[k].output /= <<>>
        /\ UNCHANGED <<handled, sentTo, wrote, strayed, budget>>
    BY DEF ReadLine, Ready
  <1>2. CASE /\ Speaks(k) /\ Expected(Head(worker[k].output))
             /\ inHand' = [inHand EXCEPT ![k] = [line |-> Head(worker[k].output),
                                                 call |-> pending[Head(worker[k].output).job]]]
             /\ worker' = [worker EXCEPT ![k].output = Tail(@)]
             /\ UNCHANGED <<child, pending, result, misread>>
    BY <1>1, <1>2, ReadExpected DEF Speaks
  <1>3. CASE /\ Speaks(k) /\ ~Expected(Head(worker[k].output))
             /\ child' = 0 /\ FailAll("failed")
             /\ worker' = [[worker EXCEPT ![k].output = Tail(@)] EXCEPT ![k] = Killed(@)]
             /\ misread' = misread \cup {k}
             /\ UNCHANGED inHand
    BY <1>1, <1>3, ReadUnexpected DEF Speaks
  <1>4. CASE /\ ~Speaks(k) /\ worker' = [worker EXCEPT ![k].output = Tail(@)]
             /\ UNCHANGED <<child, pending, result, misread, inHand>>
    BY <1>1, <1>4, ReadIgnored DEF Speaks
  <1> QED
    BY <1>2, <1>3, <1>4 DEF ReadLine

\* The handler of a call takes pages only.
LEMMA TakenType ==
    ASSUME Typed, NEW k \in Children, inHand[k] /= Idle
    PROVE  Taken(inHand[k]) \in [Calls -> Seq(Nat)]
  <1>1. PICK event \in Events : event = inHand[k]
    BY DEF Typed
  <1>2. PICK c \in Calls : c = event.call
    BY DEF Events
  <1>3. PICK s \in Seq(Nat) : s = handled[c]
    BY DEF Typed
  <1>4. Len(s) + 1 \in Nat
    OBVIOUS
  <1>5. Append(s, Len(s) + 1) \in Seq(Nat)
    BY <1>4
  <1>6. [handled EXCEPT ![c] = Append(@, Len(@) + 1)] \in [Calls -> Seq(Nat)]
    BY <1>3, <1>5 DEF Typed
  <1> QED
    BY <1>1, <1>2, <1>6 DEF Taken, Typed

\* The line in hand is forgotten, and the call it ends is settled with it.
LEMMA HandlersReturnInv ==
    ASSUME IInv, NEW k \in Children, HandlersReturn(k)
    PROVE  IInv'
  <1>1. PICK event \in Events : event = inHand[k]
    BY DEF HandlersReturn, IInv, Typed
  <1>2. PICK line \in Lines \ {Garbage}, c \in Calls : line = event.line /\ c = event.call
    BY DEF Events
  <1>3. /\ handled' \in [Calls -> Seq(Nat)]
        /\ inHand' = [inHand EXCEPT ![k] = Idle]
        /\ UNCHANGED <<child, worker, sentTo, wrote, strayed, misread, budget>>
        /\ IF Settles(k) THEN /\ pending' = [pending EXCEPT ![line.job] = Idle]
                              /\ result' = [result EXCEPT ![c] = IF @ = "waiting" THEN line.type ELSE @]
           ELSE UNCHANGED <<pending, result>>
    BY <1>1, <1>2, TakenType DEF HandlersReturn, histories, IInv
  <1>4. /\ line.job \in JobIds /\ \A d \in Calls : JobId(d) \in JobIds
        /\ line.type \in Terminal => line \notin StrayLines
    BY LineKinds DEF JobIds
  <1>5. ASSUME Settles(k)
        PROVE  /\ child = k /\ line.type \in Terminal
               /\ pending[line.job] = c /\ JobId(c) = line.job
               /\ result[c] = "waiting" /\ sentTo[c] = k
               /\ [child |-> k, call |-> c, type |-> line.type] \in wrote
               /\ \A m \in DOMAIN worker[k].output :
                    worker[k].output[m] \notin StrayLines => worker[k].output[m].job /= line.job
               /\ pending' = [pending EXCEPT ![line.job] = Idle]
               /\ result' = [result EXCEPT ![c] = line.type]
    <2>1. child = k /\ line.type \in Terminal
      BY <1>1, <1>2, <1>5 DEF Settles
    <2>2. HandExpected(k) /\ inHand[k] /= Idle
      BY <1>1, <2>1, IdleAssumption DEF IInv, AtCurrent
    <2>3. /\ pending[line.job] = c
          /\ [child |-> k, call |-> c, type |-> line.type] \in wrote
          /\ \A m \in DOMAIN worker[k].output :
               worker[k].output[m] \notin StrayLines => worker[k].output[m].job /= line.job
      BY <1>1, <1>2, <2>1, <2>2 DEF HandExpected
    <2>4. JobId(c) = line.job
      BY <1>4, <2>3, IdleAssumption DEF IInv, Addressed
    <2>5. result[c] = "waiting" /\ sentTo[c] = k
      BY <2>1, <2>3, <2>4 DEF IInv, WaitingIsPending
    <2> QED
      BY <1>3, <1>5, <2>1, <2>3, <2>4, <2>5
  <1>6. /\ \A d \in Calls : \/ result'[d] = result[d]
                            \/ Settles(k) /\ d = c /\ result'[d] = line.type
        /\ \A j \in JobIds : \/ pending'[j] = pending[j]
                             \/ Settles(k) /\ j = line.job /\ pending'[j] = Idle
        /\ result' \in [Calls -> Results] /\ pending' \in [JobIds -> Calls \cup {Idle}]
    <2>1. CASE Settles(k)
      BY <1>4, <1>5, <2>1 DEF IInv, Typed, Results
    <2>2. CASE ~Settles(k)
      BY <1>3, <2>2 DEF IInv, Typed
    <2> QED
      BY <2>1, <2>2
  <1>7. /\ inHand' \in [Children -> {Idle} \cup Events]
        /\ \A x \in Children : inHand'[x] = IF x = k THEN Idle ELSE inHand[x]
    BY <1>3 DEF IInv, Typed
  <1>8. Typed'
    BY <1>3, <1>6, <1>7 DEF IInv, Typed
  <1>9. Spawning' /\ CurrentLives' /\ StraysKnown'
    <2>1. Spawning'
      BY <1>3, <1>7 DEF IInv, Spawning
    <2>2. CurrentLives' /\ StraysKnown'
      BY <1>3 DEF IInv, CurrentLives, StraysKnown
    <2> QED
      BY <2>1, <2>2
  <1>10. ExitedClosed' /\ ExitLosesNothing'
    <2>1. \A d \in Calls : result'[d] = "exited" => result[d] = "exited"
      BY <1>5, <1>6 DEF Terminal
    <2>2. ExitedClosed'
      BY <1>3, <2>1 DEF IInv, ExitedClosed
    <2>3. ExitLosesNothing'
      BY <1>3, <2>1 DEF IInv, ExitLosesNothing
    <2> QED
      BY <2>2, <2>3
  <1>11. Addressed'
    <2>1. \A d \in Calls : result'[d] = "none" => sentTo'[d] = 0
      BY <1>3, <1>5, <1>6 DEF IInv, Addressed, Terminal
    <2>2. \A j \in JobIds : pending'[j] /= Idle => JobId(pending'[j]) = j
      BY <1>6 DEF IInv, Addressed
    <2>3. \A x \in Children : inHand'[x] /= Idle => sentTo'[inHand'[x].call] = x
      BY <1>3, <1>7 DEF IInv, Addressed
    <2> QED
      BY <1>3, <2>1, <2>2, <2>3 DEF IInv, Addressed
  <1>12. WaitingIsPending'
    <2>1. ASSUME NEW d \in Calls
          PROVE  /\ result'[d] = "waiting" <=> pending'[JobId(d)] = d
                 /\ result'[d] = "waiting" => (child' /= 0 /\ sentTo'[d] = child')
      <3>1. CASE Settles(k) /\ JobId(d) = line.job
        <4>1. pending'[JobId(d)] = Idle /\ d /= Idle
          BY <1>4, <1>5, <3>1, IdleAssumption DEF IInv, Typed
        <4>2. CASE d = c
          <5>1. result'[d] = line.type /\ line.type \in Terminal
            BY <1>5, <3>1, <4>2 DEF IInv, Typed
          <5>2. result'[d] /= "waiting"
            BY <5>1 DEF Terminal
          <5> QED
            BY <4>1, <5>2
        <4>3. CASE d /= c
          BY <1>5, <1>6, <3>1, <4>1, <4>3 DEF IInv, WaitingIsPending
        <4> QED
          BY <4>2, <4>3
      <3>2. CASE ~(Settles(k) /\ JobId(d) = line.job)
        <4>1. pending'[JobId(d)] = pending[JobId(d)] /\ result'[d] = result[d]
          BY <1>4, <1>5, <1>6, <3>2
        <4> QED
          BY <1>3, <4>1 DEF IInv, WaitingIsPending
      <3> QED
        BY <3>1, <3>2
    <2> QED
      BY <2>1 DEF WaitingIsPending
  <1>13. OwnWorkerAnswers' /\ NoFalseAlarm'
    <2>1. \A d \in Calls : result'[d] \in Terminal =>
             [child |-> sentTo[d], call |-> d, type |-> result'[d]] \in wrote
      BY <1>5, <1>6 DEF IInv, OwnWorkerAnswers
    <2>2. \A x \in Children : inHand'[x] /= Idle => sentTo[inHand'[x].call] = x
      BY <1>7 DEF IInv, OwnWorkerAnswers
    <2> QED
      BY <1>3, <2>1, <2>2 DEF IInv, OwnWorkerAnswers, NoFalseAlarm
  <1>14. ASSUME child = k PROVE AtCurrent(k)'
    <2>1. AtCurrent(k) /\ inHand'[k] = Idle /\ worker'[k] = worker[k] /\ wrote' = wrote
      BY <1>3, <1>7, <1>14 DEF IInv
    <2>2. ASSUME NEW i \in DOMAIN worker[k].output, worker[k].output[i] \notin StrayLines
          PROVE  /\ Expected(worker[k].output[i]) /\ worker[k].output[i].job \in JobIds
                 /\ pending'[worker[k].output[i].job] = pending[worker[k].output[i].job]
      <3>1. PICK next \in Lines : next = worker[k].output[i]
        BY Elements DEF IInv, Typed, Workers
      <3>2. Expected(next)
        BY <2>1, <2>2, <3>1 DEF AtCurrent, LinesExpected
      <3>3. next.job \in JobIds
        BY <3>2, LineKinds DEF Expected
      <3>4. Settles(k) => next.job /= line.job
        BY <1>5, <2>2, <3>1
      <3> QED
        BY <1>6, <3>1, <3>2, <3>3, <3>4
    <2>3. LinesExpected(k)'
      <3>1. ASSUME NEW i \in DOMAIN worker[k].output, NEW next, next = worker[k].output[i]
            PROVE  /\ next \in StrayLines \/ Expected(next)'
                   /\ next.type \in Terminal =>
                        /\ [child |-> k, call |-> pending'[next.job], type |-> next.type] \in wrote
                        /\ \A m \in DOMAIN worker[k].output :
                             (m > i /\ worker[k].output[m] \notin StrayLines)
                                 => worker[k].output[m].job /= next.job
        <4>1. next \in Lines
          BY <3>1, Elements DEF IInv, Typed, Workers
        <4>2. next \in StrayLines \/ Expected(next)'
          BY <2>2, <3>1 DEF Expected
        <4>3. next.type \in Terminal => next \notin StrayLines
          BY <4>1, LineKinds
        <4>4. next.type \in Terminal => pending'[next.job] = pending[next.job]
          BY <2>2, <3>1, <4>3
        <4>5. LinesExpected(k)
          BY <2>1 DEF AtCurrent
        <4>6. next.type \in Terminal =>
                 /\ [child |-> k, call |-> pending[next.job], type |-> next.type] \in wrote
                 /\ \A m \in DOMAIN worker[k].output :
                      (m > i /\ worker[k].output[m] \notin StrayLines)
                          => worker[k].output[m].job /= next.job
          BY <3>1, <4>5 DEF LinesExpected
        <4> QED
          BY <4>2, <4>4, <4>6
      <3> QED
        BY <2>1, <3>1 DEF LinesExpected, Expected
    <2>4. HandExpected(k)'
      BY <2>1 DEF HandExpected
    <2>5. Undelivered(k)'
      <3>1. ASSUME NEW a \in wrote, a.child = k, result'[a.call] = "waiting"
            PROVE  \E i \in DOMAIN worker[k].output : worker[k].output[i] = Line(a.type, a.call)
        <4>1. a.call \in Calls /\ a.type \in Terminal
          BY DEF IInv, Typed, Answers
        <4>2. result[a.call] = "waiting" /\ (Settles(k) => a.call /= c)
          BY <1>5, <1>6, <3>1, <4>1 DEF IInv, Typed, Terminal
        <4>3. Undelivered(k)
          BY <2>1 DEF AtCurrent
        <4>4. CASE inHand[k] /= Idle /\ inHand[k].line = Line(a.type, a.call)
          <5>1. line.type = a.type /\ line.job = JobId(a.call)
            <6>1. a.type \in {"page"} \cup Terminal
              BY <4>1
            <6>2. Line(a.type, a.call).type = a.type /\ Line(a.type, a.call).job = JobId(a.call)
              BY <4>1, <6>1, LineKinds
            <6> QED
              BY <1>1, <1>2, <4>4, <6>2
          <5>2. Settles(k)
            BY <1>1, <1>2, <1>14, <4>1, <5>1 DEF Settles
          <5>3. pending[JobId(a.call)] = a.call
            BY <4>1, <4>2 DEF IInv, WaitingIsPending
          <5> QED
            BY <1>5, <4>2, <5>1, <5>2, <5>3
        <4> QED
          BY <3>1, <4>2, <4>3, <4>4 DEF Undelivered
      <3> QED
        BY <2>1, <3>1 DEF Undelivered
    <2>6. ASSUME NEW d \in Calls, Unanswered(k, d)
          PROVE  Unanswered(k, d)' /\ pending'[JobId(d)] = pending[JobId(d)]
      <3>1. Unanswered(k, d)'
        BY <2>1, <2>6 DEF Unanswered
      <3>2. Settles(k) => JobId(d) /= line.job
        BY <1>1, <1>2, <1>5, <2>6, IdleAssumption DEF Unanswered
      <3> QED
        BY <1>4, <1>6, <3>1, <3>2
    <2>7. RequestsPending(k)'
      <3>1. ASSUME NEW i \in DOMAIN worker[k].input, worker[k].input[i].type = "process_document"
            PROVE  worker[k].input[i].call \in Calls
        <4>1. worker[k].input[i] \in Messages
          BY Elements DEF IInv, Typed, Workers
        <4> QED
          BY <3>1, <4>1 DEF Messages
      <3>2. RequestsPending(k)
        BY <2>1 DEF AtCurrent
      <3> QED
        BY <2>1, <2>6, <3>1, <3>2, SMTT(20) DEF RequestsPending
    <2>8. ThreadsPending(k)'
      <3>1. ASSUME NEW j \in JobIds, NEW t \in Threads, t = worker[k].threads[j], t /= Idle, ~t.ended
            PROVE  pending'[j] = t.call /\ Unanswered(k, t.call)'
        <4>1. PICK d \in Calls : d = t.call
          BY DEF Threads
        <4>2. JobId(d) = j
          BY <3>1, <4>1 DEF IInv, Addressed
        <4>3. pending[j] = d /\ Unanswered(k, d)
          BY <2>1, <3>1, <4>1 DEF AtCurrent, ThreadsPending
        <4> QED
          BY <2>6, <4>1, <4>2, <4>3
      <3>2. \A j \in JobIds : worker[k].threads[j] /= Idle => worker[k].threads[j] \in Threads
        BY DEF IInv, Typed, Workers
      <3> QED
        BY <2>1, <3>1, <3>2 DEF ThreadsPending
    <2> QED
      BY <2>3, <2>4, <2>5, <2>7, <2>8 DEF AtCurrent
  <1>15. ASSUME NEW x \in Children, child' = x, x /= k PROVE AtCurrent(x)'
    <2>1. AtCurrent(x) /\ UNCHANGED <<pending, result, worker, wrote>> /\ inHand'[x] = inHand[x]
      BY <1>3, <1>5, <1>7, <1>15 DEF IInv
    <2>2. \A d : Unanswered(x, d) => Unanswered(x, d)'
      BY <2>1 DEF Unanswered
    <2>3. LinesExpected(x)' /\ HandExpected(x)' /\ Undelivered(x)'
      BY <2>1 DEF AtCurrent, LinesExpected, HandExpected, Undelivered, Expected
    <2>4. RequestsPending(x)' /\ ThreadsPending(x)'
      BY <2>1, <2>2 DEF AtCurrent, RequestsPending, ThreadsPending
    <2> QED
      BY <2>3, <2>4 DEF AtCurrent
  <1>16. \A x \in Children : child' = x => AtCurrent(x)'
    BY <1>3, <1>14, <1>15
  <1> QED
    BY <1>8, <1>9, <1>10, <1>11, <1>12, <1>13, <1>16 DEF IInv

\* Without a child there is nothing to wait for.
LEMMA NobodyWaits ==
    ASSUME IInv, child = 0
    PROVE  /\ \A c \in Calls : result[c] /= "waiting"
           /\ \A j \in JobIds : pending[j] = Idle
  <1>1. \A c \in Calls : result[c] /= "waiting"
    BY DEF IInv, WaitingIsPending
  <1>2. ASSUME NEW j \in JobIds, pending[j] /= Idle PROVE FALSE
    <2>1. PICK c \in Calls : c = pending[j]
      BY <1>2 DEF IInv, Typed
    <2>2. JobId(c) = j
      BY <1>2, <2>1 DEF IInv, Addressed
    <2> QED
      BY <1>1, <2>1, <2>2 DEF IInv, WaitingIsPending
  <1> QED
    BY <1>1, <1>2

\* The child that start() returns: the one there is, or the first one not spawned.
LEMMA CurrentIs ==
    ASSUME IInv, Current \in Children
    PROVE  /\ child \in {0, Current}
           /\ child = 0 => /\ worker[Current] = Unborn /\ inHand[Current] = Idle
                           /\ \A j \in JobIds : pending[j] = Idle
           /\ AtCurrent(Current)
           /\ \E m \in 0..MaxChildren : \A x \in Children :
                IF x <= m THEN x = Current \/ worker[x].state /= "unborn"
                ELSE /\ x /= Current /\ worker[x] = Unborn /\ inHand[x] = Idle
                     /\ \A c \in Calls : sentTo[c] /= x
  <1>1. PICK m \in 0..MaxChildren : \A x \in Children :
            IF x <= m THEN worker[x].state /= "unborn"
            ELSE worker[x] = Unborn /\ inHand[x] = Idle /\ \A c \in Calls : sentTo[c] /= x
    BY DEF IInv, Spawning
  <1>2. CASE child /= 0
    <2>1. Current = child
      BY <1>2 DEF Current
    <2>2. worker[child].state /= "unborn"
      BY <1>2 DEF IInv, CurrentLives
    <2>3. child <= m
      BY <1>1, <2>1, <2>2 DEF Unborn
    <2> QED
      BY <1>1, <1>2, <2>1, <2>3 DEF IInv
  <1>3. CASE child = 0
    <2>1. {x \in Children : worker[x].state /= "unborn"} = 1..m
      <3>1. Unborn.state = "unborn"
        BY DEF Unborn
      <3> QED
        BY <1>1, <3>1, BoundsAssumption DEF Children
    <2>2. Cardinality(1..m) = m
      BY FS_Interval
    <2>2a. Cardinality({k \in Children : worker[k].state /= "unborn"}) = m
      BY <2>1, <2>2
    <2>3. Current = m + 1
      <3>1. Current = 1 + Cardinality({k \in Children : worker[k].state /= "unborn"})
        BY <1>3, Zenon DEF Current
      <3> QED
        BY <2>2a, <3>1
    <2>4. worker[m + 1] = Unborn /\ inHand[m + 1] = Idle
      BY <1>1, <2>3
    <2>5. \A x \in Children : IF x <= m + 1 THEN x = Current \/ worker[x].state /= "unborn"
              ELSE /\ x /= Current /\ worker[x] = Unborn /\ inHand[x] = Idle
                   /\ \A c \in Calls : sentTo[c] /= x
      BY <1>1, <2>3 DEF Children
    <2>6. m + 1 \in 0..MaxChildren
      BY <2>3, BoundsAssumption DEF Children
    <2>7. \A c \in Calls : result[c] /= "waiting"
      BY <1>3, NobodyWaits
    <2>8. AtCurrent(Current)
      <3>1. PICK k \in Children : k = Current
        OBVIOUS
      <3>2. /\ DOMAIN worker[k].output = {} /\ DOMAIN worker[k].input = {} /\ inHand[k] = Idle
            /\ \A j \in JobIds : worker[k].threads[j] = Idle
        BY <2>3, <2>4, <3>1 DEF Unborn
      <3>3. \A a \in wrote : result[a.call] /= "waiting"
        BY <2>7 DEF IInv, Typed, Answers
      <3>4. LinesExpected(k) /\ HandExpected(k) /\ Undelivered(k)
        BY <3>2, <3>3 DEF LinesExpected, HandExpected, Undelivered
      <3>5. RequestsPending(k) /\ ThreadsPending(k)
        BY <3>2 DEF RequestsPending, ThreadsPending
      <3> QED
        BY <3>1, <3>4, <3>5 DEF AtCurrent
    <2>9. \A j \in JobIds : pending[j] = Idle
      BY <1>3, NobodyWaits
    <2> QED
      BY <1>3, <2>3, <2>4, <2>5, <2>6, <2>8, <2>9
  <1> QED
    BY <1>2, <1>3

\* The state of the child that gets the request, and what it was doing.
LEMMA SpawnedIs ==
    ASSUME IInv, NEW k \in Children, k = Current
    PROVE  /\ Spawned(worker[k]) \in Workers
           /\ Spawned(worker[k]).state \in {"running", "exited"}
           /\ Spawned(worker[k]).input = worker[k].input
           /\ Spawned(worker[k]).threads = worker[k].threads
           /\ Spawned(worker[k]).output = worker[k].output
           /\ worker[k].state /= "closed"
           /\ child /= 0 => Spawned(worker[k]) = worker[k]
  <1>1. PICK w \in Workers : w = worker[k]
    BY DEF IInv, Typed
  <1>2. /\ Spawned(w) \in Workers /\ Spawned(w).input = w.input
        /\ Spawned(w).threads = w.threads /\ Spawned(w).output = w.output
        /\ Spawned(w).state = IF w.state = "unborn" THEN "running" ELSE w.state
        /\ w.state /= "unborn" => Spawned(w) = w
    BY DEF Spawned, Workers, States
  <1>3. child \in {0, k} /\ (child = 0 => worker[k] = Unborn)
    BY CurrentIs
  <1>4. child /= 0 => w.state \in {"running", "exited"}
    BY <1>1, <1>3 DEF IInv, CurrentLives
  <1>5. child = 0 => w.state = "unborn"
    BY <1>1, <1>3 DEF Unborn
  <1> QED
    BY <1>1, <1>2, <1>4, <1>5

\* A call that is none yet was not answered.
LEMMA NotAnswered ==
    ASSUME IInv, NEW c \in Calls, result[c] = "none"
    PROVE  sentTo[c] = 0 /\ \A a \in wrote : a.call /= c
  BY BoundsAssumption DEF IInv, Typed, Addressed, Answers, Children

\* sendAndWait refuses the call; the child it would have gone to is there.
LEMMA RefusedInv ==
    ASSUME IInv, NEW c \in Calls, result[c] = "none", Current \in Children, child' = Current,
           ~FreshJobId(c) \/ worker[Current].state = "exited",
           result' = [result EXCEPT ![c] = "refused"],
           worker' = [worker EXCEPT ![Current] = Spawned(@)],
           UNCHANGED <<pending, sentTo, handled, inHand, wrote, strayed, misread, budget>>
    PROVE  IInv'
  <1>1. PICK k \in Children : k = Current
    OBVIOUS
  <1>2. child /= 0
    <2> SUFFICES ASSUME child = 0 PROVE FALSE
      OBVIOUS
    <2>1. worker[k] = Unborn /\ \A j \in JobIds : pending[j] = Idle
      BY <1>1, CurrentIs
    <2>2. FreshJobId(c)
      BY <2>1 DEF FreshJobId, JobIds
    <2> QED
      BY <1>1, <2>1, <2>2 DEF Unborn
  <1>3. child = k /\ child' = child
    BY <1>1, <1>2, CurrentIs
  <1>4. worker' = worker
    BY <1>1, <1>2, SpawnedIs DEF IInv, Typed
  <1>5. \A d \in Calls : result'[d] = IF d = c THEN "refused" ELSE result[d]
    BY DEF IInv, Typed
  <1>6. Typed'
    BY <1>3, <1>4 DEF IInv, Typed, Results
  <1>7. Spawning' /\ CurrentLives' /\ StraysKnown' /\ NoFalseAlarm'
    <2>1. Spawning'
      BY <1>4 DEF IInv, Spawning
    <2> QED
      BY <1>3, <1>4, <2>1 DEF IInv, CurrentLives, StraysKnown, NoFalseAlarm
  <1>8. Addressed'
    BY <1>4, <1>5 DEF IInv, Addressed
  <1>9. ExitedClosed' /\ ExitLosesNothing'
    BY <1>4, <1>5 DEF IInv, ExitedClosed, ExitLosesNothing
  <1>10. WaitingIsPending'
    BY <1>3, <1>5 DEF IInv, WaitingIsPending
  <1>11. OwnWorkerAnswers'
    BY <1>5 DEF IInv, OwnWorkerAnswers, Terminal
  <1>12. ASSUME NEW x \in Children, child' = x PROVE AtCurrent(x)'
    <2>1. AtCurrent(x)
      BY <1>3, <1>12 DEF IInv
    <2>2. \A d : Unanswered(x, d) => Unanswered(x, d)'
      BY <1>4 DEF Unanswered
    <2>3. LinesExpected(x)' /\ HandExpected(x)'
      <3>1. LinesExpected(x)'
        BY <1>4, <2>1, LinesKept DEF AtCurrent
      <3>2. HandExpected(x)'
        BY <1>4, <2>1 DEF AtCurrent, HandExpected
      <3> QED
        BY <3>1, <3>2
    <2>4. Undelivered(x)'
      <3>1. \A a \in wrote : a.call \in Calls
        BY DEF IInv, Typed, Answers
      <3> QED
        BY <1>4, <1>5, <2>1, <3>1 DEF AtCurrent, Undelivered
    <2>5. RequestsPending(x)' /\ ThreadsPending(x)'
      <3>1. RequestsPending(x)'
        BY <1>4, <2>1, <2>2, RequestsKept DEF AtCurrent
      <3>2. ThreadsPending(x)'
        BY <1>4, <2>1, <2>2, ThreadsKept DEF AtCurrent
      <3> QED
        BY <3>1, <3>2
    <2> QED
      BY <2>3, <2>4, <2>5 DEF AtCurrent
  <1> QED
    BY <1>6, <1>7, <1>8, <1>9, <1>10, <1>11, <1>12 DEF IInv

\* The request is registered and written: nothing under way is of the same call,
\* and nothing unanswered is of the same job.
LEMMA AcceptedInv ==
    ASSUME IInv, NEW c \in Calls, result[c] = "none", Current \in Children, child' = Current,
           FreshJobId(c),
           result' = [result EXCEPT ![c] = "waiting"],
           pending' = [pending EXCEPT ![JobId(c)] = c],
           worker' = [worker EXCEPT ![Current] = [Spawned(worker[Current]) EXCEPT !.input = Append(@, Process(c))]],
           sentTo' = [sentTo EXCEPT ![c] = Current],
           UNCHANGED <<handled, inHand, wrote, strayed, misread, budget>>
    PROVE  IInv'
  <1>1. PICK k \in Children : k = Current
    OBVIOUS
  <1>2. PICK w \in Workers : w = Spawned(worker[k])
    BY <1>1, SpawnedIs
  <1>3. /\ w.state \in {"running", "exited"} /\ w.input = worker[k].input
        /\ w.threads = worker[k].threads /\ w.output = worker[k].output
        /\ worker[k].state /= "closed"
    BY <1>1, <1>2, SpawnedIs
  <1>4. PICK s \in Seq(Messages) : s = w.input
    BY DEF Workers
  <1>5. PICK request \in Messages : /\ request = Process(c) /\ request.call = c
                                    /\ request.type = "process_document"
    BY DEF Messages, Process
  <1>6. PICK next \in Seq(Messages), n \in Nat :
              /\ next = Append(s, request)
              /\ DOMAIN s = 1..n /\ DOMAIN next = 1..(n + 1)
              /\ next[n + 1] = request /\ \A i \in 1..n : next[i] = s[i]
    <2>1. PICK n \in Nat : n = Len(s) /\ DOMAIN s = 1..n
      OBVIOUS
    <2>2. /\ Append(s, request) \in Seq(Messages) /\ DOMAIN Append(s, request) = 1..(n + 1)
          /\ Append(s, request)[n + 1] = request /\ \A i \in 1..n : Append(s, request)[i] = s[i]
      BY <2>1, AppendFacts
    <2> QED
      BY <2>1, <2>2
  <1>7. PICK v \in Workers : v = [w EXCEPT !.input = next]
    BY DEF Workers
  <1>8. /\ v.state = w.state /\ v.input = next /\ v.threads = w.threads /\ v.output = w.output
    BY <1>7 DEF Workers
  <1>9. worker' = [worker EXCEPT ![k] = v]
    <2>1. worker' = [worker EXCEPT ![k] = [Spawned(worker[k]) EXCEPT !.input = Append(@, request)]]
      BY <1>1, <1>5 DEF IInv, Typed
    <2>2. [Spawned(worker[k]) EXCEPT !.input = Append(@, request)] = [w EXCEPT !.input = Append(s, request)]
      BY <1>2, <1>4 DEF Workers
    <2> QED
      BY <1>6, <1>7, <2>1, <2>2
  <1>10. /\ worker' \in [Children -> Workers]
         /\ \A x \in Children : worker'[x] = IF x = k THEN v ELSE worker[x]
    BY <1>9 DEF IInv, Typed
  <1>11. /\ JobId(c) \in JobIds /\ \A d \in Calls : JobId(d) \in JobIds
         /\ pending[JobId(c)] = Idle
    BY DEF JobIds, FreshJobId
  <1>12. /\ \A d \in Calls : /\ result'[d] = IF d = c THEN "waiting" ELSE result[d]
                             /\ sentTo'[d] = IF d = c THEN k ELSE sentTo[d]
         /\ \A j \in JobIds : pending'[j] = IF j = JobId(c) THEN c ELSE pending[j]
    BY <1>1, <1>11 DEF IInv, Typed
  <1>13. /\ child \in {0, k} /\ child' = k /\ k /= 0
         /\ child = 0 => /\ worker[k] = Unborn /\ inHand[k] = Idle
                         /\ \A j \in JobIds : pending[j] = Idle
         /\ AtCurrent(k)
    BY <1>1, CurrentIs, BoundsAssumption DEF Children
  <1>14. sentTo[c] = 0 /\ \A a \in wrote : a.call /= c
    BY NotAnswered
  <1>15. Typed'
    <2>1. child' \in 0..MaxChildren /\ sentTo' \in [Calls -> 0..MaxChildren]
      BY <1>1, <1>13, BoundsAssumption DEF IInv, Typed, Children
    <2>2. result' \in [Calls -> Results] /\ pending' \in [JobIds -> Calls \cup {Idle}]
      BY <1>11 DEF IInv, Typed, Results
    <2> QED
      BY <1>10, <2>1, <2>2 DEF IInv, Typed
  <1>16. Spawning'
    <2>1. PICK m \in 0..MaxChildren : \A x \in Children :
                IF x <= m THEN x = k \/ worker[x].state /= "unborn"
                ELSE /\ x /= k /\ worker[x] = Unborn /\ inHand[x] = Idle
                     /\ \A d \in Calls : sentTo[d] /= x
      BY <1>1, CurrentIs
    <2>2. \A x \in Children : IF x <= m THEN worker'[x].state /= "unborn"
                              ELSE /\ worker'[x] = Unborn /\ inHand'[x] = Idle
                                   /\ \A d \in Calls : sentTo'[d] /= x
      <3>1. ASSUME NEW x \in Children, x <= m PROVE worker'[x].state /= "unborn"
        BY <1>3, <1>8, <1>10, <2>1, <3>1
      <3>2. ASSUME NEW x \in Children, ~(x <= m)
            PROVE  worker'[x] = Unborn /\ inHand'[x] = Idle /\ \A d \in Calls : sentTo'[d] /= x
        BY <1>10, <1>12, <2>1, <3>2
      <3> QED
        BY <3>1, <3>2
    <2> QED
      BY <2>2 DEF Spawning
  <1>17. CurrentLives' /\ StraysKnown' /\ NoFalseAlarm'
    <2>1. CurrentLives'
      BY <1>3, <1>8, <1>10, <1>13 DEF CurrentLives
    <2>2. \A x \in Children : worker'[x].output = worker[x].output
      BY <1>3, <1>8, <1>10
    <2>3. StraysKnown'
      BY <2>2 DEF IInv, StraysKnown
    <2> QED
      BY <2>1, <2>3 DEF IInv, NoFalseAlarm
  <1>18. Addressed'
    <2>1. \A d \in Calls : result'[d] = "none" => sentTo'[d] = 0
      BY <1>12 DEF IInv, Addressed
    <2>2. \A j \in JobIds : pending'[j] /= Idle => JobId(pending'[j]) = j
      BY <1>12 DEF IInv, Addressed
    <2>3. \A a \in wrote' : sentTo'[a.call] = a.child
      BY <1>12, <1>14 DEF IInv, Addressed, Typed, Answers
    <2>4. ASSUME NEW x \in Children
          PROVE  /\ \A i \in DOMAIN worker'[x].input :
                      worker'[x].input[i].type = "process_document" =>
                          sentTo'[worker'[x].input[i].call] = x
                 /\ \A j \in JobIds : worker'[x].threads[j] /= Idle =>
                      sentTo'[worker'[x].threads[j].call] = x /\ JobId(worker'[x].threads[j].call) = j
                 /\ inHand'[x] /= Idle => sentTo'[inHand'[x].call] = x
      <3>1. x /= 0
        BY BoundsAssumption DEF Children
      <3>2. \A d \in Calls : sentTo[d] = x => sentTo'[d] = x
        BY <1>12, <1>14, <3>1
      <3>3. ASSUME NEW q \in Messages, q.type = "process_document" PROVE q.call \in Calls
        BY <3>3 DEF Messages
      <3>4. \A i \in DOMAIN worker[x].input :
               worker[x].input[i].type = "process_document" => sentTo'[worker[x].input[i].call] = x
        <4>1. \A i \in DOMAIN worker[x].input : worker[x].input[i] \in Messages
          BY Elements DEF IInv, Typed, Workers
        <4> QED
          BY <3>2, <3>3, <4>1 DEF IInv, Addressed
      <3>5. \A i \in DOMAIN worker'[x].input :
               worker'[x].input[i].type = "process_document" => sentTo'[worker'[x].input[i].call] = x
        <4>1. CASE x = k
          <5>1. \A i \in 1..n : s[i].type = "process_document" => sentTo'[s[i].call] = x
            BY <1>3, <1>4, <1>6, <3>4, <4>1
          <5>2. \A i \in 1..(n + 1) : i = n + 1 \/ i \in 1..n
            OBVIOUS
          <5>3. \A i \in 1..(n + 1) : next[i].type = "process_document" => sentTo'[next[i].call] = x
            <6>1. next[n + 1].call = c /\ sentTo'[c] = x
              BY <1>5, <1>6, <1>12, <4>1
            <6>2. \A i \in 1..n : next[i].type = "process_document" => sentTo'[next[i].call] = x
              BY <1>6, <5>1
            <6> QED
              BY <5>2, <6>1, <6>2
          <5>4. worker'[x].input = next /\ DOMAIN next = 1..(n + 1)
            BY <1>6, <1>8, <1>10, <4>1
          <5> QED
            BY <5>3, <5>4
        <4>2. CASE x /= k
          BY <1>10, <3>4, <4>2
        <4> QED
          BY <4>1, <4>2
      <3>6. worker'[x].threads = worker[x].threads
        BY <1>3, <1>8, <1>10
      <3>7. \A j \in JobIds : worker[x].threads[j] /= Idle => worker[x].threads[j].call \in Calls
        BY SMTT(30) DEF IInv, Typed, Workers, Threads
      <3>8. inHand[x] /= Idle => inHand[x].call \in Calls
        BY DEF IInv, Typed, Events
      <3> QED
        BY <3>2, <3>5, <3>6, <3>7, <3>8, SMTT(20) DEF IInv, Addressed
    <2> QED
      BY <2>1, <2>2, <2>3, <2>4 DEF Addressed
  <1>19. ExitedClosed' /\ ExitLosesNothing'
    <2>1. \A d \in Calls : result'[d] = "exited" => result[d] = "exited" /\ sentTo'[d] = sentTo[d]
      BY <1>12
    <2>2. \A x \in Children : worker[x].state = "closed" => worker'[x].state = "closed"
      BY <1>3, <1>10
    <2>3. ExitedClosed'
      BY <2>1, <2>2 DEF IInv, ExitedClosed
    <2>4. ExitLosesNothing'
      BY <2>1 DEF IInv, ExitLosesNothing
    <2> QED
      BY <2>3, <2>4
  <1>20. WaitingIsPending'
    <2>1. ASSUME NEW d \in Calls
          PROVE  /\ result'[d] = "waiting" <=> pending'[JobId(d)] = d
                 /\ result'[d] = "waiting" => (child' /= 0 /\ sentTo'[d] = child')
      <3>1. CASE d = c
        BY <1>11, <1>12, <1>13, <3>1
      <3>2. CASE d /= c
        <4>1. /\ result[d] = "waiting" <=> pending[JobId(d)] = d
              /\ result[d] = "waiting" => (child /= 0 /\ sentTo[d] = child)
          BY DEF IInv, WaitingIsPending
        <4>2. d /= Idle
          BY IdleAssumption
        <4> QED
          BY <1>11, <1>12, <1>13, <3>2, <4>1, <4>2
      <3> QED
        BY <3>1, <3>2
    <2> QED
      BY <2>1 DEF WaitingIsPending
  <1>21. OwnWorkerAnswers'
    <2>1. \A d \in Calls : result'[d] \in Terminal =>
             [child |-> sentTo'[d], call |-> d, type |-> result'[d]] \in wrote
      BY <1>12 DEF IInv, OwnWorkerAnswers, Terminal
    <2>2. \A x \in Children : inHand'[x] /= Idle => sentTo'[inHand'[x].call] = x
      BY <1>18 DEF Addressed
    <2> QED
      BY <2>1, <2>2 DEF OwnWorkerAnswers
  <1>22. AtCurrent(k)'
    <2>1. /\ worker'[k].output = worker[k].output /\ worker'[k].threads = worker[k].threads
          /\ worker'[k].input = next /\ s = worker[k].input
          /\ UNCHANGED <<wrote, inHand>>
      BY <1>3, <1>4, <1>8, <1>10
    <2>2. LinesExpected(k) /\ HandExpected(k) /\ Undelivered(k) /\ RequestsPending(k) /\ ThreadsPending(k)
      BY <1>13 DEF AtCurrent
    <2>3. \A i \in DOMAIN worker[k].output : worker[k].output[i] \in Lines
      BY Elements DEF IInv, Typed, Workers
    <2>4. ASSUME NEW line \in Lines, Expected(line)
          PROVE  line.job /= JobId(c) /\ pending'[line.job] = pending[line.job] /\ Expected(line)'
      <3>1. line.job \in JobIds /\ line.job /= JobId(c)
        BY <1>11, <2>4, LineKinds DEF Expected
      <3> QED
        BY <1>12, <2>4, <3>1 DEF Expected
    <2>5. LinesExpected(k)'
      <3>1. ASSUME NEW i \in DOMAIN worker[k].output, NEW line \in Lines, line = worker[k].output[i]
            PROVE  /\ line \in StrayLines \/ Expected(line)'
                   /\ line.type \in Terminal =>
                        /\ [child |-> k, call |-> pending'[line.job], type |-> line.type] \in wrote
                        /\ \A m \in DOMAIN worker[k].output :
                             (m > i /\ worker[k].output[m] \notin StrayLines)
                                 => worker[k].output[m].job /= line.job
        <4>1. line \in StrayLines \/ Expected(line)
          BY <2>2, <3>1 DEF LinesExpected
        <4>2. line.type \in Terminal => pending'[line.job] = pending[line.job]
          BY <2>4, <4>1, LineKinds
        <4>3. line.type \in Terminal =>
                        /\ [child |-> k, call |-> pending[line.job], type |-> line.type] \in wrote
                        /\ \A m \in DOMAIN worker[k].output :
                             (m > i /\ worker[k].output[m] \notin StrayLines)
                                 => worker[k].output[m].job /= line.job
          BY <2>2, <3>1 DEF LinesExpected
        <4> QED
          BY <2>4, <4>1, <4>2, <4>3
      <3> QED
        BY <2>1, <2>3, <3>1, SMTT(30) DEF LinesExpected, Expected
    <2>6. HandExpected(k)'
      <3>1. inHand[k] /= Idle => inHand[k].line.job \in JobIds /\ inHand[k].call \in Calls
        BY LineKinds DEF IInv, Typed, Events
      <3>2. inHand[k] /= Idle => pending'[inHand[k].line.job] = inHand[k].call
        BY <1>11, <1>12, <2>2, <3>1, IdleAssumption DEF HandExpected
      <3> QED
        BY <2>1, <2>2, <3>2 DEF HandExpected
    <2>7. Undelivered(k)'
      <3>1. \A a \in wrote : result'[a.call] = "waiting" => result[a.call] = "waiting"
        BY <1>12, <1>14 DEF IInv, Typed, Answers
      <3> QED
        BY <2>1, <2>2, <3>1 DEF Undelivered
    <2>8. ASSUME NEW d, Unanswered(k, d) PROVE Unanswered(k, d)'
      BY <2>1, <2>8 DEF Unanswered
    <2>9. Unanswered(k, c)
      <3>1. \A i \in DOMAIN worker[k].output :
               worker[k].output[i].type \in Terminal => worker[k].output[i].job /= JobId(c)
        BY <2>2, <2>3, <2>4, LineKinds DEF LinesExpected
      <3>2. (inHand[k] /= Idle /\ inHand[k].line.type \in Terminal) => inHand[k].line.job /= JobId(c)
        <4>1. inHand[k] /= Idle => inHand[k].call \in Calls
          BY DEF IInv, Typed, Events
        <4> QED
          BY <1>11, <2>2, <4>1, IdleAssumption DEF HandExpected
      <3> QED
        BY <1>14, <3>1, <3>2 DEF Unanswered
    <2>10. ThreadsPending(k)'
      <3>1. ASSUME NEW j \in JobIds, NEW t \in Threads, t = worker[k].threads[j], t /= Idle, ~t.ended
            PROVE  pending'[j] = t.call /\ Unanswered(k, t.call)'
        <4>1. pending[j] = t.call /\ Unanswered(k, t.call) /\ t.call \in Calls
          BY <2>2, <3>1 DEF ThreadsPending, Threads
        <4>2. j /= JobId(c)
          BY <1>11, <4>1, IdleAssumption
        <4> QED
          BY <1>12, <2>8, <4>1, <4>2
      <3>2. \A j \in JobIds : worker[k].threads[j] /= Idle => worker[k].threads[j] \in Threads
        BY DEF IInv, Typed, Workers
      <3> QED
        BY <2>1, <3>1, <3>2 DEF ThreadsPending
    <2>11. RequestsPending(k)'
      <3>1. ASSUME NEW i \in 1..n, s[i].type = "process_document"
            PROVE  /\ s[i].call \in Calls /\ JobId(s[i].call) /= JobId(c)
                   /\ pending'[JobId(s[i].call)] = s[i].call /\ Unanswered(k, s[i].call)
                   /\ \/ worker[k].threads[JobId(s[i].call)] = Idle
                      \/ worker[k].threads[JobId(s[i].call)].ended
                   /\ \A m \in 1..n : (m /= i /\ s[m].type = "process_document")
                                         => JobId(s[m].call) /= JobId(s[i].call)
        <4>1. s[i].call \in Calls
          <5>1. s[i] \in Messages
            BY <1>6, Elements
          <5> QED
            BY <3>1, <5>1 DEF Messages
        <4>2. /\ pending[JobId(s[i].call)] = s[i].call /\ Unanswered(k, s[i].call)
              /\ \/ worker[k].threads[JobId(s[i].call)] = Idle
                 \/ worker[k].threads[JobId(s[i].call)].ended
              /\ \A m \in 1..n : (m /= i /\ s[m].type = "process_document")
                                    => JobId(s[m].call) /= JobId(s[i].call)
          BY <1>6, <2>1, <2>2, <3>1 DEF RequestsPending
        <4>3. JobId(s[i].call) /= JobId(c)
          BY <1>11, <4>1, <4>2, IdleAssumption
        <4> QED
          BY <1>11, <1>12, <4>1, <4>2, <4>3
      <3>2. worker[k].threads[JobId(c)] = Idle \/ worker[k].threads[JobId(c)].ended
        <4> SUFFICES ASSUME worker[k].threads[JobId(c)] /= Idle, ~worker[k].threads[JobId(c)].ended
                     PROVE  FALSE
          OBVIOUS
        <4>1. worker[k].threads[JobId(c)].call \in Calls
          BY <1>11 DEF IInv, Typed, Workers, Threads
        <4> QED
          BY <1>11, <2>2, <4>1, IdleAssumption DEF ThreadsPending
      <3>3. pending'[JobId(c)] = c
        BY <1>11, <1>12
      <3>4. ASSUME NEW i \in 1..(n + 1), NEW d, d = next[i].call, next[i].type = "process_document"
            PROVE  /\ pending'[JobId(d)] = d /\ Unanswered(k, d)
                   /\ worker[k].threads[JobId(d)] = Idle \/ worker[k].threads[JobId(d)].ended
                   /\ \A m \in 1..(n + 1) : (m /= i /\ next[m].type = "process_document")
                                         => JobId(next[m].call) /= JobId(d)
        <4>1. \A m \in 1..(n + 1) : m = n + 1 \/ m \in 1..n
          OBVIOUS
        <4>2. CASE i = n + 1
          <5>1. d = c
            BY <1>5, <1>6, <3>4, <4>2
          <5>2. \A m \in 1..(n + 1) : m /= i => m \in 1..n
            BY <4>1, <4>2
          <5>3. \A m \in 1..(n + 1) : (m /= i /\ next[m].type = "process_document")
                                         => JobId(next[m].call) /= JobId(c)
            BY <1>6, <3>1, <5>2
          <5> QED
            BY <2>9, <3>2, <3>3, <5>1, <5>3
        <4>3. CASE i \in 1..n
          <5>1. d = s[i].call /\ s[i].type = "process_document"
            BY <1>6, <3>4, <4>3
          <5>2. \A m \in 1..(n + 1) : (m /= i /\ next[m].type = "process_document")
                                         => JobId(next[m].call) /= JobId(d)
            <6>1. ASSUME NEW m \in 1..n, m /= i, next[m].type = "process_document"
                  PROVE  JobId(next[m].call) /= JobId(d)
              BY <1>6, <3>1, <4>3, <5>1, <6>1
            <6>2. JobId(next[n + 1].call) /= JobId(d)
              BY <1>5, <1>6, <3>1, <4>3, <5>1
            <6> QED
              BY <4>1, <6>1, <6>2
          <5> QED
            BY <3>1, <4>3, <5>1, <5>2
        <4> QED
          BY <4>1, <4>2, <4>3
      <3>5. \A d : Unanswered(k, d) => Unanswered(k, d)'
        BY <2>8
      <3>6. DOMAIN next = 1..(n + 1)
        BY <1>6
      <3>7. ASSUME NEW i \in DOMAIN worker'[k].input, NEW d, d = worker'[k].input[i].call,
                   worker'[k].input[i].type = "process_document"
            PROVE  /\ pending'[JobId(d)] = d /\ Unanswered(k, d)'
                   /\ worker'[k].threads[JobId(d)] = Idle \/ worker'[k].threads[JobId(d)].ended
                   /\ \A m \in DOMAIN worker'[k].input :
                        (m /= i /\ worker'[k].input[m].type = "process_document")
                            => JobId(worker'[k].input[m].call) /= JobId(d)
        <4>1. /\ worker'[k].input = next /\ worker'[k].threads = worker[k].threads
              /\ i \in 1..(n + 1) /\ d = next[i].call /\ next[i].type = "process_document"
          BY <2>1, <3>6, <3>7
        <4>2. /\ pending'[JobId(d)] = d /\ Unanswered(k, d)
              /\ worker[k].threads[JobId(d)] = Idle \/ worker[k].threads[JobId(d)].ended
              /\ \A m \in 1..(n + 1) : (m /= i /\ next[m].type = "process_document")
                                         => JobId(next[m].call) /= JobId(d)
          BY <3>4, <4>1
        <4>3. Unanswered(k, d)'
          BY <3>5, <4>2
        <4> QED
          BY <3>6, <4>1, <4>2, <4>3
      <3> QED
        BY <3>7, ZenonT(60) DEF RequestsPending
    <2> QED
      BY <2>5, <2>6, <2>7, <2>10, <2>11 DEF AtCurrent
  <1>23. \A x \in Children : child' = x => AtCurrent(x)'
    BY <1>13, <1>22
  <1> QED
    BY <1>15, <1>16, <1>17, <1>18, <1>19, <1>20, <1>21, <1>23 DEF IInv

LEMMA ProcessDocumentInv ==
    ASSUME IInv, NEW c \in Calls, ProcessDocument(c)
    PROVE  IInv'
  BY AcceptedInv, RefusedInv DEF ProcessDocument

-----------------------------------------------------------------------------
(* The theorems                                                            *)

LEMMA InitInv ==
    ASSUME Init
    PROVE  IInv
  <1> USE DEF Init
  <1>1. Unborn \in Workers
    <2>1. <<>> \in Seq(Messages) /\ <<>> \in Seq(Lines)
      OBVIOUS
    <2> QED
      BY <2>1 DEF Unborn, Workers, States
  <1>2. Typed
    <2>1. budget \in [stops : Nat, cancels : Nat, faults : Nat]
      BY BoundsAssumption
    <2>2. worker \in [Children -> Workers] /\ handled \in [Calls -> Seq(Nat)]
      BY <1>1
    <2> QED
      BY <2>1, <2>2, BoundsAssumption DEF Typed, Results
  <1>3. \A k \in Children : /\ DOMAIN worker[k].input = {} /\ DOMAIN worker[k].output = {}
                            /\ \A j \in JobIds : worker[k].threads[j] = Idle
                            /\ inHand[k] = Idle /\ k /= 0
    BY BoundsAssumption DEF Unborn, Children
  <1>4. Spawning
    <2>1. \A k \in Children : ~(k <= 0)
      BY BoundsAssumption DEF Children
    <2>2. \A k \in Children : worker[k] = Unborn /\ inHand[k] = Idle /\ \A c \in Calls : sentTo[c] /= k
      BY <1>3
    <2> QED
      BY <2>1, <2>2, BoundsAssumption DEF Spawning
  <1>5. CurrentLives /\ Addressed /\ StraysKnown /\ ExitedClosed
    BY <1>3 DEF CurrentLives, Addressed, StraysKnown, ExitedClosed
  <1>6. WaitingIsPending
    BY IdleAssumption DEF WaitingIsPending, JobIds
  <1>7. OwnWorkerAnswers /\ ExitLosesNothing /\ NoFalseAlarm
    BY <1>3 DEF OwnWorkerAnswers, ExitLosesNothing, NoFalseAlarm, Terminal
  <1>8. \A k \in Children : child /= k
    BY <1>3
  <1> QED
    BY <1>2, <1>4, <1>5, <1>6, <1>7, <1>8 DEF IInv

LEMMA StutterInv ==
    ASSUME IInv, UNCHANGED vars
    PROVE  IInv'
  <1> USE DEF vars
  <1>1. Typed'
    BY DEF IInv, Typed
  <1>2. Spawning'
    BY DEF IInv, Spawning
  <1>3. CurrentLives' /\ Addressed' /\ StraysKnown' /\ ExitedClosed'
    BY DEF IInv, CurrentLives, Addressed, StraysKnown, ExitedClosed
  <1>4. WaitingIsPending' /\ OwnWorkerAnswers' /\ ExitLosesNothing' /\ NoFalseAlarm'
    BY DEF IInv, WaitingIsPending, OwnWorkerAnswers, ExitLosesNothing, NoFalseAlarm
  <1>5. ASSUME NEW k \in Children, child' = k PROVE AtCurrent(k)'
    <2>1. AtCurrent(k)
      BY <1>5 DEF IInv
    <2>2. \A d : Unanswered(k, d) => Unanswered(k, d)'
      BY DEF Unanswered
    <2>3. LinesExpected(k)' /\ HandExpected(k)' /\ Undelivered(k)'
      BY <2>1 DEF AtCurrent, LinesExpected, HandExpected, Undelivered, Expected
    <2>4. RequestsPending(k)' /\ ThreadsPending(k)'
      BY <2>1, <2>2 DEF AtCurrent, RequestsPending, ThreadsPending
    <2> QED
      BY <2>3, <2>4 DEF AtCurrent
  <1> QED
    BY <1>1, <1>2, <1>3, <1>4, <1>5 DEF IInv

LEMMA NextInv ==
    ASSUME IInv, [Next]_vars
    PROVE  IInv'
  <1>1. CASE \E c \in Calls : ProcessDocument(c)
    BY <1>1, ProcessDocumentInv
  <1>2. CASE \E j \in JobIds : CancelPending(j)
    BY <1>2, CancelInv
  <1>3. CASE Stop
    BY <1>3, StopInv
  <1>4. ASSUME NEW k \in Children, ClientNext(k) PROVE IInv'
    BY <1>4, ReadLineInv, HandlersReturnInv, HandlerFailsInv, PipeFailsInv, CloseInv DEF ClientNext
  <1>5. ASSUME NEW k \in Children, WorkerNext(k) PROVE IInv'
    BY <1>5, ReadRequestInv, WriteStrayInv, ExitInv, EmitPageInv, EmitEndInv, LeaveTableInv
       DEF WorkerNext
  <1>6. CASE UNCHANGED vars
    BY <1>6, StutterInv
  <1> QED
    BY <1>1, <1>2, <1>3, <1>4, <1>5, <1>6 DEF Next

\* The promises, the lines under way and the workers stay in the invariant.
THEOREM Inductive == Spec => []IInv
  <1>1. Init => IInv
    BY InitInv
  <1>2. IInv /\ [Next]_vars => IInv'
    BY NextInv
  <1> QED
    BY <1>1, <1>2, PTL DEF Spec

\* A call waits exactly while it is the entry of its jobId, and for the child that
\* the client has.
THEOREM NoneForgotten == Spec => []WaitingIsPending
  <1>1. IInv => WaitingIsPending
    BY DEF IInv
  <1> QED
    BY <1>1, Inductive, PTL

\* Only the worker that got the request settles a call, and with an event it wrote.
THEOREM OwnAnswers == Spec => []OwnWorkerAnswers
  <1>1. IInv => OwnWorkerAnswers
    BY DEF IInv
  <1> QED
    BY <1>1, Inductive, PTL

\* No job whose last event was written is reported as cut off by the exit.
THEOREM ExitIsLast == Spec => []ExitLosesNothing
  <1>1. IInv => ExitLosesNothing
    BY DEF IInv
  <1> QED
    BY <1>1, Inductive, PTL

\* A worker is failed for a line only when it wrote one that belongs to no job.
THEOREM NoWorkerWronged == Spec => []NoFalseAlarm
  <1>1. IInv => NoFalseAlarm
    BY DEF IInv
  <1> QED
    BY <1>1, Inductive, PTL
=============================================================================
