------------------------- MODULE AnalysisWindowProof -------------------------
(***************************************************************************)
(* Proofs about AnalysisWindow, for any number of clicks, of faults and of *)
(* reads that are tried before the first answer.                           *)
(***************************************************************************)
EXTENDS AnalysisWindow, FiniteSetTheorems, WellFoundedInduction, TLAPS

-----------------------------------------------------------------------------
(* Types                                                                   *)

Kinds == {"get", "analyze"}
Requests == [kind : Kinds, latest : BOOLEAN]
Replies == [kind : Kinds, latest : BOOLEAN, got : Entries]

Typed ==
    /\ row \in [status : Statuses, parsed : BOOLEAN, rev : Nat]
    /\ run \in {"off", "deferred", "inspecting", "parsing", "detecting"}
    /\ unrecorded \in BOOLEAN
    /\ calls \in Seq(Requests) /\ answers \in Seq(Replies)
    /\ selected \in BOOLEAN /\ ui \in Screens /\ poll \in Polls
    /\ budget \in [clicks : Nat, faults : Nat]

-----------------------------------------------------------------------------
(* The invariant                                                           *)

NoGet(q) == \A i \in DOMAIN q : q[i].kind # "get"

OneGet(q) ==
    \E i \in DOMAIN q : q[i].kind = "get" /\ \A j \in DOMAIN q : q[j].kind = "get" => j = i

\* The loop of state s has one read under way if it reads, and none otherwise.
Traffic(s, sent, back) ==
    IF s = "reading" THEN (OneGet(sent) /\ NoGet(back)) \/ (NoGet(sent) /\ OneGet(back))
    ELSE NoGet(sent) /\ NoGet(back)

\* A revision has one status, and READY is the last.
Known(entry) ==
    entry.status # "none" =>
        /\ 0 < entry.rev /\ entry.rev <= row.rev
        /\ entry.rev = row.rev => entry.status = row.status
        /\ entry.status = "READY" => entry.rev = row.rev

AnswersKnown(q) ==
    \A i \in DOMAIN q :
        /\ Known(q[i].got)
        /\ (q[i].kind = "get" /\ q[i].got.error = "none") => q[i].got.status # "none"

\* What is on a screen is known, and a window that is open has not seen READY.
Shown(u) ==
    /\ Known(u.entry) /\ u.processed <= row.rev
    /\ u.window => /\ u.entry.status # "READY"
                   /\ ~(row.status = "READY" /\ u.processed = row.rev)

IInv ==
    /\ Typed
    /\ 0 < row.rev /\ (row.status = "READY" => run \in {"off", "deferred"})
    /\ Traffic(poll.state, calls, answers) /\ AnswersKnown(answers)
    /\ Shown(ui)
    /\ (selected /\ ui.window) => poll.state # "idle"
    /\ ~selected => poll.state = "idle"

------------------------------------------------------------------------------
(* Induction, as a fact about sets of numbers                              *)

LEMMA Least ==
    ASSUME NEW T, T \subseteq Nat, T # {}
    PROVE  \E x \in T : \A y \in T : x <= y
  <1> DEFINE R == {p \in Nat \X Nat : p[1] < p[2]}
  <1>1. IsWellFoundedOn(R, Nat)
    BY NatLessThanWellFounded DEF OpToRel
  <1> HIDE DEF R
  <1>2. PICK x \in T : \A y \in T : ~(<<y, x>> \in R)
    BY <1>1, WFMin
  <1>3. ASSUME NEW y \in T PROVE x <= y
    <2>1. CASE y < x
      <3>1. <<y, x>> \in Nat \X Nat /\ <<y, x>>[1] = y /\ <<y, x>>[2] = x
        OBVIOUS
      <3>2. <<y, x>> \in R
        BY <2>1, <3>1 DEF R
      <3> QED BY <3>2, <1>2
    <2> QED BY <2>1
  <1> QED BY <1>3

LEMMA SetInduction ==
    ASSUME NEW S, 0 \in S, \A n \in Nat : n \in S => n + 1 \in S
    PROVE  Nat \subseteq S
  <1> SUFFICES ASSUME ~(Nat \subseteq S) PROVE FALSE
    OBVIOUS
  <1>1. PICK x \in Nat \ S : \A y \in Nat \ S : x <= y
    BY Least
  <1>2. x - 1 \in Nat
    BY <1>1
  <1>3. x - 1 \in S
    BY <1>1, <1>2
  <1> QED BY <1>1, <1>2, <1>3

-----------------------------------------------------------------------------
(* Sequences of requests and replies                                       *)

\* The filter of WithoutGets, up to each position.
LEMMA KeptExists ==
    ASSUME NEW q, NEW n \in Nat
    PROVE  \E h : h = [i \in 0..n |-> IF i = 0 THEN <<>>
                                      ELSE IF q[i].kind = "get" THEN h[i - 1]
                                      ELSE Append(h[i - 1], q[i])]
  <1> DEFINE Step(h, i) == IF i = 0 THEN <<>>
                           ELSE IF q[i].kind = "get" THEN h[i - 1]
                           ELSE Append(h[i - 1], q[i])
             Good(h, m) == h = [i \in 0..m |-> Step(h, i)]
             S == {m \in Nat : \E h : Good(h, m)}
  <1>1. 0 \in S
    <2>1. Good([i \in 0..0 |-> <<>>], 0)
      OBVIOUS
    <2> QED BY <2>1
  <1>2. ASSUME NEW m \in Nat, m \in S PROVE m + 1 \in S
    <2>1. PICK h : Good(h, m)
      BY <1>2
    <2> DEFINE g == [i \in 0..(m + 1) |-> IF i = m + 1 THEN Step(h, i) ELSE h[i]]
    <2> HIDE DEF Good
    <2>2. ASSUME NEW i \in 0..(m + 1) PROVE g[i] = Step(g, i)
      <3>1. CASE i = m + 1
        <4>1. g[m] = h[m] /\ g[i] = Step(h, i)
          BY <3>1
        <4> QED BY <3>1, <4>1
      <3>2. CASE i # m + 1
        <4>1. i \in 0..m /\ g[i] = h[i]
          BY <3>2
        <4>2. h[i] = Step(h, i)
          BY <2>1, <4>1 DEF Good
        <4>3. i # 0 => g[i - 1] = h[i - 1]
          BY <4>1
        <4> QED BY <4>1, <4>2, <4>3
      <3> QED BY <3>1, <3>2
    <2>3. Good(g, m + 1)
      BY <2>2 DEF Good
    <2> QED BY <2>3
  <1> HIDE DEF S
  <1>3. Nat \subseteq S
    BY <1>1, <1>2, SetInduction
  <1> QED BY <1>3 DEF S

\* WithoutGets keeps members of the sequence, and no read.
LEMMA WithoutGetsFacts ==
    ASSUME NEW R, NEW q \in Seq(R)
    PROVE  /\ WithoutGets(q) \in Seq(R)
           /\ NoGet(WithoutGets(q))
           /\ \A i \in DOMAIN WithoutGets(q) : \E j \in DOMAIN q : WithoutGets(q)[i] = q[j]
  <1> DEFINE kept[n \in 0..Len(q)] ==
                 IF n = 0 THEN <<>>
                 ELSE IF q[n].kind = "get" THEN kept[n - 1]
                 ELSE Append(kept[n - 1], q[n])
  <1>1. WithoutGets(q) = kept[Len(q)]
    BY Zenon DEF WithoutGets
  <1>2. kept = [n \in 0..Len(q) |-> IF n = 0 THEN <<>>
                                    ELSE IF q[n].kind = "get" THEN kept[n - 1]
                                    ELSE Append(kept[n - 1], q[n])]
    <2>1. Len(q) \in Nat
      OBVIOUS
    <2>2. PICK h : h = [n \in 0..Len(q) |-> IF n = 0 THEN <<>>
                                           ELSE IF q[n].kind = "get" THEN h[n - 1]
                                           ELSE Append(h[n - 1], q[n])]
      BY <2>1, KeptExists, Zenon
    <2> QED BY <2>2, Zenon DEF kept
  <1> HIDE DEF kept
  <1> DEFINE Good(s) == /\ s \in Seq(R) /\ NoGet(s)
                        /\ \A i \in DOMAIN s : \E j \in DOMAIN q : s[i] = q[j]
             S == {n \in Nat : n <= Len(q) => Good(kept[n])}
  <1>3. 0 \in S
    <2>1. kept[0] = <<>>
      BY <1>2
    <2>2. <<>> \in Seq(R) /\ DOMAIN <<>> = {}
      OBVIOUS
    <2>3. Good(<<>>)
      BY <2>2 DEF NoGet
    <2> QED BY <2>1, <2>3
  <1>4. ASSUME NEW n \in Nat, n \in S PROVE n + 1 \in S
    <2> SUFFICES ASSUME n + 1 <= Len(q) PROVE Good(kept[n + 1])
      OBVIOUS
    <2>1. Good(kept[n]) /\ n + 1 \in 0..Len(q) /\ n + 1 # 0 /\ n + 1 \in DOMAIN q
      BY <1>4
    <2>2. kept[n + 1] = IF q[n + 1].kind = "get" THEN kept[n] ELSE Append(kept[n], q[n + 1])
      <3>1. n + 1 \in 0..Len(q) /\ n + 1 # 0 /\ (n + 1) - 1 = n
        BY <2>1
      <3> DEFINE m == n + 1
      <3>2. m \in 0..Len(q) /\ m # 0 /\ m - 1 = n
        BY <3>1
      <3> HIDE DEF m
      <3>3. kept[m] = IF q[m].kind = "get" THEN kept[m - 1] ELSE Append(kept[m - 1], q[m])
        BY <1>2, <3>2
      <3> QED BY <3>2, <3>3 DEF m
    <2>3. CASE q[n + 1].kind = "get"
      BY <2>1, <2>2, <2>3
    <2>4. CASE q[n + 1].kind # "get"
      <3> DEFINE s == kept[n]
                 t == Append(s, q[n + 1])
      <3>1. s \in Seq(R) /\ q[n + 1] \in R
        BY <2>1
      <3> HIDE DEF s
      <3>2. /\ t \in Seq(R) /\ Len(t) = Len(s) + 1 /\ t[Len(s) + 1] = q[n + 1]
            /\ \A i \in 1..Len(s) : t[i] = s[i]
        BY <3>1
      <3>3. Good(s)
        BY <2>1 DEF s
      <3>4. ASSUME NEW i \in DOMAIN t
            PROVE t[i].kind # "get" /\ \E j \in DOMAIN q : t[i] = q[j]
        <4>1. CASE i = Len(s) + 1
          BY <3>2, <4>1, <2>4, <2>1
        <4>2. CASE i \in DOMAIN s
          BY <3>1, <3>2, <3>3, <4>2 DEF NoGet
        <4> QED BY <3>1, <3>2, <4>1, <4>2
      <3>5. kept[n + 1] = t
        BY <2>2, <2>4 DEF s
      <3> QED BY <3>2, <3>4, <3>5 DEF NoGet
    <2> QED BY <2>3, <2>4
  <1> HIDE DEF S
  <1>5. Nat \subseteq S
    BY <1>3, <1>4, SetInduction
  <1>6. Len(q) \in S
    BY <1>5
  <1>7. Good(kept[Len(q)])
    BY <1>6 DEF S
  <1> QED BY <1>1, <1>7

LEMMA SupersededFacts ==
    ASSUME NEW q
    PROVE  /\ q \in Seq(Requests) => Superseded(q) \in Seq(Requests)
           /\ q \in Seq(Replies) => Superseded(q) \in Seq(Replies)
           /\ q \in Seq(Requests) \cup Seq(Replies) =>
                /\ NoGet(q) <=> NoGet(Superseded(q))
                /\ OneGet(q) <=> OneGet(Superseded(q))
           /\ (q \in Seq(Replies) /\ AnswersKnown(q)) => AnswersKnown(Superseded(q))
  <1> DEFINE s == Superseded(q)
  <1>1. ASSUME q \in Seq(Requests) \cup Seq(Replies)
        PROVE /\ DOMAIN s = DOMAIN q /\ Len(s) = Len(q) /\ s = [i \in 1..Len(q) |-> s[i]]
              /\ \A i \in DOMAIN q : s[i] = [q[i] EXCEPT !.latest = @ /\ q[i].kind # "analyze"]
    BY <1>1 DEF Superseded
  <1>2. ASSUME q \in Seq(Requests)
        PROVE /\ s \in Seq(Requests)
              /\ \A i \in DOMAIN q : s[i].kind = q[i].kind
    <2>1. ASSUME NEW i \in DOMAIN q
          PROVE s[i] \in Requests /\ s[i].kind = q[i].kind
      <3> DEFINE l == q[i].latest /\ q[i].kind # "analyze"
      <3>1. q[i] \in Requests /\ s[i] = [q[i] EXCEPT !.latest = l]
        BY <1>1, <1>2
      <3>2. l \in BOOLEAN
        OBVIOUS
      <3> HIDE DEF l, s
      <3> QED BY <3>1, <3>2 DEF Requests
    <2> QED BY <2>1, <1>1, <1>2
  <1>3. ASSUME q \in Seq(Replies)
        PROVE /\ s \in Seq(Replies)
              /\ \A i \in DOMAIN q : s[i].kind = q[i].kind /\ s[i].got = q[i].got
    <2>1. ASSUME NEW i \in DOMAIN q
          PROVE s[i] \in Replies /\ s[i].kind = q[i].kind /\ s[i].got = q[i].got
      <3> DEFINE l == q[i].latest /\ q[i].kind # "analyze"
      <3>1. q[i] \in Replies /\ s[i] = [q[i] EXCEPT !.latest = l]
        BY <1>1, <1>3
      <3>2. l \in BOOLEAN
        OBVIOUS
      <3> HIDE DEF l, s
      <3> QED BY <3>1, <3>2 DEF Replies
    <2> QED BY <2>1, <1>1, <1>3
  <1>4. ASSUME q \in Seq(Requests) \cup Seq(Replies)
        PROVE DOMAIN s = DOMAIN q /\ \A i \in DOMAIN q : s[i].kind = q[i].kind
    BY <1>1, <1>2, <1>3, <1>4
  <1> HIDE DEF s
  <1>5. ASSUME q \in Seq(Requests) \cup Seq(Replies)
        PROVE (NoGet(q) <=> NoGet(s)) /\ (OneGet(q) <=> OneGet(s))
    BY <1>4, <1>5 DEF NoGet, OneGet
  <1>6. ASSUME q \in Seq(Replies), AnswersKnown(q)
        PROVE AnswersKnown(s)
    BY <1>3, <1>4, <1>6 DEF AnswersKnown
  <1> QED BY <1>2, <1>3, <1>5, <1>6 DEF s

\* A request goes to the end of its queue.
LEMMA SendFacts ==
    ASSUME NEW q \in Seq(Requests), NEW kind \in Kinds
    PROVE  /\ Send(q, kind) \in Seq(Requests)
           /\ kind = "get" /\ NoGet(q) => OneGet(Send(q, kind))
           /\ kind = "analyze" => (NoGet(q) <=> NoGet(Send(q, kind)))
                                   /\ (OneGet(q) <=> OneGet(Send(q, kind)))
  <1> DEFINE e == [kind |-> kind, latest |-> TRUE]
             t == Append(q, e)
  <1>1. e \in Requests /\ e.kind = kind /\ t = Send(q, kind)
    BY DEF Requests, Send
  <1> HIDE DEF e
  <1>2. /\ t \in Seq(Requests) /\ DOMAIN t = 1..(Len(q) + 1) /\ DOMAIN q = 1..Len(q)
        /\ t[Len(q) + 1] = e /\ Len(q) \in Nat
        /\ \A i \in 1..Len(q) : t[i] = q[i]
    BY <1>1
  <1> HIDE DEF t
  <1>3. \A i \in DOMAIN t : i \in DOMAIN q \/ i = Len(q) + 1
    BY <1>2
  <1>4. DOMAIN q \subseteq DOMAIN t /\ Len(q) + 1 \in DOMAIN t /\ Len(q) + 1 \notin DOMAIN q
    BY <1>2
  <1>5. ASSUME kind = "get", NoGet(q) PROVE OneGet(t)
    BY <1>1, <1>2, <1>3, <1>4, <1>5 DEF NoGet, OneGet
  <1>6. ASSUME kind = "analyze" PROVE (NoGet(q) <=> NoGet(t)) /\ (OneGet(q) <=> OneGet(t))
    <2>1. \A i \in DOMAIN t : t[i].kind = "get" => i \in DOMAIN q
      BY <1>1, <1>2, <1>3, <1>6
    <2>2. \A i \in DOMAIN q : i \in DOMAIN t /\ t[i] = q[i]
      BY <1>2, <1>4
    <2>3. NoGet(q) <=> NoGet(t)
      BY <2>1, <2>2 DEF NoGet
    <2>4. OneGet(q) => OneGet(t)
      BY <2>1, <2>2 DEF OneGet
    <2>5. OneGet(t) => OneGet(q)
      BY <2>1, <2>2 DEF OneGet
    <2> QED BY <2>3, <2>4, <2>5
  <1> QED BY <1>1, <1>2, <1>5, <1>6

\* What the removal of the head of a queue leaves.
LEMMA TailFacts ==
    ASSUME NEW R, NEW q \in Seq(R), q # <<>>
    PROVE  /\ Head(q) \in R /\ Tail(q) \in Seq(R)
           /\ NoGet(q) => NoGet(Tail(q)) /\ Head(q).kind # "get"
           /\ (OneGet(q) /\ Head(q).kind = "get") => NoGet(Tail(q))
           /\ (OneGet(q) /\ Head(q).kind # "get") => OneGet(Tail(q))
           /\ \A i \in DOMAIN Tail(q) : i + 1 \in DOMAIN q /\ Tail(q)[i] = q[i + 1]
           /\ 1 \in DOMAIN q /\ Head(q) = q[1]
  <1> DEFINE t == Tail(q)
  <1>1. /\ Head(q) = q[1] /\ 1 \in DOMAIN q /\ t \in Seq(R) /\ q[1] \in R
        /\ DOMAIN t = 1..(Len(q) - 1) /\ DOMAIN q = 1..Len(q) /\ Len(q) \in Nat /\ Len(q) >= 1
        /\ \A i \in 1..(Len(q) - 1) : t[i] = q[i + 1]
    OBVIOUS
  <1> HIDE DEF t
  <1>2. \A i \in DOMAIN t : i + 1 \in DOMAIN q /\ t[i] = q[i + 1] /\ i + 1 # 1
    BY <1>1
  <1>3. \A i \in DOMAIN q : i = 1 \/ (i - 1 \in DOMAIN t /\ t[i - 1] = q[i])
    BY <1>1
  <1>4. NoGet(q) => NoGet(t) /\ q[1].kind # "get"
    BY <1>1, <1>2 DEF NoGet
  <1>5. ASSUME OneGet(q), q[1].kind = "get" PROVE NoGet(t)
    BY <1>1, <1>2, <1>5 DEF NoGet, OneGet
  <1>6. ASSUME OneGet(q), q[1].kind # "get" PROVE OneGet(t)
    <2>1. PICK g \in DOMAIN q :
            q[g].kind = "get" /\ \A j \in DOMAIN q : q[j].kind = "get" => j = g
      BY <1>6 DEF OneGet
    <2>2. g # 1 /\ g - 1 \in DOMAIN t /\ t[g - 1].kind = "get"
      BY <2>1, <1>3, <1>6
    <2>3. \A j \in DOMAIN t : t[j].kind = "get" => j = g - 1
      <3> TAKE j \in DOMAIN t
      <3>1. j + 1 \in DOMAIN q /\ t[j] = q[j + 1] /\ j \in Nat /\ g \in Nat
        BY <1>1, <1>2, <2>1
      <3>2. t[j].kind = "get" => j + 1 = g
        BY <3>1, <2>1
      <3> QED BY <3>1, <3>2
    <2> QED BY <2>2, <2>3 DEF OneGet
  <1> QED BY <1>1, <1>2, <1>4, <1>5, <1>6 DEF t

\* An answer goes to the end of its queue.
LEMMA ReplyFacts ==
    ASSUME NEW q \in Seq(Replies), NEW e \in Replies
    PROVE  /\ Append(q, e) \in Seq(Replies)
           /\ e.kind = "get" /\ NoGet(q) => OneGet(Append(q, e))
           /\ e.kind # "get" => (NoGet(q) => NoGet(Append(q, e)))
                                /\ (OneGet(q) => OneGet(Append(q, e)))
           /\ \A i \in DOMAIN Append(q, e) :
                (i \in DOMAIN q /\ Append(q, e)[i] = q[i]) \/ Append(q, e)[i] = e
  <1> DEFINE t == Append(q, e)
  <1>2. /\ t \in Seq(Replies) /\ DOMAIN t = 1..(Len(q) + 1) /\ DOMAIN q = 1..Len(q)
        /\ t[Len(q) + 1] = e /\ Len(q) \in Nat
        /\ \A i \in 1..Len(q) : t[i] = q[i]
    OBVIOUS
  <1> HIDE DEF t
  <1>3. \A i \in DOMAIN t : (i \in DOMAIN q /\ t[i] = q[i]) \/ (i = Len(q) + 1 /\ t[i] = e)
    BY <1>2
  <1>4. DOMAIN q \subseteq DOMAIN t /\ Len(q) + 1 \in DOMAIN t /\ Len(q) + 1 \notin DOMAIN q
    BY <1>2
  <1>5. ASSUME e.kind = "get", NoGet(q) PROVE OneGet(t)
    BY <1>2, <1>3, <1>4, <1>5 DEF NoGet, OneGet
  <1>6. ASSUME e.kind # "get" PROVE (NoGet(q) => NoGet(t)) /\ (OneGet(q) => OneGet(t))
    <2>1. NoGet(q) => NoGet(t)
      BY <1>3, <1>6 DEF NoGet
    <2>2. \A i \in DOMAIN q : i \in DOMAIN t /\ t[i] = q[i]
      BY <1>2, <1>4
    <2>3. OneGet(q) => OneGet(t)
      BY <1>3, <1>6, <2>2 DEF OneGet
    <2> QED BY <2>1, <2>3
  <1> QED BY <1>2, <1>3, <1>5, <1>6 DEF t

\* Answers that are a part of others tell no more than these.
LEMMA FewerAnswers ==
    ASSUME NEW q, NEW t, AnswersKnown(q),
           \A i \in DOMAIN t : \E j \in DOMAIN q : t[i] = q[j]
    PROVE  AnswersKnown(t)
  BY DEF AnswersKnown

LEMMA TailKnown ==
    ASSUME NEW q \in Seq(Replies), q # <<>>, AnswersKnown(q)
    PROVE  /\ AnswersKnown(Tail(q)) /\ Known(Head(q).got)
           /\ (Head(q).kind = "get" /\ Head(q).got.error = "none") => Head(q).got.status # "none"
  <1>1. \A i \in DOMAIN Tail(q) : \E j \in DOMAIN q : Tail(q)[i] = q[j]
    BY TailFacts
  <1>2. AnswersKnown(Tail(q))
    BY <1>1, FewerAnswers
  <1>3. 1 \in DOMAIN q /\ Head(q) = q[1]
    BY TailFacts
  <1> QED BY <1>2, <1>3 DEF AnswersKnown

-----------------------------------------------------------------------------
(* The effects of App                                                      *)

LEMMA ObservedFacts ==
    ASSUME NEW u \in Screens
    PROVE  /\ Observed(u) \in Screens
           /\ Observed(u).entry = u.entry
           /\ Observed(u).processed \in {u.processed, u.entry.rev}
           /\ u.entry.status # "none" => Observed(u).processed = u.entry.rev
           /\ Observed(u).window => u.window
           /\ (Observed(u).window /\ u.entry.status = "READY") => u.processed = u.entry.rev
  <1>1. CASE u.entry.status = "none" \/ u.processed = u.entry.rev
    BY <1>1 DEF Observed
  <1>2. CASE ~(u.entry.status = "none" \/ u.processed = u.entry.rev)
    <2> DEFINE closes == \/ u.entry.status = "READY"
                         \/ u.entry.status = "FAILED" /\ u.window /\ ~HandOff(u)
               r == IF u.entry.status \in {"READY", "FAILED"} THEN u.entry.rev ELSE u.refreshed
               w == u.window /\ ~closes
               g == IF closes /\ u.entry.status = "FAILED" THEN 0 ELSE u.ignored
               o == [u EXCEPT !.processed = u.entry.rev, !.refreshed = r, !.window = w,
                              !.ignored = g]
    <2>1. Observed(u) = o
      BY <1>2, Zenon DEF Observed
    <2>2. u.entry.rev \in Nat /\ u.refreshed \in Nat /\ u.ignored \in Nat
      BY DEF Screens, Entries
    <2>3. r \in Nat /\ g \in Nat /\ w \in BOOLEAN
      BY <2>2
    <2>4. w => u.window /\ u.entry.status # "READY"
      OBVIOUS
    <2> HIDE DEF r, w, g
    <2>5. o \in Screens /\ o.entry = u.entry /\ o.processed = u.entry.rev /\ o.window = w
      BY <2>2, <2>3 DEF Screens
    <2> QED BY <2>1, <2>4, <2>5
  <1> QED BY <1>1, <1>2

LEMMA ScheduledFacts ==
    ASSUME NEW u \in Screens
    PROVE  /\ Scheduled(u) \in Screens /\ Scheduled(u).entry = u.entry
           /\ Scheduled(u).window = TRUE /\ Scheduled(u).processed = 0
  <1>1. u.entry.rev \in Nat
    BY DEF Screens, Entries
  <1> QED BY <1>1 DEF Scheduled, Screens

\* The effect shows no more than what is known, and closes the window on READY.
LEMMA ObservedShown ==
    ASSUME NEW u \in Screens, Known(u.entry), u.processed <= row.rev, row.rev \in Nat,
           u.window => ~(row.status = "READY" /\ u.processed = row.rev)
    PROVE  Shown(Observed(u))
  <1> DEFINE o == Observed(u)
  <1>1. /\ o.entry = u.entry /\ o.processed \in {u.processed, u.entry.rev}
        /\ o.window => u.window
        /\ (o.window /\ u.entry.status = "READY") => u.processed = u.entry.rev
        /\ u.entry.status # "none" => o.processed = u.entry.rev
        /\ o.processed = u.processed \/ u.entry.status # "none"
    BY ObservedFacts DEF Observed
  <1> HIDE DEF o
  <1>2. u.entry.rev \in Nat /\ u.processed \in Nat
    BY DEF Screens, Entries
  <1>3. o.processed <= row.rev
    BY <1>1, <1>2 DEF Known
  <1>4. o.window => u.entry.status # "READY"
    BY <1>1 DEF Known
  <1>5. o.window => ~(row.status = "READY" /\ o.processed = row.rev)
    BY <1>1, <1>4 DEF Known
  <1> QED BY <1>1, <1>3, <1>4, <1>5 DEF Shown, o

LEMMA ScheduledShown ==
    ASSUME NEW u \in Screens, Known(u.entry), 0 < row.rev, row.rev \in Nat,
           u.entry.status # "READY"
    PROVE  Shown(Scheduled(u))
  <1> DEFINE s == Scheduled(u)
  <1>1. s.entry = u.entry /\ s.processed = 0
    BY ScheduledFacts
  <1> HIDE DEF s
  <1>2. Known(s.entry) /\ s.processed <= row.rev
    BY <1>1 DEF Known
  <1>3. s.entry.status # "READY" /\ s.processed # row.rev
    BY <1>1
  <1> QED BY <1>2, <1>3 DEF Shown, s

-----------------------------------------------------------------------------
(* The screen                                                              *)

\* The invariant reads the row only.
LEMMA SameRow ==
    ASSUME row' = row
    PROVE  /\ \A e : Known(e) = Known(e)'
           /\ \A q : AnswersKnown(q) = AnswersKnown(q)'
           /\ \A u : Shown(u) = Shown(u)'
  <1>1. \A e : Known(e) = Known(e)'
    BY DEF Known
  <1>2. \A q : AnswersKnown(q) = AnswersKnown(q)'
    BY DEF AnswersKnown, Known
  <1>3. \A u : Shown(u) = Shown(u)'
    BY DEF Shown, Known
  <1> QED BY <1>1, <1>2, <1>3

\* A loop that is left drops its reads, and the one that is built has one.
LEMMA RebuiltTraffic ==
    ASSUME NEW sent \in Seq(Requests), NEW back \in Seq(Replies), AnswersKnown(back)
    PROVE  /\ Send(WithoutGets(sent), "get") \in Seq(Requests)
           /\ WithoutGets(back) \in Seq(Replies)
           /\ Traffic("reading", Send(WithoutGets(sent), "get"), WithoutGets(back))
           /\ AnswersKnown(WithoutGets(back))
  <1>1. WithoutGets(sent) \in Seq(Requests) /\ NoGet(WithoutGets(sent))
    BY WithoutGetsFacts
  <1>2. Send(WithoutGets(sent), "get") \in Seq(Requests) /\ OneGet(Send(WithoutGets(sent), "get"))
    BY <1>1, SendFacts DEF Kinds
  <1>3. WithoutGets(back) \in Seq(Replies) /\ NoGet(WithoutGets(back))
    BY WithoutGetsFacts
  <1>4. \A i \in DOMAIN WithoutGets(back) : \E j \in DOMAIN back : WithoutGets(back)[i] = back[j]
    BY WithoutGetsFacts
  <1>5. AnswersKnown(WithoutGets(back))
    BY <1>4, FewerAnswers
  <1> QED BY <1>2, <1>3, <1>5, Zenon DEF Traffic

\* A schedule adds its request and leaves the reads alone.
LEMMA ScheduleTraffic ==
    ASSUME NEW sent \in Seq(Requests), NEW back \in Seq(Replies), AnswersKnown(back)
    PROVE  /\ Send(Superseded(sent), "analyze") \in Seq(Requests)
           /\ Superseded(back) \in Seq(Replies)
           /\ \A s : Traffic(s, sent, back)
                     => Traffic(s, Send(Superseded(sent), "analyze"), Superseded(back))
           /\ AnswersKnown(Superseded(back))
  <1> DEFINE s1 == Superseded(sent)
             s2 == Send(s1, "analyze")
             b == Superseded(back)
  <1>1. /\ s1 \in Seq(Requests)
        /\ NoGet(sent) <=> NoGet(s1)
        /\ OneGet(sent) <=> OneGet(s1)
    BY SupersededFacts
  <1>2. /\ b \in Seq(Replies) /\ AnswersKnown(b)
        /\ NoGet(back) <=> NoGet(b)
        /\ OneGet(back) <=> OneGet(b)
    BY SupersededFacts
  <1> HIDE DEF s1
  <1>3. /\ s2 \in Seq(Requests)
        /\ NoGet(s1) <=> NoGet(s2)
        /\ OneGet(s1) <=> OneGet(s2)
    BY <1>1, SendFacts DEF Kinds
  <1> HIDE DEF s2, b
  <1>4. \A s : Traffic(s, sent, back) => Traffic(s, s2, b)
    BY <1>1, <1>2, <1>3 DEF Traffic
  <1> QED BY <1>2, <1>3, <1>4 DEF s1, s2, b

LEMMA RenderedKeeps ==
    ASSUME IInv, NEW u \in Screens, NEW schedules \in BOOLEAN, NEW refresh \in BOOLEAN,
           NEW inbox \in Seq(Replies), NEW next \in Polls,
           UNCHANGED main, selected' \in BOOLEAN, (budget \in [clicks : Nat, faults : Nat])',
           AnswersKnown(inbox), Shown(u),
           (selected' /\ (refresh \/ u.window # ui.window)) \/ Traffic(next.state, calls, inbox),
           (selected' /\ ~refresh /\ u.window = ui.window /\ u.window) => next.state # "idle",
           ~selected' => next.state = "idle",
           Rendered(u, schedules, refresh, inbox, next)
    PROVE  IInv'
  <1> DEFINE turned == u.window # ui.window
             shown == IF turned /\ selected' THEN Observed(u) ELSE u
             rebuilt == selected' /\ (refresh \/ turned)
             asked == IF schedules THEN Send(Superseded(calls), "analyze") ELSE calls
             heard == IF schedules THEN Superseded(inbox) ELSE inbox
  <1>1. /\ ui' = shown
        /\ calls' = IF rebuilt THEN Send(WithoutGets(asked), "get") ELSE asked
        /\ answers' = IF rebuilt THEN WithoutGets(heard) ELSE heard
        /\ poll' = IF rebuilt THEN FirstRead ELSE next
    BY Zenon DEF Rendered
  <1>2. /\ row \in [status : Statuses, parsed : BOOLEAN, rev : Nat]
        /\ calls \in Seq(Requests) /\ row' = row /\ run' = run /\ unrecorded' = unrecorded
        /\ 0 < row.rev /\ (row.status = "READY" => run \in {"off", "deferred"})
        /\ run \in {"off", "deferred", "inspecting", "parsing", "detecting"}
        /\ unrecorded \in BOOLEAN
    BY DEF IInv, Typed, main
  <1>3. asked \in Seq(Requests) /\ heard \in Seq(Replies) /\ AnswersKnown(heard)
    <2>1. CASE schedules
      BY <1>2, <2>1, ScheduleTraffic
    <2>2. CASE ~schedules
      BY <1>2, <2>2
    <2> QED BY <2>1, <2>2
  <1>4. \A s : Traffic(s, calls, inbox) => Traffic(s, asked, heard)
    <2>1. CASE schedules
      BY <1>2, <2>1, ScheduleTraffic
    <2>2. CASE ~schedules
      BY <2>2
    <2> QED BY <2>1, <2>2
  <1>5. shown \in Screens /\ Shown(shown) /\ (shown.window => u.window)
    <2>1. CASE turned /\ selected'
      <3>1. Known(u.entry) /\ u.processed <= row.rev
            /\ (u.window => ~(row.status = "READY" /\ u.processed = row.rev))
        BY DEF Shown
      <3>2. Shown(Observed(u))
        BY <3>1, <1>2, ObservedShown
      <3>3. Observed(u) \in Screens /\ (Observed(u).window => u.window)
        BY ObservedFacts
      <3> QED BY <2>1, <3>2, <3>3
    <2>2. CASE ~(turned /\ selected')
      BY <2>2
    <2> QED BY <2>1, <2>2
  <1> HIDE DEF shown, asked, heard
  <1>6. /\ calls' \in Seq(Requests) /\ answers' \in Seq(Replies) /\ poll' \in Polls
        /\ Traffic(poll'.state, calls', answers') /\ AnswersKnown(answers')
        /\ (selected' /\ shown.window) => poll'.state # "idle"
        /\ ~selected' => poll'.state = "idle"
    <2>1. CASE rebuilt
      <3>1. FirstRead \in Polls /\ FirstRead.state = "reading"
        BY Bounds DEF FirstRead, Polls
      <3>2. calls' = Send(WithoutGets(asked), "get") /\ answers' = WithoutGets(heard)
            /\ poll' = FirstRead /\ selected'
        BY <1>1, <2>1
      <3>3. calls' \in Seq(Requests) /\ answers' \in Seq(Replies)
            /\ Traffic("reading", calls', answers') /\ AnswersKnown(answers')
        BY <1>3, <3>2, RebuiltTraffic
      <3> QED BY <3>1, <3>2, <3>3
    <2>2. CASE ~rebuilt
      <3>1. calls' = asked /\ answers' = heard /\ poll' = next
        BY <1>1, <2>2
      <3>2. Traffic(next.state, asked, heard)
        BY <1>4, <2>2
      <3> QED BY <1>3, <1>5, <2>2, <3>1, <3>2
    <2> QED BY <2>1, <2>2
  <1>7. ui' \in Screens /\ Shown(ui') /\ ui'.window = shown.window
    BY <1>1, <1>5
  <1>8. Typed'
    BY <1>2, <1>6, <1>7 DEF Typed
  <1>9. AnswersKnown(answers)' /\ Shown(ui)'
    BY <1>2, <1>6, <1>7 DEF AnswersKnown, Shown, Known
  <1>10. Traffic(poll.state, calls, answers)'
    BY <1>6, Zenon DEF Traffic, OneGet, NoGet
  <1>11. (0 < row.rev /\ (row.status = "READY" => run \in {"off", "deferred"}))'
    BY <1>2
  <1>12. (selected /\ ui.window => poll.state # "idle")' /\ (~selected => poll.state = "idle")'
    BY <1>6, <1>7
  <1> QED BY <1>8, <1>9, <1>10, <1>11, <1>12 DEF IInv

-----------------------------------------------------------------------------
(* The steps of the main process                                           *)

LEMMA SpentFacts ==
    ASSUME budget \in [clicks : Nat, faults : Nat], NEW bound \in {"clicks", "faults"}, Spent(bound)
    PROVE  (budget \in [clicks : Nat, faults : Nat])'
  BY DEF Spent

\* The row moves on, but not from READY, and to READY only with the end of the run.
LEMMA RowKeeps ==
    ASSUME IInv, UNCHANGED <<calls, answers, screen>>,
           unrecorded' \in BOOLEAN, (budget \in [clicks : Nat, faults : Nat])',
           run' \in {"off", "deferred", "inspecting", "parsing", "detecting"},
           \/ row' = row /\ (row.status = "READY" => run' \in {"off", "deferred"})
           \/ /\ row.status # "READY"
              /\ \E status \in Statuses, parsed \in BOOLEAN :
                   Moves(status, parsed) /\ (status = "READY" => run' = "off")
    PROVE  IInv'
  <1>1. /\ row \in [status : Statuses, parsed : BOOLEAN, rev : Nat] /\ Typed
        /\ 0 < row.rev /\ AnswersKnown(answers) /\ Shown(ui)
        /\ answers' = answers /\ ui' = ui /\ poll' = poll /\ calls' = calls
        /\ selected' = selected
    BY DEF IInv, Typed, screen
  <1>2. CASE row' = row
    <2>1. Typed'
      BY <1>1, <1>2 DEF Typed
    <2>2. AnswersKnown(answers)' /\ Shown(ui)'
      BY <1>1, <1>2 DEF AnswersKnown, Shown, Known
    <2> QED BY <1>1, <1>2, <2>1, <2>2 DEF IInv, Traffic, OneGet, NoGet
  <1>3. CASE row' # row
    <2>1. PICK status \in Statuses, parsed \in BOOLEAN :
            Moves(status, parsed) /\ (status = "READY" => run' = "off") /\ row.status # "READY"
      BY <1>3
    <2>2. /\ row' \in [status : Statuses, parsed : BOOLEAN, rev : Nat]
          /\ row'.rev = row.rev + 1 /\ row'.status = status
      BY <1>1, <2>1 DEF Moves
    <2>3. Typed'
      BY <1>1, <2>2 DEF Typed
    <2>4. ASSUME NEW e \in Entries, Known(e)
          PROVE Known(e)'
      <3>1. e.rev \in Nat /\ row.rev \in Nat
        BY <1>1 DEF Entries
      <3> QED BY <2>1, <2>2, <2>4, <3>1 DEF Known
    <2>5. \A i \in DOMAIN answers : answers[i].got \in Entries
      <3>1. \A i \in DOMAIN answers : answers[i] \in Replies
        BY <1>1 DEF Typed
      <3> QED BY <3>1 DEF Replies
    <2>6. AnswersKnown(answers)'
      BY <1>1, <2>4, <2>5 DEF AnswersKnown
    <2>7. ui \in Screens /\ ui.entry \in Entries /\ ui.processed \in Nat
      BY <1>1 DEF Typed, Screens
    <2>8. Known(ui.entry)'
      BY <1>1, <2>4, <2>7 DEF Shown, Known
    <2>9. (ui.processed <= row.rev)' /\ (row.rev # ui.processed)'
      BY <1>1, <2>2, <2>7 DEF Shown
    <2>10. Shown(ui)'
      BY <1>1, <2>8, <2>9 DEF Shown
    <2>11. (0 < row.rev /\ (row.status = "READY" => run \in {"off", "deferred"}))'
      BY <1>1, <2>1, <2>2
    <2>12. Traffic(poll.state, calls, answers)'
      BY <1>1 DEF IInv, Traffic, OneGet, NoGet
    <2> QED BY <1>1, <2>3, <2>6, <2>10, <2>11, <2>12 DEF IInv
  <1> QED BY <1>2, <1>3

LEMMA RunStepKeeps ==
    ASSUME IInv, RunStep
    PROVE  IInv'
  <1>0. unrecorded \in BOOLEAN /\ budget \in [clicks : Nat, faults : Nat]
    BY DEF IInv, Typed
  <1>1. row.status = "READY" => run \in {"off", "deferred"}
    BY DEF IInv
  <1>2. Live \subseteq Statuses /\ {"READY", "FAILED", "DETECTING", "PARSING"} \subseteq Statuses
        /\ "READY" \notin Live
    BY DEF Live, Statuses
  <1>3. ASSUME Analyzes
        PROVE \E status \in Statuses, parsed \in BOOLEAN :
                Moves(status, parsed) /\ (status = "READY" => run' = "off")
    BY <1>2, <1>3 DEF Analyzes
  <1>4. ASSUME Analyzes PROVE run' \in {"off", "detecting"}
    BY <1>4 DEF Analyzes
  <1>5. CASE RunStarts
    <2>1. UNCHANGED <<calls, answers, screen, budget>> /\ unrecorded' = unrecorded
          /\ row.status # "READY"
      BY <1>5 DEF RunStarts
    <2>2. CASE row.parsed
      <3>1. Analyzes
        BY <1>5, <2>2 DEF RunStarts
      <3> QED BY <1>3, <1>4, <2>1, <3>1, <1>0, RowKeeps
    <2>3. CASE ~row.parsed
      <3>1. run' = "inspecting" /\ (row' = row \/ Moves("FAILED", FALSE))
        BY <1>5, <2>3 DEF RunStarts
      <3>2. \/ row' = row
            \/ \E status \in Statuses, parsed \in BOOLEAN :
                 Moves(status, parsed) /\ (status = "READY" => run' = "off")
        BY <1>2, <3>1
      <3> QED BY <2>1, <3>1, <3>2, <1>0, RowKeeps
    <2> QED BY <2>2, <2>3
  <1>6. CASE AlreadyAnalyzed
    <2>1. UNCHANGED <<calls, answers, screen, budget>> /\ unrecorded' = unrecorded
          /\ row' = row /\ run' = "off"
      BY <1>6 DEF AlreadyAnalyzed
    <2> QED BY <2>1, <1>0, RowKeeps
  <1>7. CASE Inspected
    <2>1. UNCHANGED <<calls, answers, screen, budget>> /\ unrecorded' = unrecorded
          /\ row.status # "READY" /\ run' \in {"off", "parsing"}
      BY <1>1, <1>7 DEF Inspected
    <2>2. \E status \in Statuses, parsed \in BOOLEAN :
            Moves(status, parsed) /\ (status = "READY" => run' = "off")
      BY <1>2, <1>7 DEF Inspected
    <2> QED BY <2>1, <2>2, <1>0, RowKeeps
  <1>8. CASE Parsed
    <2>1. UNCHANGED <<calls, answers, screen, budget>> /\ unrecorded' = unrecorded
          /\ row.status # "READY"
      BY <1>1, <1>8 DEF Parsed
    <2>2. run' \in {"off", "detecting"}
      BY <1>4, <1>8 DEF Parsed
    <2>3. \E status \in Statuses, parsed \in BOOLEAN :
            Moves(status, parsed) /\ (status = "READY" => run' = "off")
      <3>1. CASE Analyzes
        BY <1>3, <3>1
      <3>2. CASE ~Analyzes
        BY <1>2, <1>8, <3>2 DEF Parsed
      <3> QED BY <3>1, <3>2
    <2> QED BY <2>1, <2>2, <2>3, <1>0, RowKeeps
  <1>9. CASE Detected
    <2>1. UNCHANGED <<calls, answers, screen, budget>> /\ unrecorded' = unrecorded
          /\ row.status # "READY" /\ run' = "off"
      BY <1>1, <1>9 DEF Detected
    <2>2. \E status \in Statuses, parsed \in BOOLEAN :
            Moves(status, parsed) /\ (status = "READY" => run' = "off")
      BY <1>2, <1>9, <2>1 DEF Detected
    <2> QED BY <2>1, <2>2, <1>0, RowKeeps
  <1> QED BY <1>5, <1>6, <1>7, <1>8, <1>9 DEF RunStep

LEMMA RunFailsUnrecordedKeeps ==
    ASSUME IInv, RunFailsUnrecorded
    PROVE  IInv'
  <1>1. UNCHANGED <<calls, answers, screen>> /\ unrecorded' = TRUE /\ run' = "off"
        /\ row.status # "READY" /\ Spent("faults")
    BY DEF RunFailsUnrecorded
  <1>2. (budget \in [clicks : Nat, faults : Nat])'
    BY <1>1, SpentFacts DEF IInv, Typed
  <1>3. row' = row \/ Moves("DETECTING", TRUE)
    BY DEF RunFailsUnrecorded
  <1>4. \/ row' = row
        \/ \E status \in Statuses, parsed \in BOOLEAN :
             Moves(status, parsed) /\ (status = "READY" => run' = "off")
    <2>1. "DETECTING" \in Statuses /\ TRUE \in BOOLEAN /\ "DETECTING" # "READY"
      BY DEF Statuses, Live
    <2> QED BY <1>3, <2>1
  <1> QED BY <1>1, <1>2, <1>4, RowKeeps

\* An answer takes the place of its request.
LEMMA AnsweredKeeps ==
    ASSUME IInv, calls # <<>>, NEW got \in Entries, Known(got),
           (Head(calls).kind = "get" /\ got.error = "none") => got.status # "none",
           Answered(got), UNCHANGED <<row, screen>>,
           unrecorded' \in BOOLEAN, (budget \in [clicks : Nat, faults : Nat])',
           run' = run \/ (run = "off" /\ run' = "deferred")
    PROVE  IInv'
  <1> DEFINE e == [kind |-> Head(calls).kind, latest |-> Head(calls).latest, got |-> got]
  <1>1. calls \in Seq(Requests) /\ answers \in Seq(Replies) /\ Typed /\ AnswersKnown(answers)
        /\ Traffic(poll.state, calls, answers) /\ Shown(ui)
    BY DEF IInv, Typed
  <1>2. answers' = Append(answers, e) /\ calls' = Tail(calls)
    BY DEF Answered
  <1>3. Head(calls) \in Requests /\ calls' \in Seq(Requests)
    BY <1>1, <1>2, TailFacts
  <1>4. e \in Replies /\ e.kind = Head(calls).kind /\ e.got = got
    BY <1>3 DEF Requests, Replies
  <1> HIDE DEF e
  <1>5. /\ answers' \in Seq(Replies)
        /\ \A i \in DOMAIN answers' : (i \in DOMAIN answers /\ answers'[i] = answers[i])
                                      \/ answers'[i] = e
    BY <1>1, <1>2, <1>4, ReplyFacts
  <1>6. AnswersKnown(answers')
    BY <1>1, <1>4, <1>5 DEF AnswersKnown
  <1>7. Traffic(poll.state, calls', answers')
    <2>1. /\ NoGet(calls) => NoGet(calls') /\ Head(calls).kind # "get"
          /\ (OneGet(calls) /\ Head(calls).kind = "get") => NoGet(calls')
          /\ (OneGet(calls) /\ Head(calls).kind # "get") => OneGet(calls')
      BY <1>1, <1>2, TailFacts
    <2>2. /\ (e.kind = "get" /\ NoGet(answers)) => OneGet(answers')
          /\ e.kind # "get" => (NoGet(answers) => NoGet(answers'))
                               /\ (OneGet(answers) => OneGet(answers'))
      BY <1>1, <1>2, <1>4, ReplyFacts
    <2> QED BY <2>1, <2>2, <1>1, <1>4 DEF Traffic
  <1>8. row' = row /\ selected' = selected /\ ui' = ui /\ poll' = poll
    BY DEF screen
  <1>9. Typed'
    BY <1>1, <1>3, <1>5, <1>8 DEF Typed
  <1>10. AnswersKnown(answers)' /\ Shown(ui)'
    BY <1>1, <1>6, <1>8 DEF AnswersKnown, Shown, Known
  <1>11. Traffic(poll.state, calls, answers)'
    BY <1>7, <1>8 DEF Traffic, OneGet, NoGet
  <1> QED BY <1>8, <1>9, <1>10, <1>11 DEF IInv

LEMMA FailureFacts ==
    ASSUME NEW code \in {"none", "unrecorded", "other"}
    PROVE  Failure(code) \in Entries /\ Known(Failure(code)) /\ Failure(code).error = code
  <1>1. Failure(code) \in Entries /\ Failure(code).error = code /\ Failure(code).status = "none"
    BY DEF Failure, Nothing, Entries
  <1> QED BY <1>1 DEF Known

LEMMA MainStepKeeps ==
    ASSUME IInv, MainStep
    PROVE  IInv'
  <1>1. row \in [status : Statuses, parsed : BOOLEAN, rev : Nat] /\ unrecorded \in BOOLEAN
        /\ budget \in [clicks : Nat, faults : Nat] /\ 0 < row.rev
    BY DEF IInv, Typed
  <1>2. CASE RunStep
    BY <1>2, RunStepKeeps
  <1>3. CASE RunFailsUnrecorded
    BY <1>3, RunFailsUnrecordedKeeps
  <1>4. CASE AnswerGet
    <2> DEFINE got == IF unrecorded THEN Failure("unrecorded")
                      ELSE [status |-> row.status, rev |-> row.rev, error |-> "none"]
    <2>1. calls # <<>> /\ Answered(got) /\ UNCHANGED <<main, screen, budget>>
      BY <1>4 DEF AnswerGet
    <2>2. got \in Entries /\ Known(got) /\ (got.error = "none" => got.status # "none")
      <3>1. CASE unrecorded
        BY <3>1, FailureFacts
      <3>2. CASE ~unrecorded
        <4> DEFINE e == [status |-> row.status, rev |-> row.rev, error |-> "none"]
        <4>1. e \in Entries /\ e.status = row.status /\ e.rev = row.rev /\ e.status # "none"
          BY <1>1 DEF Entries, Statuses, Live, Resumable
        <4> HIDE DEF e
        <4>2. Known(e)
          BY <4>1, <1>1 DEF Known
        <4>3. got = e
          BY <3>2 DEF e
        <4> QED BY <4>1, <4>2, <4>3
      <3> QED BY <3>1, <3>2
    <2> HIDE DEF got
    <2>3. PICK g \in Entries : g = got
      BY <2>2
    <2>4. Known(g) /\ (g.error = "none" => g.status # "none") /\ Answered(g)
      BY <2>1, <2>2, <2>3
    <2> QED BY <1>1, <2>1, <2>4, AnsweredKeeps DEF main
  <1>5. CASE AnswerAnalyze
    <2>1. calls # <<>> /\ Answered(Nothing) /\ UNCHANGED <<row, screen, budget>>
          /\ Head(calls).kind = "analyze"
      BY <1>5 DEF AnswerAnalyze
    <2>2. Nothing \in Entries /\ Known(Nothing)
      <3>1. Nothing \in Entries /\ Nothing.status = "none"
        BY DEF Nothing, Entries
      <3> QED BY <3>1 DEF Known
    <2>3. unrecorded' \in BOOLEAN /\ (run' = run \/ (run = "off" /\ run' = "deferred"))
      BY <1>1, <1>5 DEF AnswerAnalyze
    <2> QED BY <1>1, <2>1, <2>2, <2>3, AnsweredKeeps
  <1>6. CASE AnswerFails
    <2>1. calls # <<>> /\ Answered(Failure("other")) /\ UNCHANGED <<main, screen>>
          /\ Spent("faults")
      BY <1>6 DEF AnswerFails
    <2>2. (budget \in [clicks : Nat, faults : Nat])'
      BY <1>1, <2>1, SpentFacts
    <2>3. Failure("other") \in Entries /\ Known(Failure("other")) /\ Failure("other").error = "other"
      BY FailureFacts
    <2> QED BY <1>1, <2>1, <2>2, <2>3, AnsweredKeeps DEF main
  <1> QED BY <1>2, <1>3, <1>4, <1>5, <1>6 DEF MainStep

-----------------------------------------------------------------------------
(* The steps of the renderer                                               *)

\* A read is answered only while the loop reads, on a selected Document.
LEMMA ReadAnswered ==
    ASSUME IInv, answers # <<>>, Head(answers).kind = "get"
    PROVE  /\ selected /\ poll.state = "reading"
           /\ NoGet(calls) /\ NoGet(Tail(answers))
           /\ Tail(answers) \in Seq(Replies) /\ AnswersKnown(Tail(answers))
           /\ Head(answers).got \in Entries /\ Known(Head(answers).got)
           /\ Head(answers).got.error = "none" => Head(answers).got.status # "none"
  <1>1. answers \in Seq(Replies) /\ AnswersKnown(answers) /\ Traffic(poll.state, calls, answers)
        /\ (~selected => poll.state = "idle") /\ selected \in BOOLEAN
    BY DEF IInv, Typed
  <1>2. /\ NoGet(answers) => Head(answers).kind # "get"
        /\ OneGet(answers) => NoGet(Tail(answers))
        /\ Tail(answers) \in Seq(Replies) /\ Head(answers) \in Replies
    BY <1>1, TailFacts
  <1>3. poll.state = "reading" /\ NoGet(calls) /\ OneGet(answers)
    BY <1>1, <1>2 DEF Traffic
  <1>4. AnswersKnown(Tail(answers)) /\ Known(Head(answers).got)
        /\ (Head(answers).got.error = "none" => Head(answers).got.status # "none")
    BY <1>1, TailKnown
  <1> QED BY <1>1, <1>2, <1>3, <1>4 DEF Replies

LEMMA NextPollFacts ==
    ASSUME poll \in Polls, NEW status
    PROVE  /\ NextPoll(status) \in Polls /\ NextPoll(status).state \in {"timer", "idle"}
           /\ (ui.window /\ status \in Statuses \ {"READY"}) => NextPoll(status).state = "timer"
  <1> DEFINE s == IF StillBusy(status) THEN "timer" ELSE "idle"
  <1>1. s \in {"timer", "idle"}
    OBVIOUS
  <1>2. (ui.window /\ status \in Statuses \ {"READY"}) => s = "timer"
    BY DEF StillBusy, Statuses, Live, Resumable
  <1> HIDE DEF s
  <1>3. NextPoll(status) = [poll EXCEPT !.state = s]
    BY Zenon DEF NextPoll, s
  <1> QED BY <1>1, <1>2, <1>3 DEF Polls

LEMMA ReadSucceedsKeeps ==
    ASSUME IInv, ReadSucceeds
    PROVE  IInv'
  <1>1. answers # <<>> /\ Head(answers).kind = "get" /\ Head(answers).got.error = "none"
        /\ UNCHANGED <<main, selected, budget>>
    BY DEF ReadSucceeds
  <1>2. PICK got \in Entries : got = Head(answers).got
    BY <1>1, ReadAnswered
  <1>3. PICK inbox \in Seq(Replies) : inbox = Tail(answers)
    BY <1>1, ReadAnswered
  <1>4. /\ selected /\ NoGet(calls) /\ NoGet(inbox) /\ AnswersKnown(inbox)
        /\ Known(got) /\ got.status # "none" /\ got.status \in Statuses
    BY <1>1, <1>2, <1>3, ReadAnswered DEF Entries
  <1>5. /\ ui \in Screens /\ Shown(ui) /\ poll \in Polls /\ ui.window \in BOOLEAN
        /\ budget \in [clicks : Nat, faults : Nat] /\ 0 < row.rev /\ row.rev \in Nat
    BY DEF IInv, Typed, Screens
  <1>6. PICK u \in Screens : u = [ui EXCEPT !.entry = got]
    BY <1>5 DEF Screens
  <1>7. u.entry = got /\ u.processed = ui.processed /\ u.window = ui.window
        /\ u.refreshed = ui.refreshed
    BY <1>5, <1>6 DEF Screens
  <1>8. PICK next \in Polls : next = NextPoll(got.status)
    BY <1>5, NextPollFacts
  <1>9. next.state \in {"timer", "idle"}
        /\ ((ui.window /\ got.status # "READY") => next.state = "timer")
    BY <1>4, <1>5, <1>8, NextPollFacts
  <1>10. Traffic(next.state, calls, inbox)
    BY <1>4, <1>9 DEF Traffic
  <1>11. PICK o \in Screens : o = Observed(u)
    BY ObservedFacts
  <1>12. Shown(o)
    <2>1. Known(u.entry) /\ u.processed <= row.rev
          /\ (u.window => ~(row.status = "READY" /\ u.processed = row.rev))
      BY <1>4, <1>5, <1>7 DEF Shown
    <2> QED BY <1>5, <1>11, <2>1, ObservedShown
  <1>13. o.entry = got /\ (o.window => ui.window)
    BY <1>7, <1>11, ObservedFacts
  <1>14. Snapshot(u, FALSE, next)
    BY <1>2, <1>6, <1>8 DEF ReadSucceeds
  <1>15. selected' \in BOOLEAN /\ selected' /\ (budget \in [clicks : Nat, faults : Nat])'
    BY <1>1, <1>4, <1>5 DEF IInv, Typed
  <1>16. CASE Resumes(u)
    <2>1. PICK p \in Screens : p = [o EXCEPT !.resumed = TRUE]
      BY DEF Screens
    <2>2. p.entry = got
      BY <1>13, <2>1 DEF Screens
    <2>3. PICK s \in Screens : s = Scheduled(p)
      BY ScheduledFacts
    <2>4. got.status # "READY" /\ ui.window = FALSE
      BY <1>5, <1>7, <1>16 DEF Resumes, Resumable
    <2>5. Known(p.entry) /\ p.entry.status # "READY"
      BY <1>4, <2>2, <2>4
    <2>6. Shown(s) /\ s.window = TRUE
      BY <1>5, <2>3, <2>5, ScheduledShown, ScheduledFacts
    <2>7. Rendered(s, TRUE, FALSE, inbox, next)
      BY <1>3, <1>11, <1>14, <1>16, <2>1, <2>3 DEF Snapshot
    <2> QED BY <1>1, <1>4, <1>10, <1>15, <2>4, <2>6, <2>7, RenderedKeeps
  <1>17. CASE ~Resumes(u)
    <2>1. PICK refresh \in BOOLEAN : refresh = (FALSE \/ o.refreshed # u.refreshed)
      OBVIOUS
    <2>2. Rendered(o, FALSE, refresh, inbox, next)
      <3>1. Rendered(Observed(u), FALSE, FALSE \/ Observed(u).refreshed # u.refreshed,
                     Tail(answers), next)
        BY <1>14, <1>17 DEF Snapshot
      <3>2. refresh = (FALSE \/ Observed(u).refreshed # u.refreshed)
        BY <1>11, <2>1, Zenon
      <3> QED BY <1>3, <1>11, <3>1, <3>2, Zenon
    <2>3. o.window => got.status # "READY"
      BY <1>12, <1>13 DEF Shown
    <2>4. (o.window = ui.window /\ o.window) => next.state # "idle"
      BY <1>9, <2>3
    <2> QED BY <1>1, <1>4, <1>10, <1>12, <1>15, <2>2, <2>4, RenderedKeeps
  <1> QED BY <1>16, <1>17

LEMMA ReadTellsUnrecordedKeeps ==
    ASSUME IInv, ReadTellsUnrecorded
    PROVE  IInv'
  <1>1. answers # <<>> /\ Head(answers).kind = "get" /\ UNCHANGED <<main, selected, budget>>
    BY DEF ReadTellsUnrecorded
  <1>2. PICK inbox \in Seq(Replies) : inbox = Tail(answers)
    BY <1>1, ReadAnswered
  <1>3. selected /\ NoGet(calls) /\ NoGet(inbox) /\ AnswersKnown(inbox)
    BY <1>1, <1>2, ReadAnswered
  <1>4. /\ ui \in Screens /\ Shown(ui) /\ selected \in BOOLEAN
        /\ budget \in [clicks : Nat, faults : Nat]
    BY DEF IInv, Typed
  <1>5. ui.entry \in Entries
    BY <1>4 DEF Screens
  <1>6. PICK u : u = [ui EXCEPT !.entry.error = "unrecorded", !.window = FALSE]
    OBVIOUS
  <1>7. /\ u \in Screens /\ u.window = FALSE /\ u.processed = ui.processed
        /\ u.entry.status = ui.entry.status /\ u.entry.rev = ui.entry.rev
    BY <1>4, <1>5, <1>6 DEF Screens, Entries
  <1>8. Shown(u)
    BY <1>4, <1>7 DEF Shown, Known
  <1>9. Stopped \in Polls /\ Stopped.state = "idle"
    BY Bounds DEF Stopped, Polls
  <1>10. Rendered(u, FALSE, FALSE, inbox, Stopped)
    BY <1>2, <1>6 DEF ReadTellsUnrecorded
  <1>11. Traffic(Stopped.state, calls, inbox)
    BY <1>3, <1>9 DEF Traffic
  <1> QED BY <1>1, <1>3, <1>4, <1>7, <1>8, <1>9, <1>10, <1>11, RenderedKeeps

LEMMA ReadFailsKeeps ==
    ASSUME IInv, ReadFails
    PROVE  IInv'
  <1>1. answers # <<>> /\ Head(answers).kind = "get" /\ UNCHANGED <<main, selected, budget>>
    BY DEF ReadFails
  <1>2. PICK inbox \in Seq(Replies) : inbox = Tail(answers)
    BY <1>1, ReadAnswered
  <1>3. selected /\ NoGet(calls) /\ NoGet(inbox) /\ AnswersKnown(inbox)
    BY <1>1, <1>2, ReadAnswered
  <1>4. /\ ui \in Screens /\ Shown(ui) /\ selected \in BOOLEAN /\ poll \in Polls
        /\ budget \in [clicks : Nat, faults : Nat]
    BY DEF IInv, Typed
  <1>5. ui.entry \in Entries
    BY <1>4 DEF Screens
  <1>6. PICK u : u = [ui EXCEPT !.entry.error = "other"]
    OBVIOUS
  <1>7. /\ u \in Screens /\ u.window = ui.window /\ u.processed = ui.processed
        /\ u.entry.status = ui.entry.status /\ u.entry.rev = ui.entry.rev
    BY <1>4, <1>5, <1>6 DEF Screens, Entries
  <1>8. Shown(u)
    BY <1>4, <1>7 DEF Shown, Known
  <1> DEFINE reads == IF poll.failedReads > FirstReads THEN poll.failedReads
                      ELSE poll.failedReads + 1
             state == IF ui.window \/ reads <= FirstReads THEN "timer" ELSE "idle"
             first == [state |-> state, failedReads |-> reads]
             goesOn == IF ui.entry.status # "none" THEN NextPoll(ui.entry.status) ELSE first
  <1>9. first \in Polls /\ first.state \in {"timer", "idle"} /\ (ui.window => first.state = "timer")
    <2>1. poll.failedReads \in 0..(FirstReads + 1) /\ FirstReads \in Nat
      BY <1>4, Bounds DEF Polls
    <2>2. reads \in 0..(FirstReads + 1)
      BY <2>1
    <2>3. state \in {"timer", "idle"} /\ (ui.window => state = "timer")
      OBVIOUS
    <2> HIDE DEF reads, state
    <2> QED BY <2>2, <2>3 DEF Polls
  <1>10. ui.entry.status \in Statuses \cup {"none"} /\ (ui.window => ui.entry.status # "READY")
    BY <1>4, <1>5 DEF Entries, Shown
  <1>11. /\ goesOn \in Polls /\ goesOn.state \in {"timer", "idle"}
         /\ ui.window => goesOn.state = "timer"
    <2>1. CASE ui.entry.status # "none"
      <3>1. goesOn = NextPoll(ui.entry.status)
        BY <2>1
      <3> QED BY <1>4, <1>10, <2>1, <3>1, NextPollFacts
    <2>2. CASE ui.entry.status = "none"
      BY <1>9, <2>2
    <2> QED BY <2>1, <2>2
  <1>12. Rendered(u, FALSE, FALSE, inbox, goesOn)
    BY <1>2, <1>6 DEF ReadFails
  <1> HIDE DEF goesOn
  <1>13. PICK next \in Polls : next = goesOn
    BY <1>11
  <1>14. Traffic(next.state, calls, inbox)
    BY <1>3, <1>11, <1>13 DEF Traffic
  <1> QED BY <1>1, <1>3, <1>4, <1>7, <1>8, <1>11, <1>12, <1>13, <1>14, RenderedKeeps

LEMMA TimerFiresKeeps ==
    ASSUME IInv, TimerFires
    PROVE  IInv'
  <1>1. /\ Typed /\ calls \in Seq(Requests) /\ poll \in Polls
        /\ Traffic(poll.state, calls, answers) /\ poll.state = "timer"
        /\ AnswersKnown(answers) /\ Shown(ui)
    BY DEF IInv, Typed, TimerFires
  <1>2. NoGet(calls) /\ NoGet(answers)
    BY <1>1 DEF Traffic
  <1>3. calls' \in Seq(Requests) /\ OneGet(calls')
    BY <1>1, <1>2, SendFacts DEF TimerFires, Kinds
  <1>4. poll' \in Polls /\ poll'.state = "reading"
    BY <1>1 DEF TimerFires, Polls
  <1>5. row' = row /\ run' = run /\ unrecorded' = unrecorded /\ answers' = answers
        /\ selected' = selected /\ ui' = ui /\ budget' = budget
    BY DEF TimerFires, main
  <1>6. Typed'
    BY <1>1, <1>3, <1>4, <1>5 DEF Typed
  <1>7. AnswersKnown(answers)' /\ Shown(ui)'
    BY <1>1, <1>5 DEF AnswersKnown, Shown, Known
  <1>8. Traffic(poll.state, calls, answers)'
    BY <1>2, <1>3, <1>4, <1>5 DEF Traffic, OneGet, NoGet
  <1>9. (~selected => poll.state = "idle")'
    BY <1>1, <1>5 DEF IInv
  <1> QED BY <1>4, <1>5, <1>6, <1>7, <1>8, <1>9 DEF IInv

LEMMA ScheduleSettlesKeeps ==
    ASSUME IInv, ScheduleSettles
    PROVE  IInv'
  <1>1. answers # <<>> /\ Head(answers).kind = "analyze" /\ UNCHANGED <<main, selected, budget>>
    BY DEF ScheduleSettles
  <1>2. /\ ui \in Screens /\ Shown(ui) /\ selected \in BOOLEAN /\ poll \in Polls
        /\ answers \in Seq(Replies) /\ AnswersKnown(answers)
        /\ Traffic(poll.state, calls, answers)
        /\ budget \in [clicks : Nat, faults : Nat]
        /\ ((selected /\ ui.window) => poll.state # "idle") /\ (~selected => poll.state = "idle")
    BY DEF IInv, Typed
  <1>3. PICK inbox \in Seq(Replies) : inbox = Tail(answers)
    BY <1>1, <1>2, TailFacts
  <1>4. AnswersKnown(inbox)
    BY <1>1, <1>2, <1>3, TailKnown
  <1>5. NoGet(answers) => NoGet(inbox)
    BY <1>1, <1>2, <1>3, TailFacts
  <1>6. OneGet(answers) => OneGet(inbox)
    BY <1>1, <1>2, <1>3, TailFacts
  <1>7. Traffic(poll.state, calls, inbox)
    BY <1>2, <1>5, <1>6 DEF Traffic
  <1>8. PICK next \in Polls : next = poll
    BY <1>2
  <1>9. CASE ~Head(answers).latest
    <2>1. Rendered(ui, FALSE, FALSE, inbox, poll)
      BY <1>3, <1>9 DEF ScheduleSettles
    <2>2. PICK u \in Screens : u = ui
      BY <1>2
    <2>3. Rendered(u, FALSE, FALSE, inbox, next)
      BY <1>8, <2>1, <2>2
    <2> QED BY <1>1, <1>2, <1>4, <1>7, <1>8, <2>2, <2>3, RenderedKeeps
  <1>10. CASE Head(answers).latest
    <2> DEFINE refused == Head(answers).got.error # "none"
               w == ui.window /\ ~refused
               r == ui.resumed /\ ~refused
    <2>1. Rendered([ui EXCEPT !.pending = FALSE, !.failed = refused, !.window = w, !.resumed = r],
                   FALSE, ~refused, inbox, poll)
      BY <1>3, <1>10 DEF ScheduleSettles
    <2>2. PICK f \in BOOLEAN : f = refused
      OBVIOUS
    <2>3. PICK v \in BOOLEAN : v = w
      OBVIOUS
    <2>4. PICK x \in BOOLEAN : x = r
      OBVIOUS
    <2>5. PICK u : u = [ui EXCEPT !.pending = FALSE, !.failed = f, !.window = v, !.resumed = x]
      OBVIOUS
    <2>6. u \in Screens /\ u.entry = ui.entry /\ u.processed = ui.processed /\ u.window = v
      BY <1>2, <2>5 DEF Screens
    <2>7. v => ui.window
      BY <2>3
    <2>8. Shown(u)
      BY <1>2, <2>6, <2>7 DEF Shown, Known
    <2>9. Rendered(u, FALSE, ~f, inbox, next)
      BY <1>8, <2>1, <2>2, <2>3, <2>4, <2>5
    <2> QED BY <1>1, <1>2, <1>4, <1>7, <1>8, <2>6, <2>7, <2>8, <2>9, RenderedKeeps
  <1> QED BY <1>9, <1>10

-----------------------------------------------------------------------------
(* The user                                                                *)

LEMMA RetryKeeps ==
    ASSUME IInv, Retry
    PROVE  IInv'
  <1>1. RetryOffered /\ Spent("clicks") /\ UNCHANGED <<main, selected>>
        /\ Rendered(Scheduled(ui), TRUE, FALSE, answers, poll)
    BY DEF Retry
  <1>2. /\ ui \in Screens /\ Shown(ui) /\ selected \in BOOLEAN /\ poll \in Polls
        /\ answers \in Seq(Replies) /\ AnswersKnown(answers)
        /\ budget \in [clicks : Nat, faults : Nat] /\ 0 < row.rev /\ row.rev \in Nat
    BY DEF IInv, Typed
  <1>3. (budget \in [clicks : Nat, faults : Nat])'
    BY <1>1, <1>2, SpentFacts
  <1>4. selected /\ ui.entry.status # "READY" /\ ui.window = FALSE
    BY <1>1, <1>2 DEF RetryOffered, Screens
  <1>5. PICK v \in Screens : v = ui
    BY <1>2
  <1>6. PICK u \in Screens : u = Scheduled(v)
    BY ScheduledFacts
  <1>7. u.window = TRUE /\ Shown(u)
    <2>1. Known(v.entry) /\ v.entry.status # "READY"
      BY <1>2, <1>4, <1>5 DEF Shown
    <2> QED BY <1>2, <1>6, <2>1, ScheduledFacts, ScheduledShown
  <1>8. PICK next \in Polls : next = poll
    BY <1>2
  <1>9. PICK inbox \in Seq(Replies) : inbox = answers
    BY <1>2
  <1>10. Rendered(u, TRUE, FALSE, inbox, next)
    BY <1>1, <1>5, <1>6, <1>8, <1>9
  <1>11. AnswersKnown(inbox) /\ u.window # ui.window
    BY <1>2, <1>4, <1>7, <1>9
  <1> QED BY <1>1, <1>2, <1>3, <1>4, <1>7, <1>10, <1>11, RenderedKeeps

LEMMA LeaveKeeps ==
    ASSUME IInv, Leave
    PROVE  IInv'
  <1>1. /\ Spent("clicks") /\ selected' = FALSE /\ poll' = Stopped
        /\ calls' = WithoutGets(calls) /\ answers' = WithoutGets(answers)
        /\ row' = row /\ run' = run /\ unrecorded' = unrecorded
    BY DEF Leave, main
  <1>2. /\ Typed /\ ui \in Screens /\ Shown(ui) /\ calls \in Seq(Requests)
        /\ answers \in Seq(Replies) /\ AnswersKnown(answers)
        /\ budget \in [clicks : Nat, faults : Nat] /\ 0 < row.rev
    BY DEF IInv, Typed
  <1>3. (budget \in [clicks : Nat, faults : Nat])'
    BY <1>1, <1>2, SpentFacts
  <1>4. calls' \in Seq(Requests) /\ NoGet(calls')
    BY <1>1, <1>2, WithoutGetsFacts
  <1>5. answers' \in Seq(Replies) /\ NoGet(answers') /\ AnswersKnown(answers')
    <2>1. \A i \in DOMAIN answers' : \E j \in DOMAIN answers : answers'[i] = answers[j]
      BY <1>1, <1>2, WithoutGetsFacts
    <2>2. AnswersKnown(answers')
      BY <1>2, <2>1 DEF AnswersKnown
    <2> QED BY <1>1, <1>2, <2>2, WithoutGetsFacts
  <1>6. PICK kept \in {ui.entry, Nothing} : ui' = [ui EXCEPT !.entry = kept]
    BY DEF Leave
  <1>7. /\ kept \in Entries /\ Known(kept)
        /\ ui.window => kept.status # "READY"
    <2>1. Nothing \in Entries /\ Nothing.status = "none"
      BY DEF Nothing, Entries
    <2> QED BY <1>2, <1>6, <2>1 DEF Shown, Known, Screens
  <1>8. ui' \in Screens /\ ui'.entry = kept /\ ui'.window = ui.window
        /\ ui'.processed = ui.processed
    BY <1>2, <1>6, <1>7 DEF Screens
  <1>9. Shown(ui)'
    BY <1>1, <1>2, <1>7, <1>8 DEF Shown, Known
  <1>10. Stopped \in Polls /\ Stopped.state = "idle"
    BY Bounds DEF Stopped, Polls
  <1>11. Typed'
    BY <1>1, <1>2, <1>3, <1>4, <1>5, <1>8, <1>10 DEF Typed
  <1>12. AnswersKnown(answers)'
    BY <1>1, <1>5 DEF AnswersKnown, Known
  <1>13. Traffic(poll.state, calls, answers)'
    BY <1>1, <1>4, <1>5, <1>10 DEF Traffic, NoGet
  <1>14. (0 < row.rev /\ (row.status = "READY" => run \in {"off", "deferred"}))'
    BY <1>1 DEF IInv
  <1> QED BY <1>1, <1>9, <1>10, <1>11, <1>12, <1>13, <1>14 DEF IInv

LEMMA ReturnKeeps ==
    ASSUME IInv, Return
    PROVE  IInv'
  <1>1. Spent("clicks") /\ selected' = TRUE /\ UNCHANGED main
    BY DEF Return
  <1>2. /\ ui \in Screens /\ Shown(ui) /\ poll \in Polls
        /\ answers \in Seq(Replies) /\ AnswersKnown(answers)
        /\ budget \in [clicks : Nat, faults : Nat] /\ 0 < row.rev /\ row.rev \in Nat
    BY DEF IInv, Typed
  <1>3. (budget \in [clicks : Nat, faults : Nat])'
    BY <1>1, <1>2, SpentFacts
  <1>4. PICK next \in Polls : next = poll
    BY <1>2
  <1>5. PICK inbox \in Seq(Replies) : inbox = answers
    BY <1>2
  <1>6. AnswersKnown(inbox)
    BY <1>2, <1>5
  <1>7. PICK u : u = IF ui.entry.error = "unrecorded" THEN [ui EXCEPT !.window = FALSE] ELSE ui
    OBVIOUS
  <1>8. u \in Screens /\ u.entry = ui.entry /\ u.processed = ui.processed
        /\ (u.window => ui.window)
    BY <1>2, <1>7 DEF Screens
  <1>9. PICK o \in Screens : o = Observed(u)
    BY <1>8, ObservedFacts
  <1>10. o.entry = ui.entry /\ Shown(o)
    <2>1. Known(u.entry) /\ u.processed <= row.rev
          /\ (u.window => ~(row.status = "READY" /\ u.processed = row.rev))
      BY <1>2, <1>8 DEF Shown
    <2>2. Shown(o)
      BY <1>2, <1>8, <1>9, <2>1, ObservedShown
    <2> QED BY <1>8, <1>9, <2>2, ObservedFacts
  <1>11. CASE Resumes(ui)
    <2>1. PICK p \in Screens : p = [o EXCEPT !.resumed = TRUE]
      BY DEF Screens
    <2>2. p.entry = ui.entry /\ ui.entry.status # "READY"
      BY <1>10, <1>11, <2>1 DEF Screens, Resumes, Resumable
    <2>3. PICK s \in Screens : s = Scheduled(p)
      BY ScheduledFacts
    <2>4. Shown(s)
      <3>1. Known(p.entry) /\ p.entry.status # "READY"
        BY <1>2, <2>2 DEF Shown
      <3> QED BY <1>2, <2>3, <3>1, ScheduledShown
    <2>5. Rendered(s, TRUE, TRUE, inbox, next)
      BY <1>4, <1>5, <1>7, <1>9, <1>11, <2>1, <2>3 DEF Return
    <2> QED BY <1>1, <1>3, <1>6, <2>4, <2>5, RenderedKeeps
  <1>12. CASE ~Resumes(ui)
    <2>1. Rendered(o, FALSE, TRUE, inbox, next)
      BY <1>4, <1>5, <1>7, <1>9, <1>12 DEF Return
    <2> QED BY <1>1, <1>3, <1>6, <1>10, <2>1, RenderedKeeps
  <1> QED BY <1>11, <1>12

LEMMA RefreshKeeps ==
    ASSUME IInv, Refresh
    PROVE  IInv'
  <1>1. selected /\ Spent("clicks") /\ UNCHANGED <<main, selected>>
        /\ Rendered(ui, FALSE, TRUE, answers, poll)
    BY DEF Refresh
  <1>2. /\ ui \in Screens /\ Shown(ui) /\ poll \in Polls /\ selected \in BOOLEAN
        /\ answers \in Seq(Replies) /\ AnswersKnown(answers)
        /\ budget \in [clicks : Nat, faults : Nat]
    BY DEF IInv, Typed
  <1>3. (budget \in [clicks : Nat, faults : Nat])'
    BY <1>1, <1>2, SpentFacts
  <1>4. PICK next \in Polls : next = poll
    BY <1>2
  <1>5. PICK inbox \in Seq(Replies) : inbox = answers
    BY <1>2
  <1>6. PICK u \in Screens : u = ui
    BY <1>2
  <1>7. Rendered(u, FALSE, TRUE, inbox, next) /\ Shown(u) /\ AnswersKnown(inbox)
    BY <1>1, <1>2, <1>4, <1>5, <1>6
  <1> QED BY <1>1, <1>2, <1>3, <1>7, RenderedKeeps

-----------------------------------------------------------------------------
(* The theorems                                                            *)

LEMMA InitIInv == ASSUME Init PROVE IInv
  <1> DEFINE c == [kind |-> "get", latest |-> TRUE]
  <1>1. c \in Requests /\ c.kind = "get"
    BY DEF Requests, Kinds
  <1>2. calls = <<c>> /\ answers = <<>>
    BY DEF Init
  <1> HIDE DEF c
  <1>3. calls \in Seq(Requests) /\ DOMAIN calls = {1} /\ calls[1] = c
    BY <1>1, <1>2
  <1>4. OneGet(calls)
    BY <1>1, <1>3 DEF OneGet
  <1>5. answers \in Seq(Replies) /\ DOMAIN answers = {}
    BY <1>2
  <1>6. NoGet(answers) /\ AnswersKnown(answers)
    BY <1>5 DEF NoGet, AnswersKnown
  <1>7. Nothing \in Entries /\ Nothing.status = "none"
    BY DEF Nothing, Entries
  <1>8. ui \in Screens /\ ui.entry = Nothing /\ ui.window = FALSE /\ ui.processed = 0
    BY <1>7 DEF Init, Blank, Screens
  <1>9. /\ row \in [status : Statuses, parsed : BOOLEAN, rev : Nat]
        /\ row.rev = 1 /\ row.status # "READY"
    <2>1. PICK status \in {"IMPORTED", "PARSED", "FAILED"}, parsed \in BOOLEAN :
            row = [status |-> status, parsed |-> parsed, rev |-> 1]
      BY DEF Init
    <2>2. status \in Statuses /\ status # "READY"
      BY DEF Statuses, Resumable
    <2> QED BY <2>1, <2>2
  <1>10. poll \in Polls /\ poll.state = "reading"
    BY Bounds DEF Init, FirstRead, Polls
  <1>11. /\ run \in {"off", "deferred"} /\ unrecorded \in BOOLEAN /\ selected = TRUE
         /\ budget \in [clicks : Nat, faults : Nat]
    BY Bounds DEF Init
  <1>12. Shown(ui)
    BY <1>7, <1>8, <1>9 DEF Shown, Known
  <1>13. Typed
    BY <1>3, <1>5, <1>8, <1>9, <1>10, <1>11 DEF Typed
  <1>14. Traffic(poll.state, calls, answers)
    BY <1>4, <1>6, <1>10 DEF Traffic
  <1> QED BY <1>6, <1>9, <1>10, <1>11, <1>12, <1>13, <1>14 DEF IInv

LEMMA StepIInv == ASSUME IInv, [Next]_vars PROVE IInv'
  <1>1. CASE MainStep
    BY <1>1, MainStepKeeps
  <1>2. CASE RendererStep
    BY <1>2, ReadSucceedsKeeps, ReadTellsUnrecordedKeeps, ReadFailsKeeps, TimerFiresKeeps,
       ScheduleSettlesKeeps DEF RendererStep
  <1>3. CASE UserStep
    BY <1>3, RetryKeeps, LeaveKeeps, ReturnKeeps, RefreshKeeps DEF UserStep
  <1>4. CASE UNCHANGED vars
    <2>1. row' = row /\ run' = run /\ unrecorded' = unrecorded /\ calls' = calls
          /\ answers' = answers /\ selected' = selected /\ ui' = ui /\ poll' = poll
          /\ budget' = budget
      BY <1>4 DEF vars
    <2>2. Typed'
      BY <2>1 DEF IInv, Typed
    <2>3. AnswersKnown(answers)' /\ Shown(ui)'
      BY <2>1 DEF IInv, AnswersKnown, Shown, Known
    <2>4. Traffic(poll.state, calls, answers)'
      BY <2>1 DEF IInv, Traffic, OneGet, NoGet
    <2> QED BY <2>1, <2>2, <2>3, <2>4 DEF IInv
  <1> QED BY <1>1, <1>2, <1>3, <1>4 DEF Next

\* The invariant of both sides of the process boundary, with the order of the
\* revisions a screen has seen.
THEOREM Inductive == Spec => []IInv
  <1>1. Init => IInv
    BY InitIInv
  <1>2. IInv /\ [Next]_vars => IInv'
    BY StepIInv
  <1> QED BY <1>1, <1>2, PTL DEF Spec

\* One read on its way is one position of the traffic.
LEMMA TrafficPositions ==
    ASSUME NEW sent \in Seq(Requests), NEW back \in Seq(Replies)
    PROVE  LET traffic == sent \o back
               reads == {i \in DOMAIN traffic : traffic[i].kind = "get"}
           IN  /\ NoGet(sent) /\ NoGet(back) => reads = {}
               /\ OneGet(sent) /\ NoGet(back) => Cardinality(reads) = 1
               /\ NoGet(sent) /\ OneGet(back) => Cardinality(reads) = 1
  <1> DEFINE traffic == sent \o back
             reads == {i \in DOMAIN traffic : traffic[i].kind = "get"}
             n == Len(sent)
  <1>1. /\ n \in Nat /\ DOMAIN sent = 1..n /\ DOMAIN back = 1..Len(back) /\ Len(back) \in Nat
        /\ DOMAIN traffic = 1..(n + Len(back))
        /\ \A i \in 1..n : traffic[i] = sent[i]
        /\ \A i \in 1..Len(back) : traffic[n + i] = back[i]
    OBVIOUS
  <1> HIDE DEF traffic, n
  <1>2. \A i \in DOMAIN traffic :
            \/ i \in DOMAIN sent /\ traffic[i] = sent[i]
            \/ i - n \in DOMAIN back /\ traffic[i] = back[i - n]
    <2> TAKE i \in DOMAIN traffic
    <2>1. CASE i <= n
      BY <1>1, <2>1
    <2>2. CASE ~(i <= n)
      <3>1. i - n \in 1..Len(back) /\ n + (i - n) = i
        BY <1>1, <2>2
      <3> QED BY <1>1, <3>1
    <2> QED BY <2>1, <2>2
  <1>3. ASSUME NoGet(sent), NoGet(back) PROVE reads = {}
    BY <1>2, <1>3 DEF NoGet
  <1>4. ASSUME NEW g, reads = {g} PROVE Cardinality(reads) = 1
    BY <1>4, FS_Singleton
  <1>5. ASSUME OneGet(sent), NoGet(back) PROVE Cardinality(reads) = 1
    <2>1. PICK g \in DOMAIN sent :
            sent[g].kind = "get" /\ \A j \in DOMAIN sent : sent[j].kind = "get" => j = g
      BY <1>5 DEF OneGet
    <2>2. g \in reads
      BY <1>1, <2>1
    <2>3. \A i \in reads : i = g
      BY <1>2, <1>5, <2>1 DEF NoGet
    <2>4. reads = {g}
      BY <2>2, <2>3
    <2> QED BY <1>4, <2>4
  <1>6. ASSUME NoGet(sent), OneGet(back) PROVE Cardinality(reads) = 1
    <2>1. PICK g \in DOMAIN back :
            back[g].kind = "get" /\ \A j \in DOMAIN back : back[j].kind = "get" => j = g
      BY <1>6 DEF OneGet
    <2>2. n + g \in DOMAIN traffic /\ traffic[n + g] = back[g]
      BY <1>1, <2>1
    <2>3. \A i \in reads : i = n + g
      <3> TAKE i \in reads
      <3>1. i \in DOMAIN traffic /\ i \in Nat /\ g \in Nat /\ n \in Nat
        BY <1>1, <2>1
      <3>2. i - n = g
        BY <1>2, <1>6, <2>1, <3>1 DEF NoGet
      <3> QED BY <3>1, <3>2
    <2>4. reads = {n + g}
      BY <2>1, <2>2, <2>3
    <2> QED BY <1>4, <2>4
  <1> QED BY <1>3, <1>5, <1>6 DEF traffic

\* While the analysis window of a selected Document is open, the polling loop of
\* useDocumentStatus is alive and there is one: it has its timer, or one read is
\* under way.
THEOREM WindowWatched == Spec => []WindowIsWatched
  <1>1. ASSUME IInv PROVE WindowIsWatched
    <2> DEFINE traffic == calls \o answers
               reads == {i \in DOMAIN traffic : traffic[i].kind = "get"}
    <2> SUFFICES ASSUME selected, ui.window
                 PROVE \/ poll.state = "timer" /\ reads = {}
                       \/ poll.state = "reading" /\ Cardinality(reads) = 1
      BY DEF WindowIsWatched
    <2>1. calls \in Seq(Requests) /\ answers \in Seq(Replies)
          /\ poll.state \in {"reading", "timer"} /\ Traffic(poll.state, calls, answers)
      BY <1>1 DEF IInv, Typed, Polls
    <2>2. /\ NoGet(calls) /\ NoGet(answers) => reads = {}
          /\ OneGet(calls) /\ NoGet(answers) => Cardinality(reads) = 1
          /\ NoGet(calls) /\ OneGet(answers) => Cardinality(reads) = 1
      BY <2>1, TrafficPositions
    <2> HIDE DEF reads
    <2> QED BY <2>1, <2>2 DEF Traffic
  <1>2. IInv => WindowIsWatched
    BY <1>1
  <1> QED BY <1>2, Inductive, PTL

=============================================================================
