------------------------ MODULE ProviderSettingsProof ------------------------
(***************************************************************************)
(* Proofs about ProviderSettings, for any URLs, keys and keychains, any    *)
(* number of requests and any failures, crashes and changes around them.   *)
(***************************************************************************)
EXTENDS ProviderSettings, TLAPS

-----------------------------------------------------------------------------
(* The invariant                                                           *)

Files == {NoFile, MockFile, Corrupt} \cup OpenAiFiles

Requests ==
    [kind : {"openai", "mock", "clear"}, baseUrl : Urls \cup {"none"},
     key : Keys \cup {NoKey}, phase : {"queued", "writing", "stored"} \cup Ended,
     contents : Files, stored : BOOLEAN]

RequestsTyped == requests \in Seq(Requests)

\* Requests take turns: whoever has begun has only ended ones before it.
OneAtATime ==
    \A i, j \in DOMAIN requests :
        (i < j /\ requests[j].phase /= "queued") => requests[i].phase \in Ended

\* What a request writes, from the moment it has begun.
Written(r) ==
    /\ r.stored => r.phase \in {"stored", "done", "lost"}
    /\ r.phase \in {"stored", "done"} => r.stored
    /\ (r.stored \/ r.phase = "writing") =>
          IF r.kind = "openai"
          THEN r.contents \in OpenAiFiles /\ r.contents.baseUrl \in ValidUrls
          ELSE r.contents \in {NoFile, MockFile}

Writing == \A i \in DOMAIN requests : Written(requests[i])

\* The last request that reached the file, and what has become of it since.
LastStored(i) == requests[i].stored /\ \A j \in (i + 1)..Len(requests) : ~requests[j].stored

FileFollows ==
    \A i \in DOMAIN requests : LastStored(i) =>
        \/ file = requests[i].contents
        \/ requests[i].contents.provider = "openai" /\ Damaged

\* The key of the file, of the memory and of a write under way was typed after
\* every change to Mock and every clear that is done.
TypedAfter(i, key) == \E j \in (i + 1)..Len(requests) : requests[j].key = key
Forgets(i) == requests[i].kind \in {"mock", "clear"} /\ requests[i].phase = "done"

Held(key) ==
    /\ key /= NoKey
    /\ \/ key = memory.secret.key
       \/ file.provider = "openai" /\ key = file.key
       \/ \E j \in DOMAIN requests :
             /\ requests[j].phase \in {"writing", "stored"} /\ requests[j].kind = "openai"
             /\ key = requests[j].contents.key

KeysTyped ==
    \A i \in DOMAIN requests : Forgets(i) =>
        \A key \in Keys : Held(key) => TypedAfter(i, key)

IInv ==
    /\ TypeOK /\ RequestsTyped /\ OneAtATime /\ Writing /\ FileFollows
    /\ KeysTyped /\ EndpointIsSaved /\ NoSilentMock

-----------------------------------------------------------------------------
(* The sequence of requests                                                *)

LEMMA Indices ==
    ASSUME RequestsTyped
    PROVE  /\ Len(requests) \in Nat /\ DOMAIN requests = 1..Len(requests)
           /\ \A i \in DOMAIN requests : requests[i] \in Requests
  BY DEF RequestsTyped

LEMMA Rows ==
    ASSUME NEW q \in Seq(Requests)
    PROVE  \A i \in DOMAIN q :
              /\ q[i].kind \in {"openai", "mock", "clear"}
              /\ q[i].phase \in {"queued", "writing", "stored"} \cup Ended
  <1>1. \A i \in DOMAIN q : q[i] \in Requests
    OBVIOUS
  <1> QED
    BY <1>1 DEF Requests

\* A step of a request changes that request only.
LEMMA OneChanged ==
    ASSUME RequestsTyped, NEW i \in DOMAIN requests, NEW r \in Requests,
           requests' = [requests EXCEPT ![i] = r]
    PROVE  /\ RequestsTyped' /\ Len(requests') = Len(requests)
           /\ DOMAIN requests' = DOMAIN requests
           /\ requests'[i] = r
           /\ \A j \in DOMAIN requests : j /= i => requests'[j] = requests[j]
  BY DEF RequestsTyped

LEMMA RequestAdded ==
    ASSUME RequestsTyped, NEW r \in Requests, requests' = Append(requests, r)
    PROVE  /\ RequestsTyped' /\ Len(requests') = Len(requests) + 1
           /\ DOMAIN requests' = 1..(Len(requests) + 1)
           /\ requests'[Len(requests) + 1] = r
           /\ \A j \in DOMAIN requests : requests'[j] = requests[j]
  BY DEF RequestsTyped

\* A crash loses every request that has not ended.
Lost(r) == IF r.phase \in Ended THEN r ELSE [r EXCEPT !.phase = "lost"]

LEMMA LostType == \A r \in Requests : Lost(r) \in Requests
  <1> SUFFICES ASSUME NEW r \in Requests PROVE Lost(r) \in Requests
    OBVIOUS
  <1>1. CASE r.phase \in Ended
    BY <1>1 DEF Lost
  <1>2. CASE r.phase \notin Ended
    <2>1. "lost" \in Ended
      BY DEF Ended
    <2>2. Lost(r) = [r EXCEPT !.phase = "lost"]
      BY <1>2 DEF Lost
    <2> QED
      BY <2>1, <2>2 DEF Requests
  <1> QED
    BY <1>1, <1>2

LEMMA AllLost ==
    ASSUME RequestsTyped, Crash
    PROVE  /\ RequestsTyped' /\ Len(requests') = Len(requests)
           /\ DOMAIN requests' = DOMAIN requests
           /\ \A j \in DOMAIN requests : requests'[j] = Lost(requests[j])
  <1>1. requests' = [j \in DOMAIN requests |-> Lost(requests[j])]
    BY DEF Crash, Lost
  <1> DEFINE n == Len(requests)
  <1>2. n \in Nat /\ DOMAIN requests = 1..n /\ \A i \in 1..n : requests[i] \in Requests
    BY Indices
  <1>3. requests' = [j \in 1..n |-> Lost(requests[j])]
    BY <1>1, <1>2
  <1> HIDE DEF n
  <1>4. \A i \in 1..n : requests'[i] \in Requests
    BY <1>2, <1>3, LostType
  <1>5. requests' \in [1..n -> Requests]
    BY <1>3, <1>4
  <1>6. requests' \in Seq(Requests) /\ Len(requests') = n
    BY <1>2, <1>5
  <1> QED
    BY <1>2, <1>3, <1>6 DEF n, RequestsTyped

\* The requests that the steps leave behind.
Begun(r) ==
    [r EXCEPT !.phase = IF Acceptable(r) THEN "writing" ELSE "failed",
              !.contents = IF Acceptable(r) THEN Contents(r) ELSE NoFile]
Stored(r) == [r EXCEPT !.phase = "stored", !.stored = TRUE]
Failed(r) == [r EXCEPT !.phase = "failed"]
Done(r) == [r EXCEPT !.phase = "done"]

LEMMA ContentsForm ==
    ASSUME TypeOK, NEW r \in Requests, Acceptable(r)
    PROVE  /\ Contents(r) \in Files
           /\ IF r.kind = "openai"
              THEN /\ Contents(r) \in OpenAiFiles /\ Contents(r).baseUrl \in ValidUrls
                   /\ Contents(r).key = UsedKey(r)
              ELSE Contents(r) \in {NoFile, MockFile}
  <1>1. CASE r.kind = "openai"
    <2>1. UsedKey(r) /= NoKey /\ r.baseUrl \in ValidUrls
      BY <1>1 DEF Acceptable
    <2>2. UsedKey(r) \in Keys
      BY <2>1 DEF UsedKey, TypeOK, NoSecret, Requests
    <2>3. Seal \in Keychains \cup {"plain", "missing"}
      BY DEF Seal, TypeOK
    <2>4. OpenAiFile(r.baseUrl, UsedKey(r), Seal) \in OpenAiFiles
      BY <2>1, <2>2, <2>3, BoundsAssumption DEF OpenAiFile, OpenAiFiles
    <2>5. /\ OpenAiFile(r.baseUrl, UsedKey(r), Seal).baseUrl = r.baseUrl
          /\ OpenAiFile(r.baseUrl, UsedKey(r), Seal).key = UsedKey(r)
      BY DEF OpenAiFile
    <2>6. Contents(r) = OpenAiFile(r.baseUrl, UsedKey(r), Seal)
      BY <1>1 DEF Contents
    <2> QED
      BY <1>1, <2>1, <2>4, <2>5, <2>6 DEF Files
  <1>2. CASE r.kind /= "openai"
    <2>1. r.kind = "mock" \/ r.kind = "clear"
      BY <1>2 DEF Requests
    <2>2. Contents(r) \in {NoFile, MockFile}
      BY <2>1 DEF Contents
    <2> QED
      BY <1>2, <2>2 DEF Files
  <1> QED
    BY <1>1, <1>2

LEMMA StepTypes ==
    ASSUME TypeOK, NEW r \in Requests
    PROVE  /\ Begun(r) \in Requests /\ Stored(r) \in Requests
           /\ Failed(r) \in Requests /\ Done(r) \in Requests
  <1>1. IF Acceptable(r) THEN Contents(r) \in Files ELSE NoFile \in Files
    BY ContentsForm DEF Files
  <1>2. Begun(r) \in Requests
    BY <1>1 DEF Begun, Requests, Ended
  <1>3. Stored(r) \in Requests /\ Failed(r) \in Requests /\ Done(r) \in Requests
    BY DEF Stored, Failed, Done, Requests, Ended
  <1> QED
    BY <1>2, <1>3

\* What the steps leave of a request.
LEMMA StepFields ==
    ASSUME NEW r \in Requests
    PROVE  /\ \A s \in {Begun(r), Stored(r), Failed(r), Done(r), Lost(r)} :
                s.kind = r.kind /\ s.baseUrl = r.baseUrl /\ s.key = r.key
           /\ Begun(r).phase = IF Acceptable(r) THEN "writing" ELSE "failed"
           /\ Begun(r).contents = IF Acceptable(r) THEN Contents(r) ELSE NoFile
           /\ Begun(r).stored = r.stored
           /\ Stored(r).phase = "stored" /\ Stored(r).stored = TRUE
           /\ Stored(r).contents = r.contents
           /\ Failed(r).phase = "failed" /\ Failed(r).stored = r.stored
           /\ Failed(r).contents = r.contents
           /\ Done(r).phase = "done" /\ Done(r).stored = r.stored
           /\ Done(r).contents = r.contents
           /\ Lost(r).phase = IF r.phase \in Ended THEN r.phase ELSE "lost"
           /\ Lost(r).stored = r.stored /\ Lost(r).contents = r.contents
  BY DEF Begun, Stored, Failed, Done, Lost, Requests

-----------------------------------------------------------------------------
(* Adding a request                                                        *)

Queued(kind, url, key) ==
    [kind |-> kind, baseUrl |-> url, key |-> key, phase |-> "queued",
     contents |-> NoFile, stored |-> FALSE]

LEMMA Asking ==
    ASSUME ConfigureOpenAi \/ ConfigureMock \/ Clear
    PROVE  \E r \in Requests :
              /\ r.phase = "queued" /\ ~r.stored
              /\ requests' = Append(requests, r)
              /\ UNCHANGED <<file, readable, machine, memory, up, budget>>
  <1>1. \A kind \in {"openai", "mock", "clear"}, url \in Urls \cup {"none"},
           key \in Keys \cup {NoKey} :
              /\ Queued(kind, url, key) \in Requests
              /\ Queued(kind, url, key).phase = "queued" /\ ~Queued(kind, url, key).stored
    BY DEF Queued, Requests, Files
  <1>2. \A kind, url, key : Ask(kind, url, key) =>
              /\ requests' = Append(requests, Queued(kind, url, key))
              /\ UNCHANGED <<file, readable, machine, memory, up, budget>>
    BY DEF Ask, Queued
  <1>3. CASE ConfigureOpenAi
    BY <1>1, <1>2, <1>3 DEF ConfigureOpenAi
  <1>4. CASE ConfigureMock
    BY <1>1, <1>2, <1>4 DEF ConfigureMock
  <1>5. CASE Clear
    BY <1>1, <1>2, <1>5 DEF Clear
  <1> QED
    BY <1>3, <1>4, <1>5

LEMMA AskInv ==
    ASSUME IInv, ConfigureOpenAi \/ ConfigureMock \/ Clear
    PROVE  IInv'
  <1>1. PICK r \in Requests :
              /\ r.phase = "queued" /\ ~r.stored
              /\ requests' = Append(requests, r)
              /\ UNCHANGED <<file, readable, machine, memory, up, budget>>
    BY Asking
  <1>2. PICK n \in Nat :
              /\ n = Len(requests) /\ DOMAIN requests = 1..n
              /\ \A i \in 1..n : requests[i] \in Requests
    BY Indices DEF IInv
  <1>3. /\ RequestsTyped' /\ Len(requests') = n + 1 /\ DOMAIN requests' = 1..(n + 1)
        /\ requests'[n + 1] = r
        /\ \A j \in 1..n : requests'[j] = requests[j]
    BY <1>1, <1>2, RequestAdded DEF IInv
  <1>5. TypeOK'
    <2>1. \A i \in DOMAIN requests' :
             /\ requests'[i].kind \in {"openai", "mock", "clear"}
             /\ requests'[i].phase \in {"queued", "writing", "stored"} \cup Ended
      BY <1>3, Rows DEF RequestsTyped
    <2> QED
      BY <1>1, <2>1 DEF IInv, TypeOK
  <1>6. \A i \in 1..(n + 1) : i \in 1..n \/ i = n + 1
    BY <1>2
  <1>7. \A i \in 1..n : ~LastStored(i)' \/ LastStored(i)
    BY <1>2, <1>3 DEF LastStored
  <1>8. OneAtATime'
    BY <1>1, <1>2, <1>3, <1>6 DEF IInv, OneAtATime
  <1>9. Writing'
    BY <1>1, <1>2, <1>3, <1>6 DEF IInv, Writing, Written
  <1>10. FileFollows'
    <2>1. ~LastStored(n + 1)'
      BY <1>1, <1>3 DEF LastStored
    <2> QED
      BY <1>1, <1>2, <1>3, <1>6, <1>7, <2>1 DEF IInv, FileFollows, Damaged
  <1>11. KeysTyped'
    <2>1. \A key : \A i \in 1..n : TypedAfter(i, key) => TypedAfter(i, key)'
      BY <1>2, <1>3 DEF TypedAfter
    <2>2. \A i \in 1..n : Forgets(i)' => Forgets(i)
      BY <1>3 DEF Forgets
    <2>3. ~Forgets(n + 1)'
      BY <1>1, <1>3 DEF Forgets
    <2>4. \A key : Held(key)' => Held(key)
      BY <1>1, <1>2, <1>3, <1>6 DEF Held
    <2> QED
      BY <1>2, <1>3, <1>6, <2>1, <2>2, <2>3, <2>4 DEF IInv, KeysTyped
  <1>12. Settled' => Settled
    BY <1>1, <1>2, <1>3 DEF Settled
  <1>13. EndpointIsSaved' /\ NoSilentMock'
    BY <1>1, <1>12 DEF IInv, EndpointIsSaved, NoSilentMock, Damaged, Dispatch
  <1> QED
    BY <1>3, <1>5, <1>8, <1>9, <1>10, <1>11, <1>13 DEF IInv

-----------------------------------------------------------------------------
(* The steps of a request                                                  *)

\* What every step of a request keeps.
LEMMA Stepped ==
    ASSUME RequestsTyped, OneAtATime, Writing,
           NEW i \in DOMAIN requests, NEW s \in Requests,
           requests' = [requests EXCEPT ![i] = s],
           s.kind = requests[i].kind, s.key = requests[i].key,
           s.phase /= "queued", requests[i].phase \notin Ended,
           \A j \in 1..(i - 1) : requests[j].phase \in Ended,
           Written(s)
    PROVE  /\ RequestsTyped' /\ OneAtATime' /\ Writing'
           /\ Len(requests') = Len(requests) /\ DOMAIN requests' = DOMAIN requests
           /\ requests'[i] = s
           /\ \A k \in DOMAIN requests : k /= i => requests'[k] = requests[k]
           /\ \A k \in DOMAIN requests : k > i => requests[k].phase = "queued"
           /\ \A k \in DOMAIN requests :
                 (k /= i /\ requests[k].phase \in {"writing", "stored"}) => FALSE
           /\ \A key : \A k \in DOMAIN requests : TypedAfter(k, key) => TypedAfter(k, key)'
  <1>1. PICK n \in Nat : /\ n = Len(requests) /\ DOMAIN requests = 1..n
                         /\ \A k \in 1..n : requests[k] \in Requests
    BY Indices
  <1>2. /\ RequestsTyped' /\ Len(requests') = n /\ DOMAIN requests' = 1..n
        /\ requests'[i] = s
        /\ \A k \in 1..n : k /= i => requests'[k] = requests[k]
    BY <1>1, OneChanged
  <1>3. i \in 1..n
    BY <1>1
  <1>4. \A k \in 1..n : k > i => requests[k].phase = "queued"
    BY <1>1, <1>3 DEF OneAtATime
  <1>5. \A k \in 1..n : k < i => requests[k].phase \in Ended
    BY <1>1, <1>3
  <1>6. OneAtATime'
    <2>1. \A k, m \in 1..n : (k < m /\ requests'[m].phase /= "queued")
                                => requests'[k].phase \in Ended
      <3> SUFFICES ASSUME NEW k \in 1..n, NEW m \in 1..n, k < m,
                          requests'[m].phase /= "queued"
                   PROVE  requests'[k].phase \in Ended
        OBVIOUS
      <3>1. m <= i
        BY <1>2, <1>3, <1>4
      <3>2. k < i
        BY <1>3, <3>1
      <3> QED
        BY <1>2, <1>3, <1>5, <3>2
    <2> QED
      BY <1>2, <2>1 DEF OneAtATime
  <1>7. Writing'
    <2>1. \A k \in 1..n : k /= i => Written(requests[k])
      BY <1>1 DEF Writing
    <2>2. \A k \in 1..n : Written(requests'[k])
      BY <1>2, <2>1
    <2> QED
      BY <1>2, <2>2 DEF Writing, Written
  <1>8. \A key : \A k \in 1..n : TypedAfter(k, key) => TypedAfter(k, key)'
    <2>1. \A k \in 1..n : requests'[k].key = requests[k].key
      BY <1>2
    <2>2. \A k \in 1..n : (k + 1)..n \subseteq 1..n
      OBVIOUS
    <2> QED
      BY <1>1, <1>2, <2>1, <2>2 DEF TypedAfter
  <1>9. \A k \in 1..n :
            (k /= i /\ requests[k].phase \in {"writing", "stored"}) => FALSE
    <2>1. \A k \in 1..n : k /= i => (k < i \/ k > i)
      BY <1>3
    <2> QED
      BY <1>4, <1>5, <2>1 DEF Ended
  <1> QED
    BY <1>1, <1>2, <1>4, <1>6, <1>7, <1>8, <1>9

\* The type invariant follows from that of the requests.
LEMMA TypeKept ==
    ASSUME TypeOK, RequestsTyped',
           file' \in Files, readable' \in BOOLEAN, up' \in BOOLEAN,
           machine' \in [keychain : Keychains \cup {"unavailable"}, plaintext : BOOLEAN],
           memory'.selected \in {"mock", "openai"},
           memory'.error \in ErrorCodes \cup {"none"},
           memory'.secret = NoSecret \/ memory'.secret \in [baseUrl : ValidUrls, key : Keys],
           budget' \in [faults : Nat, changes : Nat]
    PROVE  TypeOK'
  <1>1. \A i \in DOMAIN requests' :
             /\ requests'[i].kind \in {"openai", "mock", "clear"}
             /\ requests'[i].phase \in {"queued", "writing", "stored"} \cup Ended
    BY Rows DEF RequestsTyped
  <1> QED
    BY <1>1 DEF TypeOK, Files

LEMMA Types ==
    ASSUME TypeOK
    PROVE  /\ file \in Files /\ readable \in BOOLEAN /\ up \in BOOLEAN
           /\ machine \in [keychain : Keychains \cup {"unavailable"}, plaintext : BOOLEAN]
           /\ memory.selected \in {"mock", "openai"}
           /\ memory.error \in ErrorCodes \cup {"none"}
           /\ memory.secret = NoSecret \/ memory.secret \in [baseUrl : ValidUrls, key : Keys]
           /\ budget \in [faults : Nat, changes : Nat]
  BY DEF TypeOK, Files

LEMMA SpentType ==
    ASSUME TypeOK, NEW b \in {"faults", "changes"}, Spent(b)
    PROVE  budget' \in [faults : Nat, changes : Nat]
  <1>1. budget \in [faults : Nat, changes : Nat]
    BY DEF TypeOK
  <1>2. budget[b] \in Nat /\ budget[b] > 0
    BY <1>1 DEF Spent
  <1> QED
    BY <1>1, <1>2 DEF Spent

LEMMA BeginInv ==
    ASSUME IInv, NEW i \in DOMAIN requests, Begin(i)
    PROVE  IInv'
  <1>1. PICK n \in Nat : /\ n = Len(requests) /\ DOMAIN requests = 1..n
                         /\ \A k \in 1..n : requests[k] \in Requests
    BY Indices DEF IInv
  <1>2. PICK r \in Requests, s \in Requests : r = requests[i] /\ s = Begun(r)
    BY <1>1, StepTypes DEF IInv
  <1>3. /\ requests' = [requests EXCEPT ![i] = s]
        /\ UNCHANGED <<file, readable, machine, memory, up, budget>>
        /\ r.phase = "queued" /\ \A j \in 1..(i - 1) : requests[j].phase \in Ended
    BY <1>2 DEF Begin, Turn, Begun
  <1>4. /\ s.kind = r.kind /\ s.key = r.key /\ s.stored = r.stored
        /\ s.phase = IF Acceptable(r) THEN "writing" ELSE "failed"
        /\ s.contents = IF Acceptable(r) THEN Contents(r) ELSE NoFile
    BY <1>2, StepFields
  <1>5. ~r.stored
    BY <1>3, <1>2 DEF IInv, Writing, Written
  <1>6. Acceptable(r) =>
           IF r.kind = "openai"
           THEN /\ Contents(r) \in OpenAiFiles /\ Contents(r).baseUrl \in ValidUrls
                /\ Contents(r).key = UsedKey(r)
           ELSE Contents(r) \in {NoFile, MockFile}
    BY <1>2, ContentsForm DEF IInv
  <1>7. Written(s)
    BY <1>4, <1>5, <1>6 DEF Written
  <1>8. r.phase \notin Ended /\ s.phase /= "queued"
    BY <1>3, <1>4 DEF Ended
  <1>9. /\ RequestsTyped' /\ OneAtATime' /\ Writing'
        /\ Len(requests') = n /\ DOMAIN requests' = 1..n
        /\ requests'[i] = s
        /\ \A k \in 1..n : k /= i => requests'[k] = requests[k]
        /\ \A k \in 1..n : k > i => requests[k].phase = "queued"
        /\ \A key : \A k \in 1..n : TypedAfter(k, key) => TypedAfter(k, key)'
    BY <1>1, <1>3, <1>2, <1>4, <1>7, <1>8, Stepped DEF IInv
  <1>10. i \in 1..n
    BY <1>1
  <1>11. \A k \in 1..n : requests'[k].stored = requests[k].stored
    BY <1>2, <1>4, <1>9
  <1>12. FileFollows'
    <2>1. \A k \in 1..n : (k + 1)..n \subseteq 1..n
      OBVIOUS
    <2>2. \A k \in 1..n : LastStored(k)' => LastStored(k) /\ k /= i
      BY <1>1, <1>4, <1>5, <1>9, <1>11, <2>1 DEF LastStored
    <2> QED
      BY <1>1, <1>3, <1>9, <2>2 DEF IInv, FileFollows, Damaged
  <1>13. KeysTyped'
    <2>1. \A k \in 1..n : Forgets(k)' => Forgets(k) /\ k /= i
      BY <1>4, <1>9 DEF Forgets
    <2>2. ASSUME NEW key \in Keys, Held(key)', NEW k \in 1..n, Forgets(k)'
          PROVE  TypedAfter(k, key)'
      <3>1. Forgets(k) /\ k /= i
        BY <2>1, <2>2
      <3>2. Held(key) => TypedAfter(k, key)
        BY <1>1, <3>1 DEF IInv, KeysTyped
      <3>3. Held(key) \/ (key /= NoKey /\ Acceptable(r) /\ r.kind = "openai" /\ key = UsedKey(r))
        BY <1>1, <1>3, <1>4, <1>6, <1>9, <2>2 DEF Held
      <3>4. CASE Held(key)
        BY <1>9, <3>2, <3>4
      <3>5. CASE key /= NoKey /\ key = UsedKey(r) /\ r.key /= NoKey
        <4>1. requests[k].phase = "done"
          BY <3>1 DEF Forgets
        <4>2. k < i
          BY <1>9, <1>10, <3>1, <4>1
        <4>3. i \in (k + 1)..n
          BY <1>10, <4>2
        <4>4. requests'[i].key = key
          BY <1>4, <1>9, <3>5 DEF UsedKey
        <4> QED
          BY <1>9, <4>3, <4>4 DEF TypedAfter
      <3>6. CASE key /= NoKey /\ key = UsedKey(r) /\ r.key = NoKey
        <4>1. Held(key)
          BY <3>6 DEF UsedKey, Held
        <4> QED
          BY <1>9, <3>2, <4>1
      <3> QED
        BY <3>3, <3>4, <3>5, <3>6
    <2> QED
      BY <1>9, <2>2 DEF KeysTyped
  <1>14. Settled' => Settled
    BY <1>1, <1>2, <1>3, <1>4, <1>9 DEF Settled
  <1>15. EndpointIsSaved' /\ NoSilentMock'
    BY <1>3, <1>14 DEF IInv, EndpointIsSaved, NoSilentMock, Damaged, Dispatch
  <1>16. TypeOK'
    BY <1>3, <1>9, Types, TypeKept DEF IInv
  <1> QED
    BY <1>9, <1>12, <1>13, <1>15, <1>16 DEF IInv

LEMMA StoreInv ==
    ASSUME IInv, NEW i \in DOMAIN requests, Store(i)
    PROVE  IInv'
  <1>1. PICK n \in Nat : /\ n = Len(requests) /\ DOMAIN requests = 1..n
                         /\ \A k \in 1..n : requests[k] \in Requests
    BY Indices DEF IInv
  <1>2. PICK r \in Requests, s \in Requests : r = requests[i] /\ s = Stored(r)
    BY <1>1, StepTypes DEF IInv
  <1>3. /\ requests' = [requests EXCEPT ![i] = s]
        /\ UNCHANGED <<machine, memory, up, budget>>
        /\ r.phase = "writing"
    BY <1>2 DEF Store, Stored, Spent, AfterFailure
  <1>4. /\ s.kind = r.kind /\ s.key = r.key /\ s.contents = r.contents
        /\ s.phase = "stored" /\ s.stored = TRUE /\ file' = r.contents /\ readable' = TRUE
    BY <1>2, StepFields DEF Store
  <1>5. Written(r)
    BY <1>1, <1>2 DEF IInv, Writing
  <1>6. Written(s)
    BY <1>3, <1>4, <1>5 DEF Written
  <1>7. r.phase \notin Ended /\ s.phase /= "queued"
    BY <1>3, <1>4 DEF Ended
  <1>8. \A j \in 1..(i - 1) : requests[j].phase \in Ended
    BY <1>1, <1>2, <1>3 DEF IInv, OneAtATime
  <1>9. /\ RequestsTyped' /\ OneAtATime' /\ Writing'
        /\ Len(requests') = n /\ DOMAIN requests' = 1..n
        /\ requests'[i] = s
        /\ \A k \in 1..n : k /= i => requests'[k] = requests[k]
        /\ \A k \in 1..n : k > i => requests[k].phase = "queued"
        /\ \A k \in 1..n :
              (k /= i /\ requests[k].phase \in {"writing", "stored"}) => FALSE
        /\ \A key : \A k \in 1..n : TypedAfter(k, key) => TypedAfter(k, key)'
    BY <1>1, <1>2, <1>3, <1>4, <1>6, <1>7, <1>8, Stepped DEF IInv
  <1>10. i \in 1..n
    BY <1>1
  <1>11. \A k \in 1..n : (k > i => ~requests[k].stored) /\ (k + 1)..n \subseteq 1..n
    BY <1>1, <1>9 DEF IInv, Writing, Written
  <1>12. FileFollows'
    <2>1. \A k \in 1..n : LastStored(k)' => k = i
      <3> SUFFICES ASSUME NEW k \in 1..n, LastStored(k)', k /= i PROVE FALSE
        OBVIOUS
      <3>1. requests[k].stored /\ k < i
        BY <1>9, <1>10, <1>11 DEF LastStored
      <3>2. i \in (k + 1)..n
        BY <1>10, <3>1
      <3> QED
        BY <1>4, <1>9, <3>2 DEF LastStored
    <2> QED
      BY <1>4, <1>9, <2>1 DEF FileFollows
  <1>13. KeysTyped'
    <2>1. \A k \in 1..n : Forgets(k)' => Forgets(k)
      BY <1>4, <1>9 DEF Forgets
    <2>2. \A key : Held(key)' => Held(key)
      <3> SUFFICES ASSUME NEW key, Held(key)' PROVE Held(key)
        OBVIOUS
      <3>1. r.kind = "openai" \/ r.contents \in {NoFile, MockFile}
        BY <1>3, <1>5 DEF Written
      <3>2. CASE file'.provider = "openai" /\ key = file'.key
        <4>1. r.kind = "openai" /\ key = r.contents.key
          BY <1>4, <3>1, <3>2 DEF NoFile, MockFile
        <4> QED
          BY <1>1, <1>2, <1>3, <1>10, <4>1 DEF Held
      <3> QED
        BY <1>1, <1>2, <1>3, <1>4, <1>9, <1>10, <3>2 DEF Held
    <2> QED
      BY <1>1, <1>9, <2>1, <2>2 DEF IInv, KeysTyped
  <1>14. ~Settled'
    BY <1>4, <1>9, <1>10 DEF Settled
  <1>15. EndpointIsSaved' /\ NoSilentMock'
    BY <1>14 DEF EndpointIsSaved, NoSilentMock
  <1>16. TypeOK'
    <2>1. r.contents \in Files
      BY DEF Requests
    <2> QED
      BY <1>3, <1>4, <1>9, <2>1, Types, TypeKept DEF IInv
  <1> QED
    BY <1>9, <1>12, <1>13, <1>15, <1>16 DEF IInv

LEMMA StoreFailsInv ==
    ASSUME IInv, NEW i \in DOMAIN requests, StoreFails(i)
    PROVE  IInv'
  <1>1. PICK n \in Nat : /\ n = Len(requests) /\ DOMAIN requests = 1..n
                         /\ \A k \in 1..n : requests[k] \in Requests
    BY Indices DEF IInv
  <1>2. PICK r \in Requests, s \in Requests : r = requests[i] /\ s = Failed(r)
    BY <1>1, StepTypes DEF IInv
  <1>3. /\ requests' = [requests EXCEPT ![i] = s]
        /\ UNCHANGED <<file, readable, machine, memory, up>>
        /\ r.phase = "writing"
    BY <1>2 DEF StoreFails, Failed, Spent, AfterFailure
  <1>4. /\ s.kind = r.kind /\ s.key = r.key /\ s.contents = r.contents
        /\ s.phase = "failed" /\ s.stored = r.stored
    BY <1>2, StepFields
  <1>5. Written(r)
    BY <1>1, <1>2 DEF IInv, Writing
  <1>6. Written(s)
    BY <1>3, <1>4, <1>5 DEF Written
  <1>7. r.phase \notin Ended /\ s.phase /= "queued"
    BY <1>3, <1>4 DEF Ended
  <1>8. \A j \in 1..(i - 1) : requests[j].phase \in Ended
    BY <1>1, <1>2, <1>3 DEF IInv, OneAtATime
  <1>9. /\ RequestsTyped' /\ OneAtATime' /\ Writing'
        /\ Len(requests') = n /\ DOMAIN requests' = 1..n
        /\ requests'[i] = s
        /\ \A k \in 1..n : k /= i => requests'[k] = requests[k]
        /\ \A k \in 1..n : k > i => requests[k].phase = "queued"
        /\ \A k \in 1..n :
              (k /= i /\ requests[k].phase \in {"writing", "stored"}) => FALSE
        /\ \A key : \A k \in 1..n : TypedAfter(k, key) => TypedAfter(k, key)'
    BY <1>1, <1>2, <1>3, <1>4, <1>6, <1>7, <1>8, Stepped DEF IInv
  <1>10. i \in 1..n
    BY <1>1
  <1>11. \A k \in 1..n : (k > i => ~requests[k].stored) /\ (k + 1)..n \subseteq 1..n
    BY <1>1, <1>9 DEF IInv, Writing, Written
  <1>12. FileFollows'
    <2>1. ~r.stored
      BY <1>3, <1>5 DEF Written
    <2>2. \A k \in 1..n : LastStored(k)' => LastStored(k) /\ k /= i
      BY <1>1, <1>2, <1>4, <1>9, <1>11, <2>1 DEF LastStored
    <2> QED
      BY <1>1, <1>3, <1>9, <2>2 DEF IInv, FileFollows, Damaged
  <1>13. KeysTyped'
    <2>1. \A k \in 1..n : Forgets(k)' => Forgets(k)
      BY <1>4, <1>9 DEF Forgets
    <2>2. \A key : Held(key)' => Held(key)
      BY <1>1, <1>2, <1>3, <1>4, <1>9 DEF Held
    <2> QED
      BY <1>1, <1>9, <2>1, <2>2 DEF IInv, KeysTyped
  <1>14. Settled' => Settled
    BY <1>1, <1>2, <1>3, <1>4, <1>9 DEF Settled
  <1>15. EndpointIsSaved' /\ NoSilentMock'
    BY <1>3, <1>14 DEF IInv, EndpointIsSaved, NoSilentMock, Damaged, Dispatch
  <1>16. TypeOK'
    <2>1. budget' \in [faults : Nat, changes : Nat]
      BY SpentType DEF IInv, StoreFails
    <2> QED
      BY <1>3, <1>9, <2>1, Types, TypeKept DEF IInv
  <1> QED
    BY <1>9, <1>12, <1>13, <1>15, <1>16 DEF IInv

LEMMA ApplyInv ==
    ASSUME IInv, NEW i \in DOMAIN requests, Apply(i)
    PROVE  IInv'
  <1>1. PICK n \in Nat : /\ n = Len(requests) /\ DOMAIN requests = 1..n
                         /\ \A k \in 1..n : requests[k] \in Requests
    BY Indices DEF IInv
  <1>2. PICK r \in Requests, s \in Requests : r = requests[i] /\ s = Done(r)
    BY <1>1, StepTypes DEF IInv
  <1>3. /\ requests' = [requests EXCEPT ![i] = s]
        /\ UNCHANGED <<file, readable, machine, up, budget>>
        /\ r.phase = "stored"
    BY <1>2 DEF Apply, Done, Spent, AfterFailure
  <1>4. /\ s.kind = r.kind /\ s.key = r.key /\ s.contents = r.contents
        /\ s.phase = "done" /\ s.stored = r.stored
    BY <1>2, StepFields
  <1>5. Written(r)
    BY <1>1, <1>2 DEF IInv, Writing
  <1>6. Written(s)
    BY <1>3, <1>4, <1>5 DEF Written
  <1>7. r.phase \notin Ended /\ s.phase /= "queued"
    BY <1>3, <1>4 DEF Ended
  <1>8. \A j \in 1..(i - 1) : requests[j].phase \in Ended
    BY <1>1, <1>2, <1>3 DEF IInv, OneAtATime
  <1>9. /\ RequestsTyped' /\ OneAtATime' /\ Writing'
        /\ Len(requests') = n /\ DOMAIN requests' = 1..n
        /\ requests'[i] = s
        /\ \A k \in 1..n : k /= i => requests'[k] = requests[k]
        /\ \A k \in 1..n : k > i => requests[k].phase = "queued"
        /\ \A k \in 1..n :
              (k /= i /\ requests[k].phase \in {"writing", "stored"}) => FALSE
        /\ \A key : \A k \in 1..n : TypedAfter(k, key) => TypedAfter(k, key)'
    BY <1>1, <1>2, <1>3, <1>4, <1>6, <1>7, <1>8, Stepped DEF IInv
  <1>10. i \in 1..n
    BY <1>1
  <1>11. \A k \in 1..n : (k > i => ~requests[k].stored) /\ (k + 1)..n \subseteq 1..n
    BY <1>1, <1>9 DEF IInv, Writing, Written
  <1>12. /\ r.stored
         /\ IF r.kind = "openai"
            THEN r.contents \in OpenAiFiles /\ r.contents.baseUrl \in ValidUrls
            ELSE r.contents \in {NoFile, MockFile}
    BY <1>3, <1>5 DEF Written
  <1>13. LastStored(i)
    BY <1>1, <1>2, <1>10, <1>11, <1>12 DEF LastStored
  <1>14. file = r.contents \/ (r.contents.provider = "openai" /\ Damaged)
    BY <1>1, <1>2, <1>13 DEF IInv, FileFollows
  <1>15. memory' = IF r.kind = "openai" THEN Active(r.contents.baseUrl, r.contents.key) ELSE Mocked
    BY <1>2 DEF Apply, ResetToMock
  <1>16. r.kind = "openai" => /\ r.contents.provider = "openai"
                              /\ r.contents.baseUrl \in ValidUrls /\ r.contents.key \in Keys
    BY <1>12 DEF OpenAiFiles
  <1>17. r.kind /= "openai" => file \in {NoFile, MockFile}
    BY <1>12, <1>14 DEF NoFile, MockFile
  <1>18. /\ memory'.selected \in {"mock", "openai"} /\ memory'.error = "none"
         /\ memory'.secret = IF r.kind = "openai" THEN Secret(r.contents.baseUrl, r.contents.key)
                                                  ELSE NoSecret
    BY <1>15 DEF Active, Mocked
  <1>19. FileFollows'
    <2>1. \A k \in 1..n : LastStored(k)' => LastStored(k) /\ requests'[k].contents = requests[k].contents
      BY <1>1, <1>2, <1>4, <1>9, <1>11 DEF LastStored
    <2> QED
      BY <1>1, <1>3, <1>9, <2>1 DEF IInv, FileFollows, Damaged
  <1>20. KeysTyped'
    <2> SUFFICES ASSUME NEW key \in Keys, Held(key)', NEW k \in 1..n, Forgets(k)'
                 PROVE  TypedAfter(k, key)'
      BY <1>9 DEF KeysTyped
    <2>1. Held(key) /\ r.kind = "openai"
      <3>1. CASE r.kind = "openai"
        <4>1. memory'.secret.key = r.contents.key
          BY <1>18, <3>1 DEF Secret
        <4> QED
          BY <1>1, <1>2, <1>3, <1>4, <1>9, <1>10, <3>1, <4>1 DEF Held
      <3>2. CASE r.kind /= "openai"
        <4>1. memory'.secret.key = NoKey /\ file'.provider /= "openai"
          BY <1>3, <1>17, <1>18, <3>2 DEF NoSecret, NoFile, MockFile
        <4>2. \A j \in 1..n : requests'[j].phase \notin {"writing", "stored"}
          BY <1>4, <1>9
        <4> QED
          BY <1>9, <4>1, <4>2 DEF Held
      <3> QED
        BY <3>1, <3>2
    <2>2. k /= i /\ Forgets(k)
      BY <1>4, <1>9, <2>1 DEF Forgets
    <2> QED
      BY <1>1, <1>9, <2>1, <2>2 DEF IInv, KeysTyped
  <1>21. EndpointIsSaved'
    <2>1. (memory'.secret /= NoSecret /\ ~Damaged') => r.kind = "openai" /\ file = r.contents
      BY <1>3, <1>14, <1>18, <1>12 DEF Damaged
    <2> QED
      BY <1>3, <1>16, <1>18, <2>1 DEF EndpointIsSaved
  <1>22. NoSilentMock'
    <2>1. r.kind = "openai" => memory'.secret /= NoSecret
      BY <1>16, <1>18, BoundsAssumption DEF Secret, NoSecret
    <2> QED
      BY <1>3, <1>17, <2>1 DEF NoSilentMock, Dispatch
  <1>23. TypeOK'
    <2>1. memory'.secret = NoSecret \/ memory'.secret \in [baseUrl : ValidUrls, key : Keys]
      BY <1>16, <1>18 DEF Secret
    <2> QED
      BY <1>3, <1>9, <1>18, <2>1, Types, TypeKept DEF IInv
  <1> QED
    BY <1>9, <1>19, <1>20, <1>21, <1>22, <1>23 DEF IInv

-----------------------------------------------------------------------------
(* The machine around the program                                          *)

LEMMA CrashInv ==
    ASSUME IInv, Crash
    PROVE  IInv'
  <1>1. PICK n \in Nat : /\ n = Len(requests) /\ DOMAIN requests = 1..n
                         /\ \A k \in 1..n : requests[k] \in Requests
    BY Indices DEF IInv
  <1>2. /\ RequestsTyped' /\ Len(requests') = n /\ DOMAIN requests' = 1..n
        /\ \A k \in 1..n : requests'[k] = Lost(requests[k])
    BY <1>1, AllLost DEF IInv
  <1>3. \A k \in 1..n :
           /\ requests'[k].kind = requests[k].kind /\ requests'[k].key = requests[k].key
           /\ requests'[k].phase = IF requests[k].phase \in Ended THEN requests[k].phase ELSE "lost"
           /\ requests'[k].stored = requests[k].stored
           /\ requests'[k].contents = requests[k].contents
    <2> SUFFICES ASSUME NEW k \in 1..n, NEW r \in Requests, r = requests[k]
                 PROVE  /\ Lost(r).kind = r.kind /\ Lost(r).key = r.key
                        /\ Lost(r).phase = IF r.phase \in Ended THEN r.phase ELSE "lost"
                        /\ Lost(r).stored = r.stored /\ Lost(r).contents = r.contents
      BY <1>1, <1>2
    <2> QED
      BY StepFields
  <1>4. UNCHANGED <<file, readable, machine, memory>> /\ up' = FALSE
    BY DEF Crash
  <1>5. \A k \in 1..n : requests'[k].phase \in Ended
    BY <1>3 DEF Ended
  <1>6. OneAtATime'
    BY <1>2, <1>5 DEF OneAtATime
  <1>7. Writing'
    <2>1. \A k \in 1..n : Written(requests[k])
      BY <1>1 DEF IInv, Writing
    <2>2. \A k \in 1..n : Written(requests'[k])
      BY <1>3, <1>5, <2>1 DEF Written, Ended
    <2> QED
      BY <1>2, <2>2 DEF Writing, Written
  <1>8. FileFollows'
    <2>1. \A k \in 1..n : (k + 1)..n \subseteq 1..n
      OBVIOUS
    <2>2. \A k \in 1..n : LastStored(k)' => LastStored(k)
      BY <1>1, <1>2, <1>3, <2>1 DEF LastStored
    <2> QED
      BY <1>1, <1>2, <1>3, <1>4, <2>2 DEF IInv, FileFollows, Damaged
  <1>9. KeysTyped'
    <2>1. \A k \in 1..n : Forgets(k)' => Forgets(k)
      BY <1>3 DEF Forgets, Ended
    <2>2. \A key : Held(key)' => Held(key)
      BY <1>2, <1>4, <1>5 DEF Held, Ended
    <2>3. \A k \in 1..n : (k + 1)..n \subseteq 1..n
      OBVIOUS
    <2>4. \A key : \A k \in 1..n : TypedAfter(k, key) => TypedAfter(k, key)'
      BY <1>1, <1>2, <1>3, <2>3 DEF TypedAfter
    <2> QED
      BY <1>1, <1>2, <2>1, <2>2, <2>4 DEF IInv, KeysTyped
  <1>10. EndpointIsSaved' /\ NoSilentMock'
    BY <1>4 DEF EndpointIsSaved, NoSilentMock, Settled
  <1>11. TypeOK'
    <2>1. budget' \in [faults : Nat, changes : Nat]
      BY SpentType DEF IInv, Crash
    <2> QED
      BY <1>2, <1>4, <2>1, Types, TypeKept DEF IInv
  <1> QED
    BY <1>2, <1>6, <1>7, <1>8, <1>9, <1>10, <1>11 DEF IInv

\* What is in memory after the file was loaded.
LEMMA LoadedIs ==
    ASSUME TypeOK
    PROVE  /\ Loaded.selected \in {"mock", "openai"}
           /\ Loaded.error \in ErrorCodes \cup {"none"}
           /\ Loaded.secret = NoSecret \/ Loaded.secret \in [baseUrl : ValidUrls, key : Keys]
           /\ Loaded.secret /= NoSecret =>
                 /\ file.provider = "openai" /\ Loaded.secret = Secret(file.baseUrl, file.key)
           /\ (Loaded.secret = NoSecret /\ Loaded.error = "none") => file \in {NoFile, MockFile}
  <1>1. KeyError \in ErrorCodes \cup {"none"}
    BY DEF KeyError, ErrorCodes
  <1>2. CASE NotConfigured
    BY <1>2 DEF Loaded, Mocked, NotConfigured
  <1>3. CASE ~NotConfigured /\ ~readable
    BY <1>3 DEF Loaded, Mocked, ErrorCodes
  <1>4. CASE ~NotConfigured /\ readable /\ file = Corrupt
    BY <1>4 DEF Loaded, Mocked, ErrorCodes
  <1>5. CASE ~NotConfigured /\ readable /\ file = MockFile
    BY <1>5 DEF Loaded, Mocked, Corrupt, MockFile
  <1>6. CASE ~NotConfigured /\ readable /\ file /= Corrupt /\ file /= MockFile
    <2>1. file \in OpenAiFiles
      BY <1>6 DEF TypeOK, NotConfigured
    <2>2. /\ file.provider = "openai" /\ file.baseUrl \in Urls /\ file.key \in Keys
          /\ file.seal \in Keychains \cup {"plain", "missing"}
      BY <2>1 DEF OpenAiFiles
    <2>3. CASE KeyError = "none"
      <3>1. file.baseUrl \in ValidUrls
        BY <2>3 DEF KeyError
      <3>2. Loaded = Active(file.baseUrl, file.key)
        BY <1>6, <2>3 DEF Loaded
      <3>3. Secret(file.baseUrl, file.key) /= NoSecret
        BY <2>2, BoundsAssumption DEF Secret, NoSecret
      <3> QED
        BY <2>2, <3>1, <3>2, <3>3 DEF Active, Secret
    <2>4. CASE KeyError /= "none"
      <3>1. Loaded = Unusable(KeyError)
        BY <1>6, <2>4 DEF Loaded
      <3> QED
        BY <1>1, <2>4, <3>1 DEF Unusable
    <2> QED
      BY <2>3, <2>4
  <1> QED
    BY <1>2, <1>3, <1>4, <1>5, <1>6

LEMMA RestartInv ==
    ASSUME IInv, Restart
    PROVE  IInv'
  <1>1. memory' = Loaded /\ up' = TRUE /\ UNCHANGED <<file, readable, machine, requests, budget>>
    BY DEF Restart
  <1>2. RequestsTyped' /\ OneAtATime' /\ Writing' /\ FileFollows'
    BY <1>1 DEF IInv, RequestsTyped, OneAtATime, Writing, Written, FileFollows, LastStored, Damaged
  <1>3. KeysTyped'
    <2>1. \A key : Held(key)' => Held(key)
      <3> SUFFICES ASSUME NEW key, Held(key)' PROVE Held(key)
        OBVIOUS
      <3>1. memory'.secret.key = NoKey
              \/ (file.provider = "openai" /\ memory'.secret.key = file.key)
        BY <1>1, LoadedIs DEF IInv, NoSecret, Secret
      <3> QED
        BY <1>1, <3>1 DEF Held
    <2> QED
      BY <1>1, <2>1 DEF IInv, KeysTyped, Forgets, TypedAfter
  <1>4. EndpointIsSaved' /\ NoSilentMock'
    BY <1>1, LoadedIs DEF IInv, EndpointIsSaved, NoSilentMock, Dispatch
  <1>5. TypeOK'
    BY <1>1, <1>2, LoadedIs, Types, TypeKept DEF IInv
  <1> QED
    BY <1>2, <1>3, <1>4, <1>5 DEF IInv

LEMMA DamageInv ==
    ASSUME IInv, Damage
    PROVE  IInv'
  <1>1. /\ file.provider = "openai"
        /\ file' \in {Corrupt, [file EXCEPT !.seal = "missing"]}
        /\ UNCHANGED <<readable, machine, memory, requests, up>>
    BY DEF Damage
  <1>2. file \in OpenAiFiles
    BY <1>1 DEF IInv, TypeOK, NoFile, MockFile, Corrupt
  <1>3. /\ file' \in Files /\ file' \notin {NoFile, MockFile} /\ Damaged'
        /\ file'.provider = "openai" => file'.key = file.key
    <2>1. CASE file' = Corrupt
      BY <2>1 DEF Files, Damaged, Corrupt, NoFile, MockFile
    <2>2. CASE file' = [file EXCEPT !.seal = "missing"]
      <3>1. /\ file' \in OpenAiFiles /\ file'.provider = "openai"
            /\ file'.seal = "missing" /\ file'.key = file.key
        BY <1>2, <2>2 DEF OpenAiFiles
      <3> QED
        BY <3>1 DEF Files, Damaged, NoFile, MockFile
    <2> QED
      BY <1>1, <2>1, <2>2
  <1>4. RequestsTyped' /\ OneAtATime' /\ Writing'
    BY <1>1 DEF IInv, RequestsTyped, OneAtATime, Writing, Written
  <1>5. FileFollows'
    <2>1. \A i \in DOMAIN requests : LastStored(i) => requests[i].contents.provider = "openai"
      BY <1>1 DEF IInv, FileFollows
    <2> QED
      BY <1>1, <1>3, <2>1 DEF FileFollows, LastStored
  <1>6. KeysTyped'
    <2>1. \A key : Held(key)' => Held(key)
      BY <1>1, <1>3 DEF Held
    <2> QED
      BY <1>1, <2>1 DEF IInv, KeysTyped, Forgets, TypedAfter
  <1>7. Settled' => Settled
    BY <1>1 DEF Settled
  <1>8. file \notin {NoFile, MockFile}
    BY <1>1 DEF NoFile, MockFile
  <1>9. EndpointIsSaved' /\ NoSilentMock'
    BY <1>1, <1>3, <1>7, <1>8 DEF IInv, EndpointIsSaved, NoSilentMock, Dispatch
  <1>10. TypeOK'
    <2>1. budget' \in [faults : Nat, changes : Nat]
      BY SpentType DEF IInv, Damage
    <2> QED
      BY <1>1, <1>3, <1>4, <2>1, Types, TypeKept DEF IInv
  <1> QED
    BY <1>4, <1>5, <1>6, <1>9, <1>10 DEF IInv

\* Neither a change of the machine nor a stuttering step touches the file, the
\* memory or a request.
LEMMA QuietInv ==
    ASSUME IInv, MachineChanges \/ UNCHANGED vars
    PROVE  IInv'
  <1>1. UNCHANGED <<file, memory, requests, up>>
    BY DEF MachineChanges, vars
  <1>2. RequestsTyped' /\ OneAtATime' /\ Writing' /\ FileFollows'
    BY <1>1 DEF IInv, RequestsTyped, OneAtATime, Writing, Written, FileFollows, LastStored, Damaged
  <1>3. KeysTyped'
    BY <1>1 DEF IInv, KeysTyped, Forgets, TypedAfter, Held
  <1>4. EndpointIsSaved' /\ NoSilentMock'
    BY <1>1 DEF IInv, EndpointIsSaved, NoSilentMock, Dispatch, Settled, Damaged
  <1>5. TypeOK'
    <2>1. budget' \in [faults : Nat, changes : Nat]
      BY SpentType, Types DEF IInv, MachineChanges, vars
    <2>2. /\ readable' \in BOOLEAN
          /\ machine' \in [keychain : Keychains \cup {"unavailable"}, plaintext : BOOLEAN]
      BY Types DEF IInv, MachineChanges, vars
    <2> QED
      BY <1>1, <1>2, <2>1, <2>2, Types, TypeKept DEF IInv
  <1> QED
    BY <1>2, <1>3, <1>4, <1>5 DEF IInv

-----------------------------------------------------------------------------
(* The theorems                                                            *)

LEMMA InitInv == Init => IInv
  <1> SUFFICES ASSUME Init PROVE IInv
    OBVIOUS
  <1>1. requests = <<>> /\ requests \in Seq(Requests) /\ DOMAIN requests = {}
    BY DEF Init
  <1>2. RequestsTyped /\ OneAtATime /\ Writing /\ FileFollows /\ KeysTyped
    BY <1>1 DEF RequestsTyped, OneAtATime, Writing, FileFollows, KeysTyped
  <1>3. /\ file \in Files /\ readable \in BOOLEAN /\ up \in BOOLEAN
        /\ machine \in [keychain : Keychains \cup {"unavailable"}, plaintext : BOOLEAN]
        /\ budget \in [faults : Nat, changes : Nat]
    BY BoundsAssumption DEF Init, Files
  <1>4. TypeOK
    <2> DEFINE Rest == /\ file \in Files
                       /\ machine \in [keychain : Keychains \cup {"unavailable"}, plaintext : BOOLEAN]
    <2>1. CASE file \in {NoFile, MockFile}
      <3>1. Loaded = Mocked
        BY <2>1 DEF Init, Loaded, NotConfigured, MockFile, Corrupt
      <3> QED
        BY <1>1, <1>3, <3>1 DEF Init, TypeOK, Files, Mocked
    <2>2. CASE file \in OpenAiFiles
      <3>1. file.provider = "openai" /\ file.baseUrl \in Urls /\ file.key \in Keys
        BY <2>2 DEF OpenAiFiles
      <3>2. Loaded = IF KeyError = "none" THEN Active(file.baseUrl, file.key) ELSE Unusable(KeyError)
        BY <3>1 DEF Init, Loaded, NotConfigured, NoFile, MockFile, Corrupt
      <3>3. KeyError \in ErrorCodes \cup {"none"} /\ (KeyError = "none" => file.baseUrl \in ValidUrls)
        BY DEF KeyError, ErrorCodes
      <3>4. /\ Loaded.selected \in {"mock", "openai"}
            /\ Loaded.error \in ErrorCodes \cup {"none"}
            /\ Loaded.secret = NoSecret \/ Loaded.secret \in [baseUrl : ValidUrls, key : Keys]
        BY <3>1, <3>2, <3>3 DEF Active, Unusable, Secret
      <3> QED
        BY <1>1, <1>3, <3>4 DEF Init, TypeOK, Files
    <2> QED
      BY <2>1, <2>2 DEF Init
  <1>5. EndpointIsSaved /\ NoSilentMock
    BY <1>4, LoadedIs DEF Init, EndpointIsSaved, NoSilentMock, Dispatch
  <1> QED
    BY <1>2, <1>4, <1>5 DEF IInv

LEMMA NextInv == IInv /\ [Next]_vars => IInv'
  <1> SUFFICES ASSUME IInv, [Next]_vars PROVE IInv'
    OBVIOUS
  <1>1. CASE ConfigureOpenAi \/ ConfigureMock \/ Clear
    BY <1>1, AskInv
  <1>2. ASSUME NEW i \in DOMAIN requests, Step(i) PROVE IInv'
    BY <1>2, BeginInv, StoreInv, StoreFailsInv, ApplyInv DEF Step
  <1>3. CASE Crash
    BY <1>3, CrashInv
  <1>4. CASE Restart
    BY <1>4, RestartInv
  <1>5. CASE Damage
    BY <1>5, DamageInv
  <1>6. CASE MachineChanges \/ UNCHANGED vars
    BY <1>6, QuietInv
  <1> QED
    BY <1>1, <1>2, <1>3, <1>4, <1>5, <1>6 DEF Next

\* The invariant holds in every reachable state.
THEOREM Inductive == Spec => []IInv
  <1> QED
    BY InitInv, NextInv, PTL DEF Spec

\* File, machine, memory, requests and budget have their types: what is in memory
\* is a URL that is accepted now with a key, or nothing.
THEOREM TypeCorrect == Spec => []TypeOK
  <1>1. IInv => TypeOK
    BY DEF IInv
  <1> QED
    BY <1>1, Inductive, PTL

\* The file holds what the last successful request asked for, in the order of the
\* requests, whatever fails or crashes between: serialize and the atomic rename.
THEOREM LastWins == Spec => []LastRequestWins
  <1>1. IInv => LastRequestWins
    BY DEF IInv, FileFollows, LastStored, LastRequestWins
  <1> QED
    BY <1>1, Inductive, PTL

\* After a clear or a change to Mock no key is left, or comes back from memory or
\* from the file, until the user types it in a later request.
THEOREM KeyStaysAway == Spec => []ForgottenKeyStaysAway
  <1>1. IInv => ForgottenKeyStaysAway
    <2> SUFFICES ASSUME IInv, NEW i \in DOMAIN requests,
                        requests[i].kind \in {"mock", "clear"}, requests[i].phase = "done",
                        NEW key,
                        key \in ({memory.secret.key} \cup
                                    (IF file.provider = "openai" THEN {file.key} ELSE {})) \ {NoKey}
                 PROVE  \E j \in (i + 1)..Len(requests) : requests[j].key = key
      BY DEF ForgottenKeyStaysAway
    <2>1. Forgets(i) /\ Held(key)
      BY DEF Forgets, Held
    <2>2. key \in Keys
      <3>1. memory.secret.key \in Keys \cup {NoKey}
        BY DEF IInv, TypeOK, NoSecret
      <3>2. file.provider = "openai" => file.key \in Keys
        BY DEF IInv, TypeOK, OpenAiFiles, NoFile, MockFile, Corrupt
      <3> QED
        BY <3>1, <3>2
    <2> QED
      BY <2>1, <2>2 DEF IInv, KeysTyped, TypedAfter
  <1> QED
    BY <1>1, Inductive, PTL

\* Executions go to the endpoint that the file names, with the key saved for it.
THEOREM EndpointSaved == Spec => []EndpointIsSaved
  <1>1. IInv => EndpointIsSaved
    BY DEF IInv
  <1> QED
    BY <1>1, Inductive, PTL

\* Executions fall back to Mock only while no endpoint is configured.
THEOREM MockIsChosen == Spec => []NoSilentMock
  <1>1. IInv => NoSilentMock
    BY DEF IInv
  <1> QED
    BY <1>1, Inductive, PTL
=============================================================================
