---------------------- MODULE WorkspaceLifecycleProof ----------------------
(***************************************************************************)
(* Proofs about WorkspaceLifecycle: type correctness, and the safety of    *)
(* contents, lineage and trash, for any Matters, contents and concurrent   *)
(* calls and for any bounds.                                               *)
(***************************************************************************)
EXTENDS WorkspaceLifecycle, TLAPS

-----------------------------------------------------------------------------
(* Rows.                                                                   *)

\* A row changed in place leaves a sequence of rows of the same length.
LEMMA RowChanged ==
    ASSUME NEW s \in Seq(DocumentRows), NEW d \in DOMAIN s,
           NEW r \in DocumentRows
    PROVE  /\ [s EXCEPT ![d] = r] \in Seq(DocumentRows)
           /\ Len([s EXCEPT ![d] = r]) = Len(s)
           /\ DOMAIN [s EXCEPT ![d] = r] = DOMAIN s
  OBVIOUS

\* An appended row is the last one.
LEMMA RowAppended ==
    ASSUME NEW s \in Seq(DocumentRows), NEW r \in DocumentRows
    PROVE  /\ Append(s, r) \in Seq(DocumentRows)
           /\ Len(Append(s, r)) = Len(s) + 1
           /\ DOMAIN Append(s, r) = DOMAIN s \cup {Len(s) + 1}
           /\ Append(s, r)[Len(s) + 1] = r
           /\ \A e \in DOMAIN s : Append(s, r)[e] = s[e]
           /\ Len(s) + 1 \notin DOMAIN s
  OBVIOUS

\* What the operations write in one field of a row leaves a sequence of rows.
LEMMA TrashedWritten ==
    ASSUME NEW s \in Seq(DocumentRows), NEW d \in DOMAIN s, NEW b \in BOOLEAN
    PROVE  LET t == [s EXCEPT ![d].trashed = b] IN
           t \in Seq(DocumentRows) /\ Len(t) = Len(s) /\ DOMAIN t = DOMAIN s
  <1>1. s[d] \in DocumentRows
    OBVIOUS
  <1>2. [s[d] EXCEPT !.trashed = b] \in DocumentRows
    BY <1>1 DEF DocumentRows
  <1> QED
    BY <1>2, RowChanged

\* The same for the phase.
LEMMA PhaseWritten ==
    ASSUME NEW s \in Seq(DocumentRows), NEW d \in DOMAIN s,
           NEW phase \in {"rest", "live", "sanitized"}
    PROVE  LET t == [s EXCEPT ![d].phase = phase] IN
           t \in Seq(DocumentRows) /\ Len(t) = Len(s) /\ DOMAIN t = DOMAIN s
  <1>1. s[d] \in DocumentRows
    OBVIOUS
  <1>2. [s[d] EXCEPT !.phase = phase] \in DocumentRows
    BY <1>1 DEF DocumentRows
  <1> QED
    BY <1>2, RowChanged

\* The same for the executions.
LEMMA ExecutionsWritten ==
    ASSUME NEW s \in Seq(DocumentRows), NEW d \in DOMAIN s, NEW n \in Nat
    PROVE  LET t == [s EXCEPT ![d].ai = n] IN
           t \in Seq(DocumentRows) /\ Len(t) = Len(s) /\ DOMAIN t = DOMAIN s
  <1>1. s[d] \in DocumentRows
    OBVIOUS
  <1>2. [s[d] EXCEPT !.ai = n] \in DocumentRows
    BY <1>1 DEF DocumentRows
  <1> QED
    BY <1>2, RowChanged

\* An imported Document is a row.
LEMMA ImportedRow ==
    ASSUME NEW m \in Matters, NEW h \in Hashes, NEW old \in Nat
    PROVE  Imported(m, h, old) \in DocumentRows
  BY DEF Imported, DocumentRows

\* Recovery writes every row at once.
LEMMA RowsRecovered ==
    ASSUME docs \in Seq(DocumentRows), Recover
    PROVE  /\ docs' \in Seq(DocumentRows)
           /\ DOMAIN docs' = DOMAIN docs
           /\ \A d \in DOMAIN docs : docs'[d] = RecoveredRow(docs[d])
  <1>1. ASSUME NEW r \in DocumentRows PROVE RecoveredRow(r) \in DocumentRows
    <2>1. CASE r.phase = "live"
      BY <2>1 DEF DocumentRows, RecoveredRow
    <2>2. CASE r.phase # "live"
      BY <2>2 DEF DocumentRows, RecoveredRow
    <2> QED
      BY <2>1, <2>2
  <1>2. \A d \in 1 .. Len(docs) : docs[d] \in DocumentRows
    OBVIOUS
  <1>3. docs' = [d \in 1 .. Len(docs) |-> RecoveredRow(docs[d])]
    BY DEF Recover
  <1>4. docs' \in [1 .. Len(docs) -> DocumentRows]
    BY <1>1, <1>2, <1>3
  <1> QED
    BY <1>3, <1>4

-----------------------------------------------------------------------------
(* What a step does to the identity of the rows.                           *)

\* The steps that add a row or move one to or from the trash.
Moves ==
    \/ \E o \in Operations : ImportCreates(o) \/ Replace(o)
    \/ \E d \in DOMAIN docs : TrashDocument(d) \/ RestoreDocument(d)

\* Two versions of one row: equal but for the trash, and in the trash as well.
SameContent(r, s) ==
    r.matter = s.matter /\ r.hash = s.hash /\ r.supersedes = s.supersedes

SameRow(r, s) == SameContent(r, s) /\ r.trashed = s.trashed

\* All other steps leave content, lineage and trash of every row alone.
LEMMA OthersKeepRows ==
    ASSUME TypeOK, [Next]_vars
    PROVE  \/ Moves
           \/ /\ DOMAIN docs' = DOMAIN docs
              /\ \A d \in DOMAIN docs : SameRow(docs'[d], docs[d])
  <1> DEFINE Kept == /\ DOMAIN docs' = DOMAIN docs
                     /\ \A d \in DOMAIN docs : SameRow(docs'[d], docs[d])
  <1>0. docs \in Seq(DocumentRows) /\ \A d \in DOMAIN docs : docs[d] \in DocumentRows
    BY DEF TypeOK
  <1>1. CASE UNCHANGED docs
    BY <1>1 DEF SameRow, SameContent
  <1>2. ASSUME NEW o \in Operations, OperationStep(o)
        PROVE  Moves \/ UNCHANGED docs
    BY <1>2 DEF OperationStep, InspectImport, ImportReuses, InspectReplacement,
                OperationEnds, Moves
  <1>3. ASSUME NEW d \in DOMAIN docs, DocumentStep(d)
        PROVE  Moves \/ Kept
    <2>1. CASE Analyze(d) \/ EndRun(d)
      BY <2>1, <1>1 DEF Analyze, EndRun
    <2>2. CASE StageInRun(d) \/ StageInChannel(d) \/ EndStage(d)
      <3>1. \E phase : docs' = [docs EXCEPT ![d].phase = phase]
        BY <2>2 DEF StageInRun, StageInChannel, BeginStage, EndStage
      <3> QED
        BY <1>0, <3>1 DEF SameRow, SameContent, DocumentRows
    <2>3. CASE BeginExecution(d) \/ EndExecution(d)
      <3>1. \E n : docs' = [docs EXCEPT ![d].ai = n]
        BY <2>3 DEF BeginExecution, EndExecution
      <3> QED
        BY <1>0, <3>1 DEF SameRow, SameContent, DocumentRows
    <2> QED
      BY <1>3, <2>1, <2>2, <2>3 DEF DocumentStep, Moves
  <1>4. CASE Recover
    <2>1. ASSUME NEW r \in DocumentRows PROVE SameRow(RecoveredRow(r), r)
      BY DEF SameRow, SameContent, RecoveredRow, DocumentRows
    <2> QED
      BY <1>0, <1>4, <2>1, RowsRecovered
  <1>5. ASSUME NEW o \in Operations, NEW m \in Matters, PickImport(o, m)
        PROVE  UNCHANGED docs
    BY <1>5 DEF PickImport
  <1>6. ASSUME NEW o \in Operations, NEW d \in DOMAIN docs, PickReplacement(o, d)
        PROVE  UNCHANGED docs
    BY <1>6 DEF PickReplacement
  <1>7. ASSUME NEW m \in Matters, TrashMatter(m) \/ RestoreMatter(m)
        PROVE  UNCHANGED docs
    BY <1>7 DEF TrashMatter, RestoreMatter
  <1>8. Crash \/ UNCHANGED vars => UNCHANGED docs
    BY DEF Crash, vars
  <1> QED
    BY <1>1, <1>2, <1>3, <1>4, <1>5, <1>6, <1>7, <1>8 DEF Next

\* An import adds a row of its own content.
LEMMA ImportRows ==
    ASSUME TypeOK, NEW o \in Operations, ImportCreates(o)
    PROVE  /\ docs' \in Seq(DocumentRows)
           /\ DOMAIN docs' = DOMAIN docs \cup {Len(docs) + 1}
           /\ Len(docs) + 1 \notin DOMAIN docs
           /\ \A e \in DOMAIN docs : docs'[e] = docs[e]
           /\ docs'[Len(docs) + 1] = Imported(op[o].matter, op[o].hash, 0)
  <1>1. docs \in Seq(DocumentRows)
    BY DEF TypeOK
  <1>2. op[o].matter \in Matters /\ op[o].hash \in Hashes
    BY DEF ImportCreates, Ops, TypeOK
  <1>3. Imported(op[o].matter, op[o].hash, 0) \in DocumentRows
    BY <1>2, ImportedRow
  <1> QED
    BY <1>1, <1>3, RowAppended DEF ImportCreates

\* A replacement moves the old row to the trash and adds its successor.
LEMMA ReplaceRows ==
    ASSUME TypeOK, NEW o \in Operations, Replace(o)
    PROVE  /\ op[o].target \in DOMAIN docs
           /\ docs' \in Seq(DocumentRows)
           /\ DOMAIN docs' = DOMAIN docs \cup {Len(docs) + 1}
           /\ Len(docs) + 1 \notin DOMAIN docs
           /\ \A e \in DOMAIN docs : e # op[o].target => docs'[e] = docs[e]
           /\ SameContent(docs'[op[o].target], docs[op[o].target])
           /\ docs'[op[o].target].trashed
           /\ docs'[op[o].target].phase = docs[op[o].target].phase
           /\ docs'[op[o].target].ai = docs[op[o].target].ai
           /\ docs'[Len(docs) + 1] =
                 Imported(docs[op[o].target].matter, op[o].hash, op[o].target)
  <1>1. docs \in Seq(DocumentRows)
    BY DEF TypeOK
  <1>2. op[o].target \in DOMAIN docs /\ op[o].hash \in Hashes
    BY DEF Replace, Ops, TypeOK
  <1> DEFINE d == op[o].target
             kept == [docs EXCEPT ![d].trashed = TRUE]
  <1>3. kept \in Seq(DocumentRows) /\ Len(kept) = Len(docs) /\ DOMAIN kept = DOMAIN docs
    BY <1>1, <1>2, TrashedWritten
  <1>4. docs[d] \in DocumentRows /\ d \in Nat
    BY <1>1, <1>2
  <1>5. Imported(docs[d].matter, op[o].hash, d) \in DocumentRows
    <2>1. docs[d].matter \in Matters
      BY <1>4 DEF DocumentRows
    <2> QED
      BY <1>2, <1>4, <2>1, ImportedRow
  <1>6. docs' = Append(kept, Imported(docs[d].matter, op[o].hash, d))
    BY DEF Replace, Replaced
  <1>7. /\ \A e \in DOMAIN docs : e # d => kept[e] = docs[e]
        /\ kept[d] = [docs[d] EXCEPT !.trashed = TRUE]
    BY <1>1, <1>2
  <1>8. /\ SameContent(kept[d], docs[d]) /\ kept[d].trashed
        /\ kept[d].phase = docs[d].phase /\ kept[d].ai = docs[d].ai
    BY <1>4, <1>7 DEF SameContent, DocumentRows
  <1> HIDE DEF kept
  <1>9. docs'[d] = kept[d]
    BY <1>2, <1>3, <1>5, <1>6, RowAppended
  <1> QED
    BY <1>2, <1>3, <1>5, <1>6, <1>7, <1>8, <1>9, RowAppended

\* Trash and restore move one row.
LEMMA TrashRows ==
    ASSUME TypeOK, NEW d \in DOMAIN docs, TrashDocument(d) \/ RestoreDocument(d)
    PROVE  /\ docs' \in Seq(DocumentRows)
           /\ DOMAIN docs' = DOMAIN docs
           /\ \A e \in DOMAIN docs : e # d => docs'[e] = docs[e]
           /\ SameContent(docs'[d], docs[d])
           /\ docs'[d].trashed = ~docs[d].trashed
           /\ docs'[d].phase = docs[d].phase /\ docs'[d].ai = docs[d].ai
  <1>1. docs \in Seq(DocumentRows)
    BY DEF TypeOK
  <1>2. docs[d] \in DocumentRows
    BY <1>1
  <1>3. docs' = [docs EXCEPT ![d].trashed = ~docs[d].trashed]
    BY <1>2 DEF TrashDocument, RestoreDocument, Visible, DocumentRows
  <1>4. docs'[d] = [docs[d] EXCEPT !.trashed = ~docs[d].trashed]
    BY <1>1, <1>3
  <1>5. docs' \in Seq(DocumentRows) /\ DOMAIN docs' = DOMAIN docs
    BY <1>1, <1>2, <1>3, TrashedWritten DEF DocumentRows
  <1> QED
    BY <1>1, <1>2, <1>3, <1>4, <1>5 DEF SameContent, DocumentRows

-----------------------------------------------------------------------------
(* Types.                                                                  *)

\* The types hold of the empty database.
LEMMA InitType == Init => TypeOK
  <1> SUFFICES ASSUME Init PROVE TypeOK
    OBVIOUS
  <1>1. docs = <<>> /\ log = <<>> /\ DOMAIN docs = {}
    BY DEF Init
  <1>2. op \in [Operations -> Ops] /\ \A o \in Operations : op[o].pc = "idle"
    BY DEF Init, Ops, IdleOp
  <1> QED
    BY <1>1, <1>2, BoundsAssumption DEF Init, TypeOK

\* Every step keeps the types.
LEMMA NextType == TypeOK /\ [Next]_vars => TypeOK'
  <1> SUFFICES ASSUME TypeOK, [Next]_vars PROVE TypeOK'
    OBVIOUS
  <1> USE DEF TypeOK
  <1>1. ASSUME NEW o \in Operations, NEW m \in Matters, PickImport(o, m)
        PROVE  TypeOK'
    BY <1>1 DEF PickImport, Request, Ops, IdleOp
  <1>2. ASSUME NEW o \in Operations, NEW d \in DOMAIN docs, PickReplacement(o, d)
        PROVE  TypeOK'
    BY <1>2 DEF PickReplacement, Request, Ops, IdleOp
  <1>3. ASSUME NEW o \in Operations, OperationStep(o)
        PROVE  TypeOK'
    <2>1. CASE InspectImport(o)
      BY <2>1 DEF InspectImport, Ops
    <2>2. CASE ImportReuses(o)
      BY <2>2 DEF ImportReuses, Ops, IdleOp, ActiveWith
    <2>3. CASE ImportCreates(o)
      <3>1. docs' \in Seq(DocumentRows) /\ DOMAIN docs \subseteq DOMAIN docs'
        BY <2>3, ImportRows
      <3>2. Len(docs) + 1 \in DOMAIN docs'
        BY <2>3, ImportRows
      <3> QED
        BY <2>3, <3>1, <3>2 DEF ImportCreates, Ops, IdleOp
    <2>4. CASE InspectReplacement(o)
      BY <2>4 DEF InspectReplacement, Ops
    <2>5. CASE Replace(o)
      <3>1. op[o].target \in DOMAIN docs /\ op[o].target \in Nat
        BY <2>5 DEF Replace
      <3>5. /\ docs' \in Seq(DocumentRows)
            /\ DOMAIN docs' = DOMAIN docs \cup {Len(docs) + 1}
        BY <2>5, ReplaceRows
      <3>6. log' \in Seq(EventRows)
        BY <2>5, <3>1 DEF Replace, EventRows
      <3>7. op' \in [Operations -> Ops]
        BY <2>5 DEF Replace, Ops, IdleOp
      <3> QED
        BY <2>5, <3>5, <3>6, <3>7 DEF Replace, IdleOp
    <2>6. CASE OperationEnds(o)
      BY <2>6 DEF OperationEnds, Ops, IdleOp
    <2> QED
      BY <1>3, <2>1, <2>2, <2>3, <2>4, <2>5, <2>6 DEF OperationStep
  <1>4. ASSUME NEW d \in DOMAIN docs, DocumentStep(d)
        PROVE  TypeOK'
    <2>0. docs[d] \in DocumentRows /\ d \in Nat
      OBVIOUS
    <2>1. CASE TrashDocument(d)
      <3>1. docs' \in Seq(DocumentRows) /\ DOMAIN docs' = DOMAIN docs
        BY <2>1, TrashRows
      <3>2. log' \in Seq(EventRows)
        BY <2>0, <2>1 DEF TrashDocument, EventRows
      <3> QED
        BY <2>1, <3>1, <3>2 DEF TrashDocument, Request
    <2>2. CASE RestoreDocument(d)
      <3>1. docs' \in Seq(DocumentRows) /\ DOMAIN docs' = DOMAIN docs
        BY <2>2, TrashRows
      <3>2. log' \in Seq(EventRows)
        BY <2>0, <2>2 DEF RestoreDocument, EventRows
      <3> QED
        BY <2>2, <3>1, <3>2 DEF RestoreDocument, Request
    <2>3. CASE Analyze(d)
      BY <2>3, SMTT(30) DEF Analyze, Request
    <2>4. CASE StageInRun(d) \/ StageInChannel(d)
      <3>0. docs' = [docs EXCEPT ![d].phase = "live"]
        BY <2>4 DEF StageInRun, StageInChannel, BeginStage
      <3>1. docs' \in Seq(DocumentRows) /\ DOMAIN docs' = DOMAIN docs
        BY <3>0, PhaseWritten
      <3> QED
        BY <2>4, <3>1 DEF StageInRun, StageInChannel, BeginStage, Request
    <2>5. CASE EndStage(d)
      <3>0. PICK phase \in {"rest", "sanitized"} : docs' = [docs EXCEPT ![d].phase = phase]
        BY <2>5 DEF EndStage
      <3>1. docs' \in Seq(DocumentRows) /\ DOMAIN docs' = DOMAIN docs
        BY <3>0, PhaseWritten
      <3> QED
        BY <2>5, <3>1 DEF EndStage
    <2>6. CASE EndRun(d)
      BY <2>6 DEF EndRun
    <2>7. CASE BeginExecution(d)
      <3>1. docs[d].ai + 1 \in Nat
        BY <2>0 DEF DocumentRows
      <3>2. docs' \in Seq(DocumentRows) /\ DOMAIN docs' = DOMAIN docs
        BY <2>7, <3>1, ExecutionsWritten DEF BeginExecution
      <3> QED
        BY <2>7, <3>2 DEF BeginExecution, Request
    <2>8. CASE EndExecution(d)
      <3>1. docs[d].ai - 1 \in Nat
        BY <2>0, <2>8 DEF DocumentRows, EndExecution, RunningExecution
      <3>2. docs' \in Seq(DocumentRows) /\ DOMAIN docs' = DOMAIN docs
        BY <2>8, <3>1, ExecutionsWritten DEF EndExecution
      <3> QED
        BY <2>8, <3>2 DEF EndExecution
    <2> QED
      BY <1>4, <2>1, <2>2, <2>3, <2>4, <2>5, <2>6, <2>7, <2>8 DEF DocumentStep
  <1>5. ASSUME NEW m \in Matters, TrashMatter(m) \/ RestoreMatter(m)
        PROVE  TypeOK'
    <2>1. /\ matter' \in [Matters -> {"ACTIVE", "DELETED"}]
          /\ UNCHANGED <<docs, runs, op, up>>
      BY <1>5 DEF TrashMatter, RestoreMatter
    <2>0. /\ [type |-> "MATTER_TRASHED", matter |-> m] \in EventRows
          /\ [type |-> "MATTER_RESTORED", matter |-> m] \in EventRows
      BY DEF EventRows
    <2>2. \E e \in EventRows : log' = Append(log, e)
      BY <1>5, <2>0 DEF TrashMatter, RestoreMatter
    <2>4. log' \in Seq(EventRows)
      BY <2>2
    <2>3. budget' \in [requests: Nat, crashes: Nat]
      BY <1>5 DEF TrashMatter, RestoreMatter, Request
    <2> QED
      BY <2>1, <2>3, <2>4
  <1>6. CASE Crash
    <2>1. op' \in [Operations -> Ops] /\ \A o \in Operations : op'[o].pc = "idle"
      BY <1>6 DEF Crash, Ops, IdleOp
    <2>2. budget' \in [requests: Nat, crashes: Nat]
      BY <1>6 DEF Crash
    <2>3. runs' \subseteq DOMAIN docs' /\ up' \in BOOLEAN /\ UNCHANGED <<matter, docs, log>>
      BY <1>6 DEF Crash
    <2> QED
      BY <2>1, <2>2, <2>3
  <1>7. CASE Recover
    BY <1>7, RowsRecovered DEF Recover
  <1>8. CASE UNCHANGED vars
    BY <1>8 DEF vars
  <1> QED
    BY <1>1, <1>2, <1>3, <1>4, <1>5, <1>6, <1>7, <1>8 DEF Next

\* Every reachable state has the shapes the code gives its rows, callers,
\* reservations and log.
THEOREM TypeCorrect == Spec => []TypeOK
  BY InitType, NextType, PTL DEF Spec

-----------------------------------------------------------------------------
(* Contents.                                                               *)

Twins(r, s) ==
    ~r.trashed /\ ~s.trashed /\ r.matter = s.matter /\ r.hash = s.hash

\* Rows that stay or go to the trash have no new twins.
LEMMA NoNewTwins ==
    ASSUME UniqueActive,
           NEW d \in DOMAIN docs, NEW e \in DOMAIN docs,
           SameContent(docs'[d], docs[d]), SameContent(docs'[e], docs[e]),
           docs'[d].trashed \/ ~docs[d].trashed,
           docs'[e].trashed \/ ~docs[e].trashed,
           Twins(docs'[d], docs'[e])
    PROVE  d = e
  BY DEF UniqueActive, SameContent, Twins

\* A row becomes active only where no active row has its content.
LEMMA NextUnique == TypeOK /\ UniqueActive /\ [Next]_vars => UniqueActive'
  <1> SUFFICES ASSUME TypeOK, UniqueActive, [Next]_vars,
                      NEW d \in DOMAIN docs', NEW e \in DOMAIN docs',
                      Twins(docs'[d], docs'[e])
               PROVE  d = e
    BY DEF UniqueActive, Twins
  <1> DEFINE n == Len(docs) + 1
  <1>1. ASSUME NEW o \in Operations, ImportCreates(o) PROVE d = e
    <2>1. \A f \in DOMAIN docs : docs'[f] = docs[f] /\ ~Twins(docs[f], docs'[n])
      BY <1>1, ImportRows DEF ImportCreates, ActiveWith, Imported, Twins
    <2>2. DOMAIN docs' = DOMAIN docs \cup {n}
      BY <1>1, ImportRows
    <2>3. CASE d = n \/ e = n
      BY <2>1, <2>2, <2>3 DEF Twins
    <2>4. CASE d # n /\ e # n
      BY <2>1, <2>2, <2>4 DEF UniqueActive, Twins
    <2> QED
      BY <2>3, <2>4
  <1>2. ASSUME NEW o \in Operations, Replace(o) PROVE d = e
    <2> DEFINE old == op[o].target
    <2>1. /\ old \in DOMAIN docs /\ DOMAIN docs' = DOMAIN docs \cup {n}
          /\ SameContent(docs'[old], docs[old]) /\ docs'[old].trashed
          /\ \A f \in DOMAIN docs : f # old => docs'[f] = docs[f]
          /\ docs'[n] = Imported(docs[old].matter, op[o].hash, old)
      BY <1>2, ReplaceRows
    <2>2. \A f \in DOMAIN docs : f # old =>
             ~(/\ docs[f].matter = docs[old].matter /\ docs[f].hash = op[o].hash
               /\ ~docs[f].trashed)
      BY <1>2 DEF Replace, ReplaceAccepts, ActiveWith
    <2>3. \A f \in DOMAIN docs : ~Twins(docs'[f], docs'[n])
      BY <2>1, <2>2 DEF Imported, Twins
    <2>4. CASE d = n \/ e = n
      BY <2>1, <2>3, <2>4 DEF Twins
    <2>5. CASE d # n /\ e # n
      <3>1. d \in DOMAIN docs /\ e \in DOMAIN docs /\ d # old /\ e # old
        BY <2>1, <2>5 DEF Twins
      <3> QED
        BY <2>1, <3>1 DEF UniqueActive, Twins
    <2> QED
      BY <2>4, <2>5
  <1>3. ASSUME NEW x \in DOMAIN docs, TrashDocument(x) PROVE d = e
    <2>1. /\ DOMAIN docs' = DOMAIN docs
          /\ \A f \in DOMAIN docs : f # x => docs'[f] = docs[f]
          /\ docs'[x].trashed
      BY <1>3, TrashRows DEF TrashDocument, Visible
    <2> QED
      BY <2>1 DEF UniqueActive, Twins
  <1>4. ASSUME NEW x \in DOMAIN docs, RestoreDocument(x) PROVE d = e
    <2>1. /\ DOMAIN docs' = DOMAIN docs
          /\ \A f \in DOMAIN docs : f # x => docs'[f] = docs[f]
          /\ SameContent(docs'[x], docs[x])
      BY <1>4, TrashRows
    <2>2. \A f \in DOMAIN docs : f # x =>
             ~(/\ docs[f].matter = docs[x].matter /\ docs[f].hash = docs[x].hash
               /\ ~docs[f].trashed)
      BY <1>4 DEF RestoreDocument, RestoreAccepts, ActiveWith
    <2>3. CASE d # x /\ e # x
      BY <2>1, <2>3 DEF UniqueActive, Twins
    <2>4. CASE d = x \/ e = x
      BY <2>1, <2>2, <2>4 DEF SameContent, Twins
    <2> QED
      BY <2>3, <2>4
  <1>5. ASSUME DOMAIN docs' = DOMAIN docs,
               \A f \in DOMAIN docs : SameRow(docs'[f], docs[f])
        PROVE  d = e
    BY <1>5, NoNewTwins DEF SameRow, Twins
  <1> QED
    BY <1>1, <1>2, <1>3, <1>4, <1>5, OthersKeepRows DEF Moves

\* Whatever was imported, restored or replaced while a file was picked or
\* inspected: two active Documents of a Matter differ in content, without the
\* help of the partial unique index.
THEOREM ContentsUnique == Spec => []UniqueActive
  <1>1. Init => UniqueActive
    BY DEF Init, UniqueActive
  <1> QED
    BY <1>1, NextUnique, InitType, NextType, PTL DEF Spec

-----------------------------------------------------------------------------
(* Lineage.                                                                *)

\* Steps that keep the rows there are keep their lineage.
LEMMA LineageKept ==
    ASSUME TypeOK, LinearLineage,
           DOMAIN docs \subseteq DOMAIN docs',
           \A f \in DOMAIN docs : SameContent(docs'[f], docs[f]),
           \A f \in DOMAIN docs' \ DOMAIN docs : docs'[f].supersedes = 0
    PROVE  LinearLineage'
  <1>1. \A f \in DOMAIN docs : docs[f] \in DocumentRows /\ f \in Nat
    BY DEF TypeOK
  <1>2. DOMAIN docs = 1 .. Len(docs) /\ Len(docs) \in Nat
    BY DEF TypeOK
  <1>3. \A f \in DOMAIN docs : docs[f].supersedes # 0 =>
           docs[f].supersedes \in DOMAIN docs
    BY <1>1, <1>2 DEF LinearLineage, DocumentRows
  <1> QED
    BY <1>3 DEF LinearLineage, SameContent

\* A row with a predecessor comes only where no other names it.
LEMMA NextLinear == TypeOK /\ LinearLineage /\ [Next]_vars => LinearLineage'
  <1> SUFFICES ASSUME TypeOK, LinearLineage, [Next]_vars PROVE LinearLineage'
    OBVIOUS
  <1>1. ASSUME NEW o \in Operations, ImportCreates(o) PROVE LinearLineage'
    <2>1. /\ DOMAIN docs' = DOMAIN docs \cup {Len(docs) + 1}
          /\ docs'[Len(docs) + 1] = Imported(op[o].matter, op[o].hash, 0)
          /\ \A f \in DOMAIN docs : docs'[f] = docs[f]
      BY <1>1, ImportRows
    <2>2. docs'[Len(docs) + 1].supersedes = 0
      BY <2>1 DEF Imported
    <2>3. \A f \in DOMAIN docs : SameContent(docs'[f], docs[f])
      BY <2>1 DEF SameContent
    <2> QED
      BY <2>1, <2>2, <2>3, LineageKept
  <1>2. ASSUME NEW o \in Operations, Replace(o) PROVE LinearLineage'
    <2> DEFINE old == op[o].target
               n == Len(docs) + 1
    <2>0. /\ \A f \in DOMAIN docs : docs[f] \in DocumentRows
          /\ DOMAIN docs = 1 .. Len(docs) /\ Len(docs) \in Nat
      BY DEF TypeOK
    <2>1. /\ old \in DOMAIN docs /\ DOMAIN docs' = DOMAIN docs \cup {n}
          /\ SameContent(docs'[old], docs[old])
          /\ \A f \in DOMAIN docs : f # old => docs'[f] = docs[f]
          /\ docs'[n] = Imported(docs[old].matter, op[o].hash, old)
      BY <1>2, ReplaceRows
    <2>2. \A f \in DOMAIN docs : docs[f].supersedes # old
      BY <1>2 DEF Replace, ReplaceAccepts, Successors
    <2>3. /\ docs'[n].supersedes = old /\ docs'[n].matter = docs[old].matter
          /\ old < n /\ old # 0
      BY <2>0, <2>1 DEF Imported
    <2>4. \A f \in DOMAIN docs : SameContent(docs'[f], docs[f])
      BY <2>1 DEF SameContent
    <2>5. \A f \in DOMAIN docs : docs[f].supersedes # 0 =>
             docs[f].supersedes \in DOMAIN docs
      BY <2>0 DEF LinearLineage, DocumentRows
    <2> HIDE DEF old, n
    <2>6. \A f \in DOMAIN docs' : docs'[f].supersedes # 0 =>
             /\ docs'[f].supersedes < f
             /\ docs'[docs'[f].supersedes].matter = docs'[f].matter
      BY <2>1, <2>3, <2>4, <2>5 DEF LinearLineage, SameContent
    <2>7. \A f, g \in DOMAIN docs' :
             docs'[f].supersedes = docs'[g].supersedes /\ docs'[f].supersedes # 0 => f = g
      BY <2>1, <2>2, <2>3, <2>4 DEF LinearLineage, SameContent
    <2> QED
      BY <2>6, <2>7 DEF LinearLineage
  <1>3. ASSUME NEW x \in DOMAIN docs, TrashDocument(x) \/ RestoreDocument(x)
        PROVE  LinearLineage'
    <2>1. /\ DOMAIN docs' = DOMAIN docs
          /\ \A f \in DOMAIN docs : f # x => docs'[f] = docs[f]
          /\ SameContent(docs'[x], docs[x])
      BY <1>3, TrashRows
    <2>2. \A f \in DOMAIN docs : SameContent(docs'[f], docs[f])
      BY <2>1 DEF SameContent
    <2> QED
      BY <2>1, <2>2, LineageKept
  <1>4. ASSUME DOMAIN docs' = DOMAIN docs,
               \A f \in DOMAIN docs : SameRow(docs'[f], docs[f])
        PROVE  LinearLineage'
    BY <1>4, LineageKept DEF SameRow
  <1> QED
    BY <1>1, <1>2, <1>3, <1>4, OthersKeepRows DEF Moves

\* No two versions ever supersede the same Document, however trash, restore
\* and replacement follow each other: "Lineage is linear in V1".
THEOREM LineageLinear == Spec => []LinearLineage
  <1>1. Init => LinearLineage
    BY DEF Init, LinearLineage
  <1> QED
    BY <1>1, NextLinear, InitType, NextType, PTL DEF Spec

-----------------------------------------------------------------------------
(* The trash.                                                              *)

\* A step that leaves the rows and the Matters alone and reserves, at most,
\* visible Documents.
LEMMA OnlyReserves ==
    ASSUME QuietTrash, UNCHANGED <<matter, docs>>,
           \A d \in runs' \ runs : Visible(d)
    PROVE  QuietTrash'
  BY DEF QuietTrash, Visible, IdleWork

\* A step that works on one Document which is visible, or ends work.
LEMMA OnlyWorks ==
    ASSUME TypeOK, QuietTrash, UNCHANGED matter, NEW d \in DOMAIN docs,
           runs' \subseteq runs,
           DOMAIN docs' = DOMAIN docs,
           \A e \in DOMAIN docs : e # d => docs'[e] = docs[e],
           SameRow(docs'[d], docs[d]),
           Visible(d) \/ (IdleWork(d) => IdleWork(d)')
    PROVE  QuietTrash'
  BY DEF QuietTrash, Visible, IdleWork, SameRow, SameContent

\* What goes to the trash is idle, and what begins or is reserved is visible.
LEMMA NextQuiet == TypeOK /\ QuietTrash /\ [Next]_vars => QuietTrash'
  <1> SUFFICES ASSUME TypeOK, QuietTrash, [Next]_vars PROVE QuietTrash'
    OBVIOUS
  <1>0. docs \in Seq(DocumentRows) /\ \A d \in DOMAIN docs : docs[d] \in DocumentRows
    BY DEF TypeOK
  <1>1. ASSUME NEW o \in Operations, NEW m \in Matters, PickImport(o, m)
        PROVE  QuietTrash'
    BY <1>1, OnlyReserves DEF PickImport
  <1>2. ASSUME NEW o \in Operations, NEW d \in DOMAIN docs, PickReplacement(o, d)
        PROVE  QuietTrash'
    BY <1>2, OnlyReserves DEF PickReplacement
  <1>3. ASSUME NEW o \in Operations, OperationStep(o)
        PROVE  QuietTrash'
    <2>1. CASE InspectImport(o) \/ InspectReplacement(o) \/ OperationEnds(o)
      BY <2>1, OnlyReserves DEF InspectImport, InspectReplacement, OperationEnds
    <2>2. CASE ImportReuses(o)
      BY <2>2, OnlyReserves DEF ImportReuses, ActiveWith, Visible
    <2>3. CASE ImportCreates(o)
      <3> DEFINE n == Len(docs) + 1
      <3>1. /\ DOMAIN docs' = DOMAIN docs \cup {n} /\ n \notin DOMAIN docs
            /\ docs'[n] = Imported(op[o].matter, op[o].hash, 0)
            /\ \A e \in DOMAIN docs : docs'[e] = docs[e]
        BY <2>3, ImportRows
      <3>2. matter' = matter /\ matter[op[o].matter] = "ACTIVE" /\ runs' = runs \cup {n}
        BY <2>3 DEF ImportCreates
      <3>3. ~docs'[n].trashed /\ docs'[n].matter = op[o].matter
        BY <3>1 DEF Imported
      <3> HIDE DEF n
      <3> QED
        BY <3>1, <3>2, <3>3 DEF QuietTrash, Visible, IdleWork
    <2>4. CASE Replace(o)
      <3> DEFINE n == Len(docs) + 1
                 old == op[o].target
      <3>1. /\ old \in DOMAIN docs
            /\ DOMAIN docs' = DOMAIN docs \cup {n} /\ n \notin DOMAIN docs
            /\ docs'[n] = Imported(docs[old].matter, op[o].hash, old)
            /\ docs'[old].phase = docs[old].phase /\ docs'[old].ai = docs[old].ai
            /\ \A e \in DOMAIN docs : e # old => docs'[e] = docs[e]
        BY <2>4, ReplaceRows
      <3>2. /\ matter' = matter /\ runs' = runs \cup {n}
            /\ matter[docs[old].matter] = "ACTIVE" /\ old \notin runs /\ IdleWork(old)
        BY <2>4 DEF Replace, ReplaceAccepts, PreCommitGuard, Visible
      <3>3. ~docs'[n].trashed /\ docs'[n].matter = docs[old].matter
        BY <3>1 DEF Imported
      <3> HIDE DEF n, old
      <3> QED
        BY <3>1, <3>2, <3>3 DEF QuietTrash, Visible, IdleWork
    <2> QED
      BY <1>3, <2>1, <2>2, <2>3, <2>4 DEF OperationStep
  <1>4. ASSUME NEW d \in DOMAIN docs, DocumentStep(d)
        PROVE  QuietTrash'
    <2>1. CASE TrashDocument(d) \/ RestoreDocument(d)
      <3>1. /\ DOMAIN docs' = DOMAIN docs
            /\ \A e \in DOMAIN docs : e # d => docs'[e] = docs[e]
            /\ docs'[d].phase = docs[d].phase /\ docs'[d].ai = docs[d].ai
        BY <2>1, TrashRows
      <3>2. IdleWork(d) /\ d \notin runs
        BY <2>1 DEF TrashDocument, RestoreDocument, QuietTrash, Visible
      <3>3. matter' = matter /\ runs' = runs
        BY <2>1 DEF TrashDocument, RestoreDocument
      <3> QED
        BY <3>1, <3>2, <3>3 DEF QuietTrash, Visible, IdleWork
    <2>2. CASE Analyze(d)
      BY <2>2, OnlyReserves DEF Analyze
    <2>3. CASE EndRun(d)
      BY <2>3, OnlyReserves DEF EndRun
    <2>4. CASE StageInRun(d) \/ StageInChannel(d)
      <3>1. docs' = [docs EXCEPT ![d].phase = "live"] /\ UNCHANGED <<matter, runs>>
        BY <2>4 DEF StageInRun, StageInChannel, BeginStage
      <3>2. Visible(d)
        BY <2>4 DEF StageInRun, StageInChannel, BeginStage
      <3>3. SameRow(docs'[d], docs[d])
        BY <1>0, <3>1 DEF SameRow, SameContent, DocumentRows
      <3> QED
        BY <1>0, <3>1, <3>2, <3>3, OnlyWorks
    <2>5. CASE EndStage(d)
      <3>1. /\ \E phase : docs' = [docs EXCEPT ![d].phase = phase]
            /\ docs[d].phase = "live" /\ UNCHANGED <<matter, runs>>
        BY <2>5 DEF EndStage
      <3>2. SameRow(docs'[d], docs[d])
        BY <1>0, <3>1 DEF SameRow, SameContent, DocumentRows
      <3>3. ~IdleWork(d)
        BY <3>1 DEF IdleWork
      <3> QED
        BY <1>0, <3>1, <3>2, <3>3, OnlyWorks
    <2>6. CASE BeginExecution(d) \/ EndExecution(d)
      <3>1. (\E k : docs' = [docs EXCEPT ![d].ai = k]) /\ UNCHANGED <<matter, runs>>
        BY <2>6 DEF BeginExecution, EndExecution
      <3>2. SameRow(docs'[d], docs[d])
        BY <1>0, <3>1 DEF SameRow, SameContent, DocumentRows
      <3>3. Visible(d) \/ ~IdleWork(d)
        BY <1>0, <2>6 DEF BeginExecution, EndExecution, RunningExecution, IdleWork,
                          DocumentRows
      <3> QED
        BY <1>0, <3>1, <3>2, <3>3, OnlyWorks
    <2> QED
      BY <1>4, <2>1, <2>2, <2>3, <2>4, <2>5, <2>6 DEF DocumentStep
  <1>5. ASSUME NEW m \in Matters, TrashMatter(m)
        PROVE  QuietTrash'
    <2>1. \A d \in DOMAIN docs : docs[d].matter = m => IdleWork(d) /\ d \notin runs
      BY <1>5 DEF TrashMatter, QuietTrash, Visible
    <2>2. \A d \in DOMAIN docs : docs[d].matter # m => (Visible(d)' <=> Visible(d))
      BY <1>5 DEF TrashMatter, Visible, TypeOK
    <2>3. UNCHANGED <<docs, runs>>
      BY <1>5 DEF TrashMatter
    <2> QED
      BY <2>1, <2>2, <2>3 DEF QuietTrash, IdleWork
  <1>6. ASSUME NEW m \in Matters, RestoreMatter(m)
        PROVE  QuietTrash'
    <2>1. \A d \in DOMAIN docs : Visible(d) => Visible(d)'
      BY <1>6 DEF RestoreMatter, Visible, TypeOK
    <2>2. UNCHANGED <<docs, runs>>
      BY <1>6 DEF RestoreMatter
    <2> QED
      BY <2>1, <2>2 DEF QuietTrash, IdleWork
  <1>7. CASE Crash
    BY <1>7, OnlyReserves DEF Crash
  <1>8. CASE Recover
    <2>1. \A d \in DOMAIN docs : docs'[d] = RecoveredRow(docs[d]) /\ docs'[d] \in DocumentRows
      BY <1>0, <1>8, RowsRecovered
    <2>2. \A r \in DocumentRows :
             /\ SameRow(RecoveredRow(r), r)
             /\ RecoveredRow(r).phase # "live" /\ RecoveredRow(r).ai = 0
      BY DEF SameRow, SameContent, RecoveredRow, DocumentRows
    <2>3. UNCHANGED <<matter, runs>> /\ DOMAIN docs' = DOMAIN docs
      BY <1>0, <1>8, RowsRecovered DEF Recover
    <2> QED
      BY <1>0, <2>1, <2>2, <2>3 DEF QuietTrash, Visible, IdleWork, SameRow, SameContent
  <1>9. CASE UNCHANGED vars
    BY <1>9, OnlyReserves DEF vars
  <1> QED
    BY <1>1, <1>2, <1>3, <1>4, <1>5, <1>6, <1>7, <1>8, <1>9 DEF Next

\* Nothing in the trash is scheduled, in a stage or at an AI provider, for any
\* number of picks, inspections and runs under way.
THEOREM TrashQuiet == Spec => []QuietTrash
  <1>1. Init => QuietTrash
    BY DEF Init, QuietTrash
  <1> QED
    BY <1>1, NextQuiet, InitType, NextType, PTL DEF Spec

-----------------------------------------------------------------------------
(* The audit log.                                                          *)

\* Positions of a log: what one more event does to "the last event is in S"
\* and to the alternation of S and T.
LEMMA LaterIsLast ==
    ASSUME NEW k \in Nat, NEW S \in SUBSET (1 .. k), NEW T \in SUBSET (1 .. k)
    PROVE  /\ LastIsIn(S \cup {k + 1}, T)
           /\ ~LastIsIn(S, T \cup {k + 1})
  <1>1. \A j \in T : j < k + 1
    OBVIOUS
  <1>2. \A i \in S : ~(k + 1 < i)
    OBVIOUS
  <1> QED
    BY <1>1, <1>2 DEF LastIsIn

\* When the last event is not in S, one more in S keeps the alternation.
LEMMA LaterAlternates ==
    ASSUME NEW k \in Nat, NEW S \in SUBSET (1 .. k), NEW T \in SUBSET (1 .. k),
           S \cap T = {}, Alternate(S, T), Alternate(T, S), ~LastIsIn(S, T)
    PROVE  Alternate(S \cup {k + 1}, T) /\ Alternate(T, S \cup {k + 1})
  <1>1. \A i \in S : \E j \in T : i < j /\ j < k + 1
    BY DEF LastIsIn
  <1>2. \A i \in S : ~(k + 1 < i)
    OBVIOUS
  <1> QED
    BY <1>1, <1>2 DEF Alternate

\* The last event is not in both.
LEMMA LastExcludes ==
    ASSUME NEW k \in Nat, NEW S \in SUBSET (1 .. k), NEW T \in SUBSET (1 .. k),
           LastIsIn(S, T)
    PROVE  ~LastIsIn(T, S)
  BY DEF LastIsIn

\* What an event does to a Document, whatever log it stands in.
Trashes(e, d) ==
    \/ e = [type |-> "DOCUMENT_TRASHED", document |-> d]
    \/ e.type = "DOCUMENT_REPLACED" /\ e.superseded = d
Restores(e, d) == e = [type |-> "DOCUMENT_RESTORED", document |-> d]

\* The events of a Document are positions of the log, of one kind or the other.
LEMMA EventSets ==
    ASSUME TypeOK, NEW d \in Nat
    PROVE  /\ TrashEvents(d) = {i \in 1 .. Len(log) : Trashes(log[i], d)}
           /\ RestoreEvents(d) = {i \in 1 .. Len(log) : Restores(log[i], d)}
           /\ TrashEvents(d) \cap RestoreEvents(d) = {}
  <1>1. DOMAIN log = 1 .. Len(log)
    BY DEF TypeOK
  <1>2. ASSUME NEW i \in DOMAIN log, Trashes(log[i], d), Restores(log[i], d) PROVE FALSE
    BY <1>2 DEF Trashes, Restores
  <1> QED
    BY <1>1, <1>2 DEF TrashEvents, RestoreEvents, Trashes, Restores

\* One more event is one more position.
LEMMA EventAppended ==
    ASSUME TypeOK, TypeOK', NEW e \in EventRows, log' = Append(log, e), NEW d \in Nat
    PROVE  /\ TrashEvents(d)' =
                 TrashEvents(d) \cup (IF Trashes(e, d) THEN {Len(log) + 1} ELSE {})
           /\ RestoreEvents(d)' =
                 RestoreEvents(d) \cup (IF Restores(e, d) THEN {Len(log) + 1} ELSE {})
  <1>1. /\ log \in Seq(EventRows) /\ log' \in Seq(EventRows)
        /\ Len(log') = Len(log) + 1 /\ Len(log) \in Nat
        /\ log'[Len(log) + 1] = e
        /\ \A i \in 1 .. Len(log) : log'[i] = log[i]
    BY DEF TypeOK
  <1>2. 1 .. Len(log') = (1 .. Len(log)) \cup {Len(log) + 1}
    BY <1>1
  <1>3. /\ TrashEvents(d)' = {i \in 1 .. Len(log') : Trashes(log'[i], d)}
        /\ RestoreEvents(d)' = {i \in 1 .. Len(log') : Restores(log'[i], d)}
    BY <1>1 DEF TrashEvents, RestoreEvents, Trashes, Restores
  <1> QED
    BY <1>1, <1>2, <1>3, EventSets

\* The history of a Document or a Matter in the trash or not: S its moves to
\* the trash, T its moves back.
History(trashed, S, T) ==
    /\ trashed <=> LastIsIn(S, T)
    /\ Alternate(S, T) /\ Alternate(T, S)

\* A move to the trash, of what is not there, continues the history.
LEMMA HistoryTrashed ==
    ASSUME NEW k \in Nat, NEW S \in SUBSET (1 .. k), NEW T \in SUBSET (1 .. k),
           S \cap T = {}, History(FALSE, S, T)
    PROVE  History(TRUE, S \cup {k + 1}, T)
  BY LaterIsLast, LaterAlternates DEF History

\* A move back, of what is in the trash, does too.
LEMMA HistoryRestored ==
    ASSUME NEW k \in Nat, NEW S \in SUBSET (1 .. k), NEW T \in SUBSET (1 .. k),
           S \cap T = {}, History(TRUE, S, T)
    PROVE  History(FALSE, S, T \cup {k + 1})
  <1>1. ~LastIsIn(T, S)
    BY LastExcludes DEF History
  <1>2. Alternate(T \cup {k + 1}, S) /\ Alternate(S, T \cup {k + 1})
    BY <1>1, LaterAlternates DEF History
  <1> QED
    BY <1>2, LaterIsLast DEF History

\* What no event names is not in the trash.
LEMMA HistoryEmpty == History(FALSE, {}, {})
  BY DEF History, LastIsIn, Alternate

Gone(d) == d \in DOMAIN docs /\ docs[d].trashed

\* Every Document and every Matter has its history; a Document that is still to
\* come has none in the trash.
Audit ==
    /\ \A d \in Nat : History(Gone(d), TrashEvents(d), RestoreEvents(d))
    /\ \A m \in Matters : History(matter[m] = "DELETED",
                                  MatterEvents(m, "MATTER_TRASHED"),
                                  MatterEvents(m, "MATTER_RESTORED"))

\* What one event must say of the step that appends it.
DocumentLogged(e, d) ==
    \/ Trashes(e, d) /\ ~Restores(e, d) /\ ~Gone(d) /\ Gone(d)'
    \/ Restores(e, d) /\ ~Trashes(e, d) /\ Gone(d) /\ ~Gone(d)'
    \/ ~Trashes(e, d) /\ ~Restores(e, d) /\ (Gone(d)' <=> Gone(d))

MatterLogged(e, m) ==
    LET trashes  == e = [type |-> "MATTER_TRASHED", matter |-> m]
        restores == e = [type |-> "MATTER_RESTORED", matter |-> m] IN
    \/ trashes /\ ~restores /\ matter[m] # "DELETED" /\ matter'[m] = "DELETED"
    \/ restores /\ ~trashes /\ matter[m] = "DELETED" /\ matter'[m] # "DELETED"
    \/ ~trashes /\ ~restores /\ (matter'[m] = "DELETED" <=> matter[m] = "DELETED")

Logs(e) ==
    /\ log' = Append(log, e)
    /\ \A d \in Nat : DocumentLogged(e, d)
    /\ \A m \in Matters : MatterLogged(e, m)

LogsNothing ==
    UNCHANGED <<log, matter>> /\ \A d \in Nat : Gone(d)' <=> Gone(d)

\* A step that appends nothing moves nothing, and one that appends an event
\* moves what the event says.
LEMMA MovesLog ==
    ASSUME TypeOK, Moves
    PROVE  LogsNothing \/ \E e \in EventRows : Logs(e)
  <1>0. /\ docs \in Seq(DocumentRows) /\ \A d \in DOMAIN docs : docs[d] \in DocumentRows
        /\ DOMAIN docs \subseteq Nat /\ Len(docs) \in Nat
    BY DEF TypeOK
  <1>1. ASSUME NEW o \in Operations, ImportCreates(o) PROVE LogsNothing
    <2> DEFINE n == Len(docs) + 1
    <2>1. /\ DOMAIN docs' = DOMAIN docs \cup {n} /\ n \notin DOMAIN docs
          /\ docs'[n] = Imported(op[o].matter, op[o].hash, 0)
          /\ \A f \in DOMAIN docs : docs'[f] = docs[f]
      BY <1>1, ImportRows
    <2>2. ~docs'[n].trashed
      BY <2>1 DEF Imported
    <2> HIDE DEF n
    <2> QED
      BY <1>1, <2>1, <2>2 DEF LogsNothing, Gone, ImportCreates
  <1>2. ASSUME NEW o \in Operations, Replace(o) PROVE \E e \in EventRows : Logs(e)
    <2> DEFINE n == Len(docs) + 1
               old == op[o].target
               e == [type |-> "DOCUMENT_REPLACED", document |-> n, superseded |-> old]
    <2>1. /\ old \in DOMAIN docs
          /\ DOMAIN docs' = DOMAIN docs \cup {n} /\ n \notin DOMAIN docs
          /\ docs'[n] = Imported(docs[old].matter, op[o].hash, old)
          /\ docs'[old].trashed
          /\ \A f \in DOMAIN docs : f # old => docs'[f] = docs[f]
      BY <1>2, ReplaceRows
    <2>2. ~docs'[n].trashed
      BY <2>1 DEF Imported
    <2>3. log' = Append(log, e) /\ matter' = matter /\ ~docs[old].trashed
      BY <1>2 DEF Replace, ReplaceAccepts, Visible
    <2>4. e \in EventRows
      BY <1>0, <2>1 DEF EventRows
    <2>5. \A d \in Nat : ~Restores(e, d) /\ (Trashes(e, d) <=> d = old)
      BY DEF Trashes, Restores
    <2>6. \A m \in Matters : MatterLogged(e, m)
      BY <2>3 DEF MatterLogged
    <2> HIDE DEF n, old, e
    <2>7. \A d \in Nat : DocumentLogged(e, d)
      BY <2>1, <2>2, <2>3, <2>5 DEF DocumentLogged, Gone
    <2> QED
      BY <2>3, <2>4, <2>6, <2>7 DEF Logs
  <1>3. ASSUME NEW x \in DOMAIN docs, TrashDocument(x)
        PROVE  \E e \in EventRows : Logs(e)
    <2> DEFINE e == [type |-> "DOCUMENT_TRASHED", document |-> x]
    <2>1. /\ DOMAIN docs' = DOMAIN docs
          /\ \A f \in DOMAIN docs : f # x => docs'[f] = docs[f]
          /\ docs'[x].trashed /\ ~docs[x].trashed
      BY <1>3, TrashRows DEF TrashDocument, Visible
    <2>2. log' = Append(log, e) /\ matter' = matter
      BY <1>3 DEF TrashDocument
    <2>3. e \in EventRows
      BY <1>0 DEF EventRows
    <2>4. \A d \in Nat : ~Restores(e, d) /\ (Trashes(e, d) <=> d = x)
      BY DEF Trashes, Restores
    <2>5. \A m \in Matters : MatterLogged(e, m)
      BY <2>2 DEF MatterLogged
    <2> HIDE DEF e
    <2>6. \A d \in Nat : DocumentLogged(e, d)
      BY <2>1, <2>4 DEF DocumentLogged, Gone
    <2> QED
      BY <2>2, <2>3, <2>5, <2>6 DEF Logs
  <1>4. ASSUME NEW x \in DOMAIN docs, RestoreDocument(x)
        PROVE  \E e \in EventRows : Logs(e)
    <2> DEFINE e == [type |-> "DOCUMENT_RESTORED", document |-> x]
    <2>1. /\ DOMAIN docs' = DOMAIN docs
          /\ \A f \in DOMAIN docs : f # x => docs'[f] = docs[f]
          /\ ~docs'[x].trashed /\ docs[x].trashed
      BY <1>4, TrashRows DEF RestoreDocument
    <2>2. log' = Append(log, e) /\ matter' = matter
      BY <1>4 DEF RestoreDocument
    <2>3. e \in EventRows
      BY <1>0 DEF EventRows
    <2>4. \A d \in Nat : ~Trashes(e, d) /\ (Restores(e, d) <=> d = x)
      BY DEF Trashes, Restores
    <2>5. \A m \in Matters : MatterLogged(e, m)
      BY <2>2 DEF MatterLogged
    <2> HIDE DEF e
    <2>6. \A d \in Nat : DocumentLogged(e, d)
      BY <2>1, <2>4 DEF DocumentLogged, Gone
    <2> QED
      BY <2>2, <2>3, <2>5, <2>6 DEF Logs
  <1> QED
    BY <1>1, <1>2, <1>3, <1>4 DEF Moves

\* The same for a Matter.
LEMMA MatterMovesLog ==
    ASSUME TypeOK, NEW m \in Matters, TrashMatter(m) \/ RestoreMatter(m)
    PROVE  \E e \in EventRows : Logs(e)
  <1>1. ASSUME TrashMatter(m) PROVE \E e \in EventRows : Logs(e)
    <2> DEFINE e == [type |-> "MATTER_TRASHED", matter |-> m]
    <2>1. /\ log' = Append(log, e) /\ docs' = docs
          /\ matter[m] = "ACTIVE" /\ matter' = [matter EXCEPT ![m] = "DELETED"]
      BY <1>1 DEF TrashMatter
    <2>2. e \in EventRows
      BY DEF EventRows
    <2>3. \A d \in Nat : DocumentLogged(e, d)
      BY <2>1 DEF DocumentLogged, Gone, Trashes, Restores
    <2>4. \A k \in Matters : MatterLogged(e, k)
      BY <2>1 DEF MatterLogged, TypeOK
    <2> QED
      BY <2>1, <2>2, <2>3, <2>4 DEF Logs
  <1>2. ASSUME RestoreMatter(m) PROVE \E e \in EventRows : Logs(e)
    <2> DEFINE e == [type |-> "MATTER_RESTORED", matter |-> m]
    <2>1. /\ log' = Append(log, e) /\ docs' = docs
          /\ matter[m] = "DELETED" /\ matter' = [matter EXCEPT ![m] = "ACTIVE"]
      BY <1>2 DEF RestoreMatter, RestorableMatter
    <2>2. e \in EventRows
      BY DEF EventRows
    <2>3. \A d \in Nat : DocumentLogged(e, d)
      BY <2>1 DEF DocumentLogged, Gone, Trashes, Restores
    <2>4. \A k \in Matters : MatterLogged(e, k)
      BY <2>1 DEF MatterLogged, TypeOK
    <2> QED
      BY <2>1, <2>2, <2>3, <2>4 DEF Logs
  <1> QED
    BY <1>1, <1>2

\* Every step moves what its event says, and nothing without an event.
LEMMA StepLogs ==
    ASSUME TypeOK, [Next]_vars
    PROVE  LogsNothing \/ \E e \in EventRows : Logs(e)
  <1>1. ASSUME UNCHANGED <<log, matter>> PROVE Moves \/ LogsNothing
    BY <1>1, OthersKeepRows DEF LogsNothing, Gone, SameRow
  <1>2. ASSUME NEW o \in Operations, NEW m \in Matters, PickImport(o, m)
        PROVE  UNCHANGED <<log, matter>>
    BY <1>2 DEF PickImport
  <1>3. ASSUME NEW o \in Operations, NEW d \in DOMAIN docs, PickReplacement(o, d)
        PROVE  UNCHANGED <<log, matter>>
    BY <1>3 DEF PickReplacement
  <1>4. ASSUME NEW o \in Operations, OperationStep(o)
        PROVE  Moves \/ UNCHANGED <<log, matter>>
    BY <1>4 DEF OperationStep, InspectImport, ImportReuses, InspectReplacement,
                OperationEnds, Moves
  <1>5. ASSUME NEW d \in DOMAIN docs, DocumentStep(d)
        PROVE  Moves \/ UNCHANGED <<log, matter>>
    BY <1>5 DEF DocumentStep, Moves, Analyze, StageInRun, StageInChannel, BeginStage,
                EndStage, EndRun, BeginExecution, EndExecution
  <1>6. Crash \/ Recover \/ UNCHANGED vars => UNCHANGED <<log, matter>>
    BY DEF Crash, Recover, vars
  <1> QED
    BY <1>1, <1>2, <1>3, <1>4, <1>5, <1>6, MovesLog, MatterMovesLog DEF Next

\* The events of a Matter are positions of the log, of one kind or the other.
LEMMA MatterEventSets ==
    ASSUME TypeOK, NEW m \in Matters
    PROVE  /\ MatterEvents(m, "MATTER_TRASHED") \in SUBSET (1 .. Len(log))
           /\ MatterEvents(m, "MATTER_RESTORED") \in SUBSET (1 .. Len(log))
           /\ MatterEvents(m, "MATTER_TRASHED") \cap MatterEvents(m, "MATTER_RESTORED") = {}
  <1>1. DOMAIN log = 1 .. Len(log)
    BY DEF TypeOK
  <1>2. [type |-> "MATTER_TRASHED", matter |-> m] # [type |-> "MATTER_RESTORED", matter |-> m]
    OBVIOUS
  <1> QED
    BY <1>1, <1>2 DEF MatterEvents

\* One more event is one more position.
LEMMA MatterEventAppended ==
    ASSUME TypeOK, TypeOK', NEW e \in EventRows, log' = Append(log, e),
           NEW m \in Matters, NEW type
    PROVE  MatterEvents(m, type)' =
              MatterEvents(m, type) \cup
                  (IF e = [type |-> type, matter |-> m] THEN {Len(log) + 1} ELSE {})
  <1>1. /\ log \in Seq(EventRows) /\ log' \in Seq(EventRows)
        /\ Len(log') = Len(log) + 1 /\ Len(log) \in Nat
        /\ log'[Len(log) + 1] = e
        /\ \A i \in 1 .. Len(log) : log'[i] = log[i]
    BY DEF TypeOK
  <1>2. DOMAIN log' = DOMAIN log \cup {Len(log) + 1} /\ DOMAIN log = 1 .. Len(log)
    BY <1>1
  <1> QED
    BY <1>1, <1>2 DEF MatterEvents

\* An empty log tells of an empty trash.
LEMMA InitAudit == Init => Audit
  <1> SUFFICES ASSUME Init PROVE Audit
    OBVIOUS
  <1>1. /\ \A d \in Nat : TrashEvents(d) = {} /\ RestoreEvents(d) = {} /\ ~Gone(d)
        /\ \A m \in Matters : /\ MatterEvents(m, "MATTER_TRASHED") = {}
                              /\ MatterEvents(m, "MATTER_RESTORED") = {}
                              /\ matter[m] # "DELETED"
    BY DEF Init, TrashEvents, RestoreEvents, MatterEvents, Gone
  <1> QED
    BY <1>1, HistoryEmpty DEF Audit, History

\* Every step continues the histories.
LEMMA NextAudit == TypeOK /\ TypeOK' /\ Audit /\ [Next]_vars => Audit'
  <1> SUFFICES ASSUME TypeOK, TypeOK', Audit, [Next]_vars PROVE Audit'
    OBVIOUS
  <1>0. Len(log) \in Nat
    BY DEF TypeOK
  <1>1. CASE LogsNothing
    BY <1>1 DEF LogsNothing, Audit, History, TrashEvents, RestoreEvents, MatterEvents
  <1>2. ASSUME NEW e \in EventRows, Logs(e) PROVE Audit'
    <2>1. ASSUME NEW d \in Nat
          PROVE  History(Gone(d)', TrashEvents(d)', RestoreEvents(d)')
      <3> DEFINE S == TrashEvents(d)
                 T == RestoreEvents(d)
      <3>1. S \in SUBSET (1 .. Len(log)) /\ T \in SUBSET (1 .. Len(log)) /\ S \cap T = {}
        BY EventSets
      <3>2. History(Gone(d), S, T)
        BY DEF Audit
      <3>3. /\ S' = S \cup (IF Trashes(e, d) THEN {Len(log) + 1} ELSE {})
            /\ T' = T \cup (IF Restores(e, d) THEN {Len(log) + 1} ELSE {})
        BY <1>2, EventAppended DEF Logs
      <3>4. DocumentLogged(e, d)
        BY <1>2 DEF Logs
      <3> HIDE DEF S, T
      <3>5. CASE Trashes(e, d) /\ ~Restores(e, d) /\ ~Gone(d) /\ Gone(d)'
        <4>1. History(FALSE, S, T)
          BY <3>2, <3>5 DEF History
        <4>2. History(TRUE, S \cup {Len(log) + 1}, T)
          BY <1>0, <3>1, <4>1, HistoryTrashed
        <4> QED
          BY <3>3, <3>5, <4>2 DEF History, S, T
      <3>6. CASE Restores(e, d) /\ ~Trashes(e, d) /\ Gone(d) /\ ~Gone(d)'
        <4>1. History(TRUE, S, T)
          BY <3>2, <3>6 DEF History
        <4>2. History(FALSE, S, T \cup {Len(log) + 1})
          BY <1>0, <3>1, <4>1, HistoryRestored
        <4> QED
          BY <3>3, <3>6, <4>2 DEF History, S, T
      <3>7. CASE ~Trashes(e, d) /\ ~Restores(e, d) /\ (Gone(d)' <=> Gone(d))
        BY <3>2, <3>3, <3>7 DEF History, S, T
      <3> QED
        BY <3>4, <3>5, <3>6, <3>7 DEF DocumentLogged
    <2>2. ASSUME NEW m \in Matters
          PROVE  History(matter'[m] = "DELETED", MatterEvents(m, "MATTER_TRASHED")',
                         MatterEvents(m, "MATTER_RESTORED")')
      <3> DEFINE S == MatterEvents(m, "MATTER_TRASHED")
                 T == MatterEvents(m, "MATTER_RESTORED")
                 trashes == e = [type |-> "MATTER_TRASHED", matter |-> m]
                 restores == e = [type |-> "MATTER_RESTORED", matter |-> m]
      <3>1. S \in SUBSET (1 .. Len(log)) /\ T \in SUBSET (1 .. Len(log)) /\ S \cap T = {}
        BY MatterEventSets
      <3>2. History(matter[m] = "DELETED", S, T)
        BY DEF Audit
      <3>3. /\ S' = S \cup (IF trashes THEN {Len(log) + 1} ELSE {})
            /\ T' = T \cup (IF restores THEN {Len(log) + 1} ELSE {})
        BY <1>2, MatterEventAppended DEF Logs
      <3>4. \/ trashes /\ ~restores /\ matter[m] # "DELETED" /\ matter'[m] = "DELETED"
            \/ restores /\ ~trashes /\ matter[m] = "DELETED" /\ matter'[m] # "DELETED"
            \/ ~trashes /\ ~restores /\ (matter'[m] = "DELETED" <=> matter[m] = "DELETED")
        BY <1>2 DEF Logs, MatterLogged
      <3> HIDE DEF S, T, trashes, restores
      <3>5. CASE trashes /\ ~restores /\ matter[m] # "DELETED" /\ matter'[m] = "DELETED"
        <4>1. History(FALSE, S, T)
          BY <3>2, <3>5 DEF History
        <4>2. History(TRUE, S \cup {Len(log) + 1}, T)
          BY <1>0, <3>1, <4>1, HistoryTrashed
        <4> QED
          BY <3>3, <3>5, <4>2 DEF History, S, T
      <3>6. CASE restores /\ ~trashes /\ matter[m] = "DELETED" /\ matter'[m] # "DELETED"
        <4>1. History(TRUE, S, T)
          BY <3>2, <3>6 DEF History
        <4>2. History(FALSE, S, T \cup {Len(log) + 1})
          BY <1>0, <3>1, <4>1, HistoryRestored
        <4> QED
          BY <3>3, <3>6, <4>2 DEF History, S, T
      <3>7. CASE ~trashes /\ ~restores /\ (matter'[m] = "DELETED" <=> matter[m] = "DELETED")
        BY <3>2, <3>3, <3>7 DEF History, S, T
      <3> QED
        BY <3>4, <3>5, <3>6, <3>7
    <2> QED
      BY <2>1, <2>2 DEF Audit
  <1> QED
    BY <1>1, <1>2, StepLogs

\* The histories are the two parts of the property.
LEMMA AuditTells == TypeOK /\ Audit => LastEventTells /\ OneEventPerTransition
  <1> SUFFICES ASSUME TypeOK, Audit PROVE LastEventTells /\ OneEventPerTransition
    OBVIOUS
  <1>0. \A d \in DOMAIN docs : d \in Nat /\ docs[d] \in DocumentRows
    BY DEF TypeOK
  <1>1. \A d \in DOMAIN docs : d \in Nat /\ docs[d].trashed \in BOOLEAN
    BY <1>0 DEF DocumentRows
  <1>2. \A d \in DOMAIN docs :
           History(docs[d].trashed, TrashEvents(d), RestoreEvents(d))
    BY <1>1 DEF Audit, Gone, History
  <1>3. \A S, T : LastIsIn(S, T) \in BOOLEAN
    BY DEF LastIsIn
  <1>4. LastEventTells
    BY <1>1, <1>2, <1>3 DEF Audit, History, LastEventTells
  <1>5. OneEventPerTransition
    BY <1>2 DEF Audit, History, OneEventPerTransition
  <1> QED
    BY <1>4, <1>5

\* The audit log is the history of the trash, at every moment: the transactions
\* of WorkspaceLifecycleRepository append what they do and nothing else, and a
\* request that finds its work done (changed: false) appends nothing.
THEOREM LogTruthful == Spec => []LogTellsTrash
  <1>1. TypeOK /\ Audit => LogTellsTrash
    BY AuditTells DEF LogTellsTrash
  <1> QED
    BY <1>1, InitAudit, NextAudit, InitType, NextType, PTL DEF Spec

=============================================================================
