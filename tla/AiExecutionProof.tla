--------------------------- MODULE AiExecutionProof ---------------------------
(***************************************************************************)
(* Proofs about AiExecution, for any executions, Documents, values and     *)
(* bounds.  The argument goes by what the end of a call writes (Ending):   *)
(* one row and one answer that fit each other, written over a row that was *)
(* still RUNNING; every other step leaves rows and answers alone, or is    *)
(* the crash and the recovery after it.                                    *)
(*                                                                         *)
(* The second part is about OutboundScan, the pass over every payload, for *)
(* any text, any denylist and any lengths: what has been read of a text is *)
(* the tails of its run (Tails), and the state of the pass stands for      *)
(* those tails a window can still reach (Follows).                         *)
(***************************************************************************)
EXTENDS AiExecution, OutboundScan, SequenceTheorems, FiniteSetTheorems,
        WellFoundedInduction, TLAPS

\* Who waits has a live row and a live process, and was called.
WaitersLive ==
    \A e \in Executions :
        /\ answer[e] = "waiting" => up /\ row[e].status = "RUNNING"
        /\ e \in aborted => answer[e] # "none"

IInv ==
    /\ TypeOK /\ WaitersLive /\ NothingDeniedLeaves /\ CancelledNeverCompletes
    /\ AnswerMatchesRow /\ RunningIsAccountedFor /\ SourceStays

Answers == {"none", "waiting", "lost", "COMPLETED", "REFUSED", "AI_REHYDRATION_FAILED"}
              \cup RecordedCodes
Budgets == [faults : Nat, changes : Nat, crashes : Nat]
Restored == {"COMPLETED", "AI_REHYDRATION_FAILED"}

\* The row q and the answer a fit each other at the end of a call.
Fits(q, a) ==
    /\ a \in Restored \cup RecordedCodes
    /\ a \in Restored <=> q.status = "COMPLETED"
    /\ a \in RecordedCodes /\ q.status = "FAILED" => q.code = a
    /\ q.status = "RUNNING" => a = "AI_PERSISTENCE_FAILURE"

-----------------------------------------------------------------------------
(* The end of a call.                                                      *)

\* A row that is written keeps its Document.
LEMMA EndRows ==
    ASSUME NEW r \in Rows, r.status = "RUNNING", NEW code \in RecordedCodes
    PROVE  /\ Completed(r) \in Rows /\ Completed(r).doc = r.doc
           /\ Completed(r).status = "COMPLETED"
           /\ Failed(r, code) \in Rows /\ Failed(r, code).doc = r.doc
           /\ Failed(r, code).status = "FAILED" /\ Failed(r, code).code = code
  <1>1. r \in [status : {"RUNNING", "COMPLETED"}, doc : Documents,
               provider : {"mock", "network"}, created : Nat]
    BY DEF Rows
  <1> QED
    BY <1>1 DEF Rows, Completed, Failed

LEMMA Budget == TypeOK /\ (Fault \/ NoFault) => budget' \in Budgets
  BY DEF TypeOK, Fault, NoFault, Budgets

\* persistFailure leaves a row and an answer that fit, and no response.
LEMMA EndingFailed ==
    ASSUME TypeOK, NEW e \in Executions, NEW r \in Rows, r.status = "RUNNING",
           NEW code \in RecordedCodes, EndsFailed(e, r, code)
    PROVE  /\ budget' \in Budgets
           /\ \E q \in Rows, a \in Answers :
                /\ row' = [row EXCEPT ![e] = q] /\ answer' = [answer EXCEPT ![e] = a]
                /\ q.doc = r.doc /\ Fits(q, a) /\ q.status # "COMPLETED"
  <1>1. budget' \in Budgets
    BY Budget DEF EndsFailed
  <1>2. CASE row' = [row EXCEPT ![e] = Failed(r, code)] /\ answer' = [answer EXCEPT ![e] = code]
    <2>1. Fits(Failed(r, code), code)
      BY EndRows DEF Fits, Restored, RecordedCodes
    <2> QED
      BY <1>1, <1>2, <2>1, EndRows DEF Answers
  <1>3. CASE row' = [row EXCEPT ![e] = r]
             /\ answer' = [answer EXCEPT ![e] = "AI_PERSISTENCE_FAILURE"]
    <2>1. Fits(r, "AI_PERSISTENCE_FAILURE")
      BY DEF Fits, Restored, RecordedCodes
    <2> QED
      BY <1>1, <1>3, <2>1 DEF Answers, RecordedCodes
  <1> QED
    BY <1>2, <1>3 DEF EndsFailed

\* So does the end with a usable answer.
LEMMA EndingCompleted ==
    ASSUME TypeOK, NEW e \in Executions, NEW r \in Rows, r.status = "RUNNING",
           EndsCompleted(e, r)
    PROVE  /\ budget' \in Budgets
           /\ \E q \in Rows, a \in Answers :
                /\ row' = [row EXCEPT ![e] = q] /\ answer' = [answer EXCEPT ![e] = a]
                /\ q.doc = r.doc /\ Fits(q, a)
  <1> DEFINE code == "AI_PERSISTENCE_FAILURE"
  <1>1. code \in RecordedCodes
    BY DEF RecordedCodes
  <1>2. CASE EndsFailed(e, r, code)
    BY <1>1, <1>2, EndingFailed
  <1>3. CASE ~EndsFailed(e, r, code)
    <2>1. budget' \in Budgets
      BY <1>3, Budget DEF EndsCompleted
    <2>2. CASE /\ row' = [row EXCEPT ![e] = Completed(r)]
               /\ \/ answer' = [answer EXCEPT ![e] = "COMPLETED"]
                  \/ answer' = [answer EXCEPT ![e] = "AI_REHYDRATION_FAILED"]
      <3>1. \A a \in Restored : Fits(Completed(r), a) /\ a \in Answers
        BY <1>1, EndRows DEF Fits, Restored, RecordedCodes, Answers
      <3> QED
        BY <1>1, <2>1, <2>2, <3>1, EndRows DEF Restored
    <2>3. CASE row' = [row EXCEPT ![e] = Failed(r, code)] /\ answer' = [answer EXCEPT ![e] = code]
      <3>1. Fits(Failed(r, code), code)
        BY <1>1, EndRows DEF Fits, Restored, RecordedCodes
      <3> QED
        BY <1>1, <2>1, <2>3, <3>1, EndRows DEF Answers
    <2> QED
      BY <1>3, <2>2, <2>3 DEF EndsCompleted
  <1> QED
    BY <1>2, <1>3

-----------------------------------------------------------------------------
(* What a call writes                                                      *)

\* A call that writes a row and an answer that fit, over a row that has not
\* ended, keeps the invariant, if what it sends is clean and what it leaves
\* RUNNING or COMPLETED may be so.
LEMMA WriteInv ==
    ASSUME IInv, up, NEW e \in Executions, NEW q \in Rows, NEW a \in Answers,
           row[e].status \in {"none", "RUNNING"},
           row' = [row EXCEPT ![e] = q], answer' = [answer EXCEPT ![e] = a],
           Fits(q, a) \/ (a = "waiting" /\ q.status = "RUNNING"),
           q.status = "COMPLETED" => e \notin aborted,
           q.status = "RUNNING" => q.doc \in visible,
           budget' \in Budgets,
           \/ sent' = sent
           \/ sent' = sent \cup {[exec |-> e, leaked |-> {}]},
           UNCHANGED <<aborted, settings, missed, denied, visible, clock, up>>
    PROVE  IInv'
  <1>1. row \in [Executions -> Rows \cup {NoRow}] /\ answer \in [Executions -> Answers]
    BY DEF IInv, TypeOK, Answers
  <1>2. /\ row'[e] = q /\ answer'[e] = a
        /\ \A f \in Executions \ {e} : row'[f] = row[f] /\ answer'[f] = answer[f]
    BY <1>1
  <1>3. TypeOK'
    <2>1. row' \in [Executions -> Rows \cup {NoRow}] /\ answer' \in [Executions -> Answers]
      BY <1>1
    <2>2. sent' \subseteq [exec : Executions, leaked : SUBSET Values]
      BY DEF IInv, TypeOK
    <2> QED
      BY <2>1, <2>2 DEF IInv, TypeOK, Answers, Budgets
  <1>4. a # "none" /\ a # "REFUSED"
    BY DEF Fits, Restored, RecordedCodes
  <1>5. WaitersLive'
    <2>1. a = "waiting" => q.status = "RUNNING"
      BY DEF Fits, Restored, RecordedCodes
    <2> QED
      BY <1>2, <1>4, <2>1 DEF IInv, WaitersLive
  <1>6. NothingDeniedLeaves'
    BY DEF IInv, NothingDeniedLeaves
  <1>7. CancelledNeverCompletes'
    BY <1>2 DEF IInv, TypeOK, CancelledNeverCompletes
  <1>8. AnswerMatchesRow'
    <2>1. /\ a \in Restored <=> q.status = "COMPLETED"
          /\ a \in RecordedCodes /\ q.status = "FAILED" => q.code = a
      BY DEF Fits, Restored, RecordedCodes
    <2> QED
      BY <1>2, <1>4, <2>1 DEF IInv, AnswerMatchesRow, Restored
  <1>9. RunningIsAccountedFor'
    <2>1. q.status = "RUNNING" => a \in {"waiting", "AI_PERSISTENCE_FAILURE"}
      BY DEF Fits
    <2> QED
      BY <1>2, <2>1 DEF IInv, RunningIsAccountedFor
  <1>10. SourceStays'
    BY <1>2 DEF IInv, SourceStays
  <1> QED
    BY <1>3, <1>5, <1>6, <1>7, <1>8, <1>9, <1>10 DEF IInv

\* A denylist of at most MaxDenied values was read whole: one row more was
\* asked for.
LEMMA ReadsAll ==
    ASSUME TypeOK, NEW read \in DenylistReads, Cardinality(read) <= MaxDenied
    PROVE  read = denied
  <1>1. IsFiniteSet(denied) /\ read \subseteq denied
    BY BoundsAssumption, FS_Subset DEF TypeOK, DenylistReads
  <1>2. Cardinality(denied) \in Nat /\ Cardinality(read) \in Nat
    BY <1>1, FS_Subset, FS_CardinalityType
  <1>3. Cardinality(read) = Cardinality(denied)
    BY <1>2, BoundsAssumption DEF DenylistReads, RowLimit
  <1> QED
    BY <1>1, <1>3, FS_Subset

-----------------------------------------------------------------------------
(* The steps                                                               *)

\* A call writes over no row or a live one.
LEMMA ExecuteFinal ==
    ASSUME IInv, NEW e \in Executions, NEW d \in Documents, Execute(e, d)
    PROVE  /\ IInv' /\ row[e] = NoRow
           /\ \A f \in Executions \ {e} : row'[f] = row[f]
  <1>1. row \in [Executions -> Rows \cup {NoRow}]
    BY DEF IInv, TypeOK
  <1>2. row[e] = NoRow /\ answer[e] = "none" /\ e \notin aborted /\ up /\ d \in visible
    BY DEF IInv, AnswerMatchesRow, WaitersLive, Execute
  <1>3. row[e].status = "none"
    BY <1>2 DEF NoRow
  <1>4. PICK read \in DenylistReads, provider \in {"mock", "network"} :
          /\ Cardinality(read) <= MaxDenied
          /\ LET r == Begun(d, provider)
                 dispatched == missed[d] \cap read = {} /\ settings # "unusable"
             IN  /\ sent' = IF dispatched
                            THEN sent \cup {[exec |-> e, leaked |-> missed[d] \cap denied]}
                            ELSE sent
                 /\ \/ EndsFailed(e, r, "OUTBOUND_LEAK_DETECTED")
                    \/ EndsFailed(e, r, "AI_PROVIDER_FAILURE")
                    \/ EndsCompleted(e, r)
                    \/ /\ row' = [row EXCEPT ![e] = r]
                       /\ answer' = [answer EXCEPT ![e] = "waiting"]
                       /\ NoFault
    BY DEF Execute
  <1> DEFINE r == Begun(d, provider)
  <1>5. read = denied
    BY <1>4, ReadsAll DEF IInv
  <1>6. sent' = sent \/ sent' = sent \cup {[exec |-> e, leaked |-> {}]}
    BY <1>4, <1>5
  <1>7. clock \in Nat
    BY BoundsAssumption DEF IInv, TypeOK
  <1>8. r \in Rows /\ r.status = "RUNNING" /\ r.doc = d
    BY <1>7 DEF Begun, Rows
  <1>9. UNCHANGED <<aborted, settings, missed, denied, visible, clock, up>>
    BY DEF Execute
  <1> HIDE DEF r
  <1>10. PICK q \in Rows, a \in Answers :
           /\ budget' \in Budgets
           /\ row' = [row EXCEPT ![e] = q] /\ answer' = [answer EXCEPT ![e] = a]
           /\ q.doc = d
           /\ Fits(q, a) \/ (a = "waiting" /\ q.status = "RUNNING")
    <2>1. CASE \E code \in {"OUTBOUND_LEAK_DETECTED", "AI_PROVIDER_FAILURE"} :
                 EndsFailed(e, r, code)
      <3>1. PICK code \in RecordedCodes : EndsFailed(e, r, code)
        BY <2>1 DEF RecordedCodes
      <3> QED
        BY <1>8, <3>1, EndingFailed DEF IInv
    <2>2. CASE EndsCompleted(e, r)
      BY <1>8, <2>2, EndingCompleted DEF IInv
    <2>3. CASE /\ row' = [row EXCEPT ![e] = r]
               /\ answer' = [answer EXCEPT ![e] = "waiting"] /\ NoFault
      <3>1. budget' \in Budgets /\ "waiting" \in Answers
        BY <2>3, Budget DEF IInv, Answers
      <3> QED
        BY <1>8, <2>3, <3>1
    <2> QED
      BY <1>4, <2>1, <2>2, <2>3 DEF r
  <1>11. IInv'
    BY <1>2, <1>3, <1>6, <1>9, <1>10, WriteInv
  <1> QED
    BY <1>1, <1>2, <1>10, <1>11

LEMMA SettleFinal ==
    ASSUME IInv, NEW e \in Executions, Settle(e)
    PROVE  /\ IInv' /\ row[e].status = "RUNNING"
           /\ \A f \in Executions \ {e} : row'[f] = row[f]
  <1>1. row \in [Executions -> Rows \cup {NoRow}]
    BY DEF IInv, TypeOK
  <1>2. answer[e] = "waiting" /\ up /\ row[e].status = "RUNNING"
    BY DEF IInv, WaitersLive, Settle
  <1>3. row[e] \in Rows /\ row[e].doc \in visible
    BY <1>1, <1>2 DEF NoRow, IInv, SourceStays
  <1>4. PICK q \in Rows, a \in Answers :
           /\ budget' \in Budgets
           /\ row' = [row EXCEPT ![e] = q] /\ answer' = [answer EXCEPT ![e] = a]
           /\ q.doc = row[e].doc /\ Fits(q, a)
           /\ q.status = "COMPLETED" => e \notin aborted
    <2>1. CASE \E code \in RecordedCodes : EndsFailed(e, row[e], code)
      BY <1>2, <1>3, <2>1, EndingFailed DEF IInv
    <2>2. CASE MayResolve(e) /\ EndsCompleted(e, row[e])
      BY <1>2, <1>3, <2>2, EndingCompleted DEF IInv, MayResolve
    <2>3. /\ RejectionCode(e) \in RecordedCodes
          /\ "INVALID_PROVIDER_RESPONSE" \in RecordedCodes
      BY DEF RejectionCode, RecordedCodes
    <2> QED
      BY <2>1, <2>2, <2>3 DEF Settle
  <1>5. UNCHANGED <<aborted, settings, missed, denied, visible, clock, up, sent>>
    BY DEF Settle
  <1>6. IInv'
    BY <1>2, <1>3, <1>4, <1>5, WriteInv
  <1> QED
    BY <1>1, <1>2, <1>4, <1>6

\* Everything around the service leaves the rows and the answers of a living
\* process alone.
LEMMA AroundInv ==
    ASSUME IInv,
           \/ CancelActive \/ ChangeSettings \/ ChangeDenied \/ ClockMoves
           \/ \E d \in Documents : Trash(d) \/ Restore(d)
    PROVE  IInv' /\ UNCHANGED row
  <1>1. budget' \in Budgets /\ UNCHANGED <<row, answer, sent, up>>
    BY DEF IInv, TypeOK, Budgets, Change, CancelActive, ChangeSettings, ChangeDenied,
           ClockMoves, Trash, Restore
  <1>2. /\ aborted' \subseteq Executions
        /\ \A e \in aborted' \ aborted : answer[e] = "waiting"
    BY DEF IInv, TypeOK, CancelActive, ChangeSettings, ChangeDenied, ClockMoves, Trash, Restore
  <1>3. TypeOK'
    <2>1. settings' \in {"mock", "network", "unusable"} /\ missed' = missed
      BY DEF IInv, TypeOK, CancelActive, ChangeSettings, ChangeDenied, ClockMoves, Trash, Restore
    <2>2. denied' \subseteq Values /\ visible' \subseteq Documents
      BY DEF IInv, TypeOK, CancelActive, ChangeSettings, ChangeDenied, ClockMoves, Trash, Restore
    <2>3. clock' \in 0..MaxClock
      BY DEF IInv, TypeOK, CancelActive, ChangeSettings, ChangeDenied, ClockMoves, Trash, Restore
    <2> QED
      BY <1>1, <1>2, <2>1, <2>2, <2>3 DEF IInv, TypeOK, Budgets
  <1>4. WaitersLive'
    BY <1>1, <1>2 DEF IInv, WaitersLive
  <1>5. CancelledNeverCompletes'
    BY <1>1, <1>2 DEF IInv, TypeOK, CancelledNeverCompletes, WaitersLive
  <1>6. NothingDeniedLeaves' /\ AnswerMatchesRow' /\ RunningIsAccountedFor'
    BY <1>1 DEF IInv, NothingDeniedLeaves, AnswerMatchesRow, RunningIsAccountedFor
  <1>7. SourceStays'
    <2>1. CASE visible \subseteq visible'
      BY <1>1, <2>1 DEF IInv, SourceStays
    <2>2. CASE \E d \in Documents : Trash(d)
      BY <1>1, <2>2 DEF IInv, SourceStays, Trash, RunningOn
    <2>3. visible \subseteq visible' \/ \E d \in Documents : Trash(d)
      BY DEF CancelActive, ChangeSettings, ChangeDenied, ClockMoves, Restore
    <2> QED
      BY <2>1, <2>2, <2>3
  <1> QED
    BY <1>1, <1>3, <1>4, <1>5, <1>6, <1>7 DEF IInv

LEMMA RefusedInv ==
    ASSUME IInv, NEW e \in Executions, NEW d \in Documents, ExecuteRefused(e, d)
    PROVE  IInv' /\ UNCHANGED row
  <1>1. budget' \in Budgets
    BY Budget DEF IInv, ExecuteRefused
  <1>2. /\ answer[e] = "none" /\ answer' = [answer EXCEPT ![e] = "REFUSED"]
        /\ UNCHANGED <<row, aborted, settings, missed, denied, visible, sent, clock, up>>
    BY DEF ExecuteRefused
  <1>3. answer \in [Executions -> Answers]
    BY DEF IInv, TypeOK, Answers
  <1>4. /\ answer'[e] = "REFUSED" /\ answer' \in [Executions -> Answers]
        /\ \A f \in Executions \ {e} : answer'[f] = answer[f]
    BY <1>2, <1>3 DEF Answers
  <1>5. TypeOK'
    BY <1>1, <1>2, <1>4 DEF IInv, TypeOK, Answers, Budgets
  <1>6. row[e] = NoRow /\ row[e].status = "none"
    BY <1>2 DEF IInv, AnswerMatchesRow, NoRow
  <1>7. WaitersLive'
    BY <1>2, <1>4 DEF IInv, WaitersLive
  <1>8. AnswerMatchesRow'
    BY <1>2, <1>4, <1>6 DEF IInv, AnswerMatchesRow, RecordedCodes
  <1>9. RunningIsAccountedFor'
    BY <1>2, <1>4, <1>6 DEF IInv, RunningIsAccountedFor
  <1>10. NothingDeniedLeaves' /\ CancelledNeverCompletes' /\ SourceStays'
    BY <1>2 DEF IInv, NothingDeniedLeaves, CancelledNeverCompletes, SourceStays
  <1> QED
    BY <1>2, <1>5, <1>7, <1>8, <1>9, <1>10 DEF IInv

\* The process dies: the callers are gone, the rows stay as they are.
LEMMA CrashInv ==
    ASSUME IInv, Crash
    PROVE  IInv' /\ UNCHANGED row
  <1>1. budget' \in Budgets
    BY DEF IInv, TypeOK, Budgets, Crash
  <1>2. /\ up' = FALSE /\ UNCHANGED <<row, aborted, settings, missed, denied, visible, sent, clock>>
        /\ answer' = [e \in Executions |-> IF answer[e] = "waiting" THEN "lost" ELSE answer[e]]
    BY DEF Crash
  <1>3. answer \in [Executions -> Answers] /\ answer' \in [Executions -> Answers]
    BY <1>2 DEF IInv, TypeOK, Answers
  <1>4. TypeOK'
    BY <1>1, <1>2, <1>3 DEF IInv, TypeOK, Answers, Budgets
  <1>5. \A e \in Executions : \/ answer[e] = "waiting" /\ answer'[e] = "lost"
                              \/ answer[e] # "waiting" /\ answer'[e] = answer[e]
    BY <1>2
  <1>6. WaitersLive'
    BY <1>2, <1>5 DEF IInv, WaitersLive
  <1>7. AnswerMatchesRow'
    BY <1>2, <1>5 DEF IInv, AnswerMatchesRow, RecordedCodes
  <1>8. RunningIsAccountedFor'
    BY <1>2 DEF RunningIsAccountedFor
  <1>9. NothingDeniedLeaves' /\ CancelledNeverCompletes' /\ SourceStays'
    BY <1>2 DEF IInv, NothingDeniedLeaves, CancelledNeverCompletes, SourceStays
  <1> QED
    BY <1>2, <1>4, <1>6, <1>7, <1>8, <1>9 DEF IInv

\* Recovery ends what was RUNNING and nothing else.
LEMMA RestartFinal ==
    ASSUME IInv, Restart
    PROVE  /\ IInv'
           /\ \A e \in Executions : row[e].status # "RUNNING" => row'[e] = row[e]
  <1>1. /\ ~up /\ up' /\ row' = Recovered
        /\ UNCHANGED <<answer, aborted, settings, missed, denied, visible, sent, clock, budget>>
    BY DEF Restart, IInv, TypeOK
  <1>2. row \in [Executions -> Rows \cup {NoRow}]
    BY DEF IInv, TypeOK
  <1>3. \A e \in Executions :
          /\ row[e].status # "RUNNING" => row'[e] = row[e]
          /\ row[e].status = "RUNNING" =>
                /\ row[e] \in Rows
                /\ row'[e] = Failed(row[e], "INTERRUPTED")
    BY <1>1, <1>2 DEF Recovered, NoRow
  <1>4. \A e \in Executions : row[e].status = "RUNNING" =>
          row'[e] \in Rows /\ row'[e].status = "FAILED" /\ row'[e].code = "INTERRUPTED"
    <2>1. "INTERRUPTED" \in RecordedCodes
      BY DEF RecordedCodes
    <2> QED
      BY <1>3, <2>1, EndRows
  <1>5. row' \in [Executions -> Rows \cup {NoRow}]
    <2>1. \A e \in Executions : row'[e] \in Rows \cup {NoRow}
      BY <1>2, <1>3, <1>4
    <2> QED
      BY <1>1, <2>1 DEF Recovered
  <1>6. TypeOK'
    BY <1>1, <1>5 DEF IInv, TypeOK
  <1>7. WaitersLive'
    BY <1>1 DEF IInv, WaitersLive
  <1>8. CancelledNeverCompletes'
    BY <1>1, <1>3, <1>4 DEF IInv, TypeOK, CancelledNeverCompletes
  <1>9. AnswerMatchesRow'
    <2> SUFFICES ASSUME NEW e \in Executions
                 PROVE  /\ answer[e] \in {"none", "REFUSED"} => row'[e] = NoRow
                        /\ answer[e] \in {"COMPLETED", "AI_REHYDRATION_FAILED"}
                              <=> row'[e].status = "COMPLETED"
                        /\ answer[e] \in RecordedCodes /\ row'[e].status = "FAILED" =>
                              row'[e].code \in {answer[e], "INTERRUPTED"}
      BY <1>1 DEF AnswerMatchesRow
    <2>1. CASE row[e].status = "RUNNING"
      <3>1. row[e] # NoRow
        BY <2>1 DEF NoRow
      <3> QED
        BY <1>3, <1>4, <2>1, <3>1 DEF IInv, AnswerMatchesRow
    <2>2. CASE row[e].status # "RUNNING"
      BY <1>3, <2>2 DEF IInv, AnswerMatchesRow
    <2> QED
      BY <2>1, <2>2
  <1>10. \A e \in Executions : row'[e].status # "RUNNING"
    BY <1>3, <1>4
  <1>11. RunningIsAccountedFor' /\ SourceStays'
    BY <1>10 DEF RunningIsAccountedFor, SourceStays
  <1>12. NothingDeniedLeaves'
    BY <1>1 DEF IInv, NothingDeniedLeaves
  <1> QED
    BY <1>3, <1>6, <1>7, <1>8, <1>9, <1>11, <1>12 DEF IInv

-----------------------------------------------------------------------------
(* The theorems                                                            *)

LEMMA InitInv == Init => IInv
  <1> SUFFICES ASSUME Init PROVE IInv
    OBVIOUS
  <1>1. TypeOK
    BY BoundsAssumption DEF Init, TypeOK
  <1>2. \A e \in Executions : row[e] = NoRow /\ row[e].status = "none" /\ answer[e] = "none"
    BY DEF Init, NoRow
  <1>3. WaitersLive /\ AnswerMatchesRow /\ RunningIsAccountedFor /\ SourceStays
    BY <1>2 DEF Init, WaitersLive, AnswerMatchesRow, RunningIsAccountedFor, SourceStays,
                RecordedCodes
  <1> QED
    BY <1>1, <1>3 DEF Init, IInv, NothingDeniedLeaves, CancelledNeverCompletes

\* What has ended is never written again.
Final == \A e \in Executions : row[e].status \in {"COMPLETED", "FAILED"} => row'[e] = row[e]

LEMMA StepInv == IInv /\ [Next]_vars => IInv' /\ Final
  <1> SUFFICES ASSUME IInv, [Next]_vars PROVE IInv' /\ Final
    OBVIOUS
  <1>1. CASE UNCHANGED vars
    BY <1>1 DEF vars, IInv, TypeOK, WaitersLive, NothingDeniedLeaves, AnswerMatchesRow,
                CancelledNeverCompletes, RunningIsAccountedFor, SourceStays, Final
  <1>2. CASE \E e \in Executions, d \in Documents : ExecuteRefused(e, d)
    BY <1>2, RefusedInv DEF Final
  <1>3. ASSUME NEW e \in Executions, NEW d \in Documents, Execute(e, d)
        PROVE  IInv' /\ Final
    BY <1>3, ExecuteFinal DEF Final, NoRow
  <1>4. ASSUME NEW e \in Executions, Settle(e)
        PROVE  IInv' /\ Final
    BY <1>4, SettleFinal DEF Final
  <1>5. CASE \/ CancelActive \/ ChangeSettings \/ ChangeDenied \/ ClockMoves
             \/ \E d \in Documents : Trash(d) \/ Restore(d)
    BY <1>5, AroundInv DEF Final
  <1>6. CASE Crash
    BY <1>6, CrashInv DEF Final
  <1>7. CASE Restart
    BY <1>7, RestartFinal DEF Final
  <1> QED
    BY <1>1, <1>2, <1>3, <1>4, <1>5, <1>6, <1>7 DEF Next

\* The invariant holds in every reachable state: what a call told its caller,
\* what its row says and what keeps its Document go together.
THEOREM Inductive == Spec => []IInv
  <1>1. IInv /\ [Next]_vars => IInv'
    BY StepInv
  <1> QED
    BY InitInv, <1>1, PTL DEF Spec

\* Every variable keeps its type.
THEOREM TypeCorrect == Spec => []TypeOK
  <1>1. IInv => TypeOK
    BY DEF IInv
  <1> QED
    BY Inductive, <1>1, PTL

\* No request leaves the machine with a value that the Matter protects at the
\* time, however many values there are and whatever the cap is: a list that
\* was cut is refused (findSource, verifyOutbound).
THEOREM NothingLeaves == Spec => []NothingDeniedLeaves
  <1>1. IInv => NothingDeniedLeaves
    BY DEF IInv
  <1> QED
    BY Inductive, <1>1, PTL

\* A cancelled execution never shows a response, through any crash and
\* recovery (cancelActive).
THEOREM CancelledStays == Spec => []CancelledNeverCompletes
  <1>1. IInv => CancelledNeverCompletes
    BY DEF IInv
  <1> QED
    BY Inductive, <1>1, PTL

\* What a call tells its caller is what its row says, or the row says that the
\* recovery of a later process ended it (execute, persistFailure).
THEOREM AnswersTrue == Spec => []AnswerMatchesRow
  <1>1. IInv => AnswerMatchesRow
    BY DEF IInv
  <1> QED
    BY Inductive, <1>1, PTL

\* A RUNNING row of a living process has a call that waits, or one whose end
\* could not be written and said so (persistFailure).
THEOREM RunningAccounted == Spec => []RunningIsAccountedFor
  <1>1. IInv => RunningIsAccountedFor
    BY DEF IInv
  <1> QED
    BY Inductive, <1>1, PTL

\* A Document with a RUNNING execution is not moved to the trash
\* (assertDocumentIdle), with any number of executions and across restarts.
THEOREM SourceKept == Spec => []SourceStays
  <1>1. IInv => SourceStays
    BY DEF IInv
  <1> QED
    BY Inductive, <1>1, PTL

\* The end of an execution is written once (finish, recover).
THEOREM EndsOnce == Spec => FinishedIsFinal
  <1>1. IInv /\ [Next]_vars => [Final]_vars
    BY StepInv
  <1>2. IInv /\ [Next]_vars => [\A e \in Executions :
            row[e].status \in {"COMPLETED", "FAILED"} => row'[e] = row[e]]_vars
    BY <1>1 DEF Final
  <1> QED
    BY Inductive, <1>2, PTL DEF Spec, FinishedIsFinal

-----------------------------------------------------------------------------
(* The outbound scan                                                       *)

\* The two forms of induction over Nat that the lemmas below need.
LEMMA Least ==
    ASSUME NEW T, T \subseteq Nat, T # {}
    PROVE  \E x \in T : \A y \in T : x <= y
  <1> DEFINE R == {p \in Nat \X Nat : p[1] < p[2]}
  <1>1. IsWellFoundedOn(R, Nat)
    BY NatLessThanWellFounded DEF OpToRel
  <1> HIDE DEF R
  <1>2. PICK x \in T : \A y \in T : ~(<<y, x>> \in R)
    BY <1>1, WFMin
  <1>3. ASSUME NEW y \in T PROVE x <= y
    <2>1. CASE y < x
      <3>1. <<y, x>> \in Nat \X Nat /\ <<y, x>>[1] = y /\ <<y, x>>[2] = x
        OBVIOUS
      <3>2. <<y, x>> \in R
        BY <2>1, <3>1 DEF R
      <3> QED BY <3>2, <1>2
    <2> QED BY <2>1
  <1> QED BY <1>3

LEMMA SetInduction ==
    ASSUME NEW S, 0 \in S, \A n \in Nat : n \in S => n + 1 \in S
    PROVE  Nat \subseteq S
  <1> SUFFICES ASSUME ~(Nat \subseteq S) PROVE FALSE
    OBVIOUS
  <1>1. PICK x \in Nat \ S : \A y \in Nat \ S : x <= y
    BY Least
  <1>2. x - 1 \in Nat
    BY <1>1
  <1>3. x - 1 \in S
    BY <1>1, <1>2
  <1> QED BY <1>1, <1>2, <1>3
-----------------------------------------------------------------------------
(* Numbers without their separators                                        *)

\* h[i] is what the first i symbols of q leave.
Strips(h, q, n) ==
    h = [i \in 0..n |-> IF i = 0 THEN <<>>
                        ELSE IF q[i] = "sep" THEN h[i - 1]
                        ELSE Append(h[i - 1], q[i])]

LEMMA StripsExist ==
    ASSUME NEW q, NEW n \in Nat
    PROVE  \E h : Strips(h, q, n)
  <1> DEFINE Next1(h, i) == IF i = 0 THEN <<>>
                            ELSE IF q[i] = "sep" THEN h[i - 1]
                            ELSE Append(h[i - 1], q[i])
             S == {m \in Nat : \E h : Strips(h, q, m)}
  <1>1. 0 \in S
    <2>1. Strips([i \in 0..0 |-> <<>>], q, 0)
      BY DEF Strips
    <2> QED BY <2>1
  <1>2. ASSUME NEW m \in Nat, m \in S PROVE m + 1 \in S
    <2>1. PICK h : Strips(h, q, m)
      BY <1>2
    <2>2. h = [i \in 0..m |-> Next1(h, i)]
      BY <2>1 DEF Strips
    <2> DEFINE g == [i \in 0..(m + 1) |-> IF i = m + 1 THEN Next1(h, i) ELSE h[i]]
    <2>3. ASSUME NEW i \in 0..(m + 1) PROVE g[i] = Next1(g, i)
      <3>1. CASE i = m + 1
        <4>1. g[m] = h[m] /\ g[i] = Next1(h, i)
          BY <3>1
        <4> HIDE DEF g
        <4> QED BY <3>1, <4>1
      <3>2. CASE i # m + 1
        <4>1. i \in 0..m /\ g[i] = h[i]
          BY <3>2
        <4>2. h[i] = Next1(h, i)
          BY <2>2, <4>1
        <4>3. i # 0 => g[i - 1] = h[i - 1]
          BY <4>1
        <4> HIDE DEF g
        <4> QED BY <4>1, <4>2, <4>3
      <3> QED BY <3>1, <3>2
    <2>4. g = [i \in 0..(m + 1) |-> Next1(g, i)]
      <3>1. g = [i \in 0..(m + 1) |-> g[i]]
        OBVIOUS
      <3> HIDE DEF g
      <3> QED BY <2>3, <3>1
    <2>5. Strips(g, q, m + 1)
      <3> HIDE DEF g
      <3> QED BY <2>4 DEF Strips
    <2> QED BY <2>5
  <1> HIDE DEF S
  <1>3. Nat \subseteq S
    BY <1>1, <1>2, SetInduction
  <1> QED BY <1>3 DEF S

LEMMA StripsStep ==
    ASSUME NEW h, NEW q, NEW n \in Nat, Strips(h, q, n)
    PROVE  /\ h[0] = <<>>
           /\ \A i \in 1..n : h[i] = IF q[i] = "sep" THEN h[i - 1] ELSE Append(h[i - 1], q[i])
  <1>1. \A i \in 0..n : h[i] = IF i = 0 THEN <<>>
                        ELSE IF q[i] = "sep" THEN h[i - 1]
                        ELSE Append(h[i - 1], q[i])
    BY DEF Strips
  <1> QED BY <1>1

LEMMA RenderIs ==
    ASSUME NEW S, NEW q \in Seq(S)
    PROVE  \E h : Strips(h, q, Len(q)) /\ RenderNumberDigits(q) = h[Len(q)]
  <1> DEFINE kept[n \in 0..Len(q)] ==
                 IF n = 0 THEN <<>>
                 ELSE IF q[n] = "sep" THEN kept[n - 1]
                 ELSE Append(kept[n - 1], q[n])
  <1>1. RenderNumberDigits(q) = kept[Len(q)]
    BY Zenon DEF RenderNumberDigits
  <1>2. \E h : Strips(h, q, Len(q))
    <2>1. Len(q) \in Nat
      OBVIOUS
    <2> QED BY <2>1, StripsExist, Zenon
  <1>3. Strips(kept, q, Len(q))
    BY <1>2, Zenon DEF kept, Strips
  <1> HIDE DEF kept
  <1> QED BY <1>1, <1>3

\* The stripping of equal beginnings is equal.
LEMMA StripsAgree ==
    ASSUME NEW h, NEW g, NEW q, NEW p, NEW n \in Nat, NEW m \in Nat, n <= m,
           Strips(h, q, n), Strips(g, p, m), \A i \in 1..n : q[i] = p[i]
    PROVE  \A i \in 0..n : h[i] = g[i]
  <1> DEFINE S == {i \in Nat : i <= n => h[i] = g[i]}
  <1>1. 0 \in S
    BY StripsStep
  <1>2. ASSUME NEW i \in Nat, i \in S PROVE i + 1 \in S
    <2> SUFFICES ASSUME i + 1 <= n PROVE h[i + 1] = g[i + 1]
      OBVIOUS
    <2>1. h[i] = g[i] /\ i + 1 \in 1..n /\ i + 1 \in 1..m /\ (i + 1) - 1 = i
      BY <1>2
    <2> DEFINE k == i + 1
    <2>2. k \in 1..n /\ k \in 1..m /\ k - 1 = i
      BY <2>1
    <2> HIDE DEF k
    <2>3. h[k] = IF q[k] = "sep" THEN h[k - 1] ELSE Append(h[k - 1], q[k])
      BY <2>2, StripsStep
    <2>4. g[k] = IF p[k] = "sep" THEN g[k - 1] ELSE Append(g[k - 1], p[k])
      BY <2>2, StripsStep
    <2>5. h[k] = g[k]
      BY <2>1, <2>2, <2>3, <2>4
    <2> QED BY <2>5 DEF k
  <1> HIDE DEF S
  <1>3. Nat \subseteq S
    BY <1>1, <1>2, SetInduction
  <1> QED BY <1>3 DEF S

\* One more symbol: a separator leaves no trace, anything else is appended.
LEMMA RenderAppend ==
    ASSUME NEW q \in Seq(Symbols), NEW c \in Symbols
    PROVE  RenderNumberDigits(Append(q, c)) =
               IF c = "sep" THEN RenderNumberDigits(q) ELSE Append(RenderNumberDigits(q), c)
  <1> DEFINE p == Append(q, c)
             n == Len(q)
  <1>1. /\ p \in Seq(Symbols) /\ n \in Nat /\ Len(p) = n + 1 /\ p[n + 1] = c
        /\ \A i \in 1..n : q[i] = p[i]
    OBVIOUS
  <1> HIDE DEF p, n
  <1>2. PICK h : Strips(h, q, n) /\ RenderNumberDigits(q) = h[n]
    BY RenderIs DEF n
  <1>3. PICK g : Strips(g, p, n + 1) /\ RenderNumberDigits(p) = g[n + 1]
    BY <1>1, RenderIs
  <1>4. h[n] = g[n]
    <2>1. n + 1 \in Nat /\ n <= n + 1 /\ n \in 0..n
      BY <1>1
    <2> QED BY <1>1, <1>2, <1>3, <2>1, StripsAgree
  <1>5. g[n + 1] = IF p[n + 1] = "sep" THEN g[n] ELSE Append(g[n], p[n + 1])
    <2> DEFINE k == n + 1
    <2>1. k \in Nat /\ k \in 1..k /\ k - 1 = n
      BY <1>1
    <2>2. Strips(g, p, k)
      BY <1>3
    <2> HIDE DEF k
    <2>3. g[k] = IF p[k] = "sep" THEN g[k - 1] ELSE Append(g[k - 1], p[k])
      BY <2>1, <2>2, StripsStep
    <2> QED BY <2>1, <2>3 DEF k
  <1> QED BY <1>1, <1>2, <1>3, <1>4, <1>5 DEF p

LEMMA RenderNothing == RenderNumberDigits(<<>>) = <<>>
  <1>1. <<>> \in Seq(Symbols) /\ Len(<<>>) = 0
    OBVIOUS
  <1>2. PICK h : Strips(h, <<>>, 0) /\ RenderNumberDigits(<<>>) = h[0]
    BY <1>1, RenderIs
  <1> QED BY <1>2, StripsStep

LEMMA SubSeqAppend ==
    ASSUME NEW S, NEW q \in Seq(S), NEW c \in S
    PROVE  /\ \A i, j \in 1..Len(q) : SubSeq(Append(q, c), i, j) = SubSeq(q, i, j)
           /\ \A i \in 1..(Len(q) + 1) :
                 /\ SubSeq(Append(q, c), i, Len(q) + 1) = Append(SubSeq(q, i, Len(q)), c)
                 /\ SubSeq(q, i, Len(q)) \in Seq(S)
  <1> DEFINE p == Append(q, c)
             n == Len(q)
  <1>1. /\ p \in Seq(S) /\ n \in Nat /\ Len(p) = n + 1 /\ p[n + 1] = c
        /\ \A i \in 1..n : p[i] = q[i]
    OBVIOUS
  <1>2. \A i \in 1..n : q[i] \in S
    OBVIOUS
  <1> HIDE DEF p, n
  <1>3. ASSUME NEW i \in 1..n, NEW j \in 1..n PROVE SubSeq(p, i, j) = SubSeq(q, i, j)
    <2>1. \A k \in i..j : p[k] \in S /\ q[k] \in S
      BY <1>1, <1>2
    <2>2. /\ SubSeq(p, i, j) \in Seq(S) /\ SubSeq(q, i, j) \in Seq(S)
          /\ Len(SubSeq(p, i, j)) = Len(SubSeq(q, i, j))
          /\ Len(SubSeq(q, i, j)) = IF i <= j THEN j - i + 1 ELSE 0
          /\ \A k \in 1..(j - i + 1) : SubSeq(p, i, j)[k] = p[i + k - 1]
          /\ \A k \in 1..(j - i + 1) : SubSeq(q, i, j)[k] = q[i + k - 1]
      BY <2>1, SubSeqProperties
    <2>3. ASSUME NEW k \in 1..Len(SubSeq(q, i, j)) PROVE SubSeq(p, i, j)[k] = SubSeq(q, i, j)[k]
      <3>1. k \in 1..(j - i + 1) /\ i + k - 1 \in 1..n
        BY <1>1, <2>2
      <3> QED BY <1>1, <2>2, <3>1
    <2> QED BY <2>2, <2>3, SeqEqual
  <1>4. ASSUME NEW i \in 1..(n + 1)
        PROVE /\ SubSeq(p, i, n + 1) = Append(SubSeq(q, i, n), c)
              /\ SubSeq(q, i, n) \in Seq(S)
    <2> DEFINE m == n + 1
    <2>1. m \in Int /\ m = n + 1 /\ i <= m
      BY <1>1
    <2> HIDE DEF m
    <2> DEFINE s == SubSeq(p, i, m)
               t == SubSeq(q, i, n)
               u == Append(t, c)
    <2>2. /\ s \in Seq(S) /\ Len(s) = m - i + 1
          /\ \A k \in 1..(m - i + 1) : s[k] = p[i + k - 1]
      <3>1. ASSUME NEW k \in i..m PROVE p[k] \in S
        <4>1. k \in 1..n \/ k = n + 1
          BY <1>1, <2>1
        <4> QED BY <1>1, <1>2, <4>1
      <3> QED BY <2>1, <3>1, SubSeqProperties
    <2>3. /\ t \in Seq(S) /\ Len(t) = n - i + 1
          /\ \A k \in 1..(n - i + 1) : t[k] = q[i + k - 1]
      <3>1. i \in Int /\ n \in Int /\ (i <= n \/ n - i + 1 = 0) /\ \A k \in i..n : q[k] \in S
        BY <1>1, <1>2
      <3> QED BY <3>1, SubSeqProperties
    <2> HIDE DEF s, t
    <2>4. /\ u \in Seq(S) /\ Len(u) = Len(t) + 1 /\ u[Len(t) + 1] = c
          /\ \A k \in 1..Len(t) : u[k] = t[k]
      <3>1. t \in Seq(S)
        BY <2>3
      <3> QED BY <3>1
    <2> HIDE DEF u
    <2>5. ASSUME NEW k \in 1..Len(s) PROVE s[k] = u[k]
      <3>1. CASE k = n - i + 2
        BY <1>1, <2>1, <2>2, <2>3, <2>4, <3>1
      <3>2. CASE k # n - i + 2
        <4>1. k \in 1..(n - i + 1) /\ k \in 1..(m - i + 1) /\ k \in 1..Len(t)
              /\ i + k - 1 \in 1..n
          BY <1>1, <2>1, <2>2, <2>3, <3>2
        <4> QED BY <1>1, <2>2, <2>3, <2>4, <4>1
      <3> QED BY <3>1, <3>2
    <2>6. Len(s) = Len(u)
      BY <1>1, <2>1, <2>2, <2>3, <2>4
    <2>7. s = u
      BY <2>2, <2>4, <2>5, <2>6, SeqEqual
    <2> QED BY <2>1, <2>3, <2>7 DEF s, t, u
  <1> QED BY <1>3, <1>4 DEF p, n

-----------------------------------------------------------------------------
(* What stands in a text, one symbol after the other                       *)

\* A group begins at i, and its run still goes on.
TailStart(q, i) ==
    /\ q[i] \in Digits /\ (i > 1 => q[i - 1] \notin Digits)
    /\ \A k \in i..Len(q) : q[k] \in Digits \cup {"sep"}

\* The digits of the run from the groups it consists of on.
Tails(q) == {RenderNumberDigits(SubSeq(q, i, Len(q))) : i \in {k \in 1..Len(q) : TailStart(q, k)}}

InDigits(q) == q # <<>> /\ q[Len(q)] \in Digits

\* The numbers of which the last group may still grow, and the others.
Open(q) == IF InDigits(q) THEN Tails(q) ELSE {}
Ended(q) ==
    {RenderNumberDigits(SubSeq(q, p[1], p[2])) : p \in {r \in Alignments(q) : r[2] < Len(q)}}

LEMMA SymbolsFacts ==
    /\ "sep" \in Symbols /\ "X" \in Symbols /\ "other" \in Symbols
    /\ "sep" \notin Digits /\ "X" \notin Digits /\ "other" \notin Digits
    /\ Digits \subseteq Symbols
    /\ \A c \in Symbols : c \in Digits \/ c = "sep" \/ c = "X" \/ c = "other"
  BY ScanAssumption DEF Symbols

LEMMA AlignedIs ==
    ASSUME NEW q, NEW x
    PROVE  /\ x \in NumbersIn(q) <=>
                \E i, j \in 1..Len(q) : /\ i <= j /\ GroupAligned(q, i, j)
                                        /\ x = RenderNumberDigits(SubSeq(q, i, j))
           /\ x \in Ended(q) <=>
                \E i, j \in 1..Len(q) : /\ i <= j /\ j < Len(q) /\ GroupAligned(q, i, j)
                                        /\ x = RenderNumberDigits(SubSeq(q, i, j))
           /\ x \in CardsIn(q) <=>
                \E i, j \in 1..Len(q) : /\ i <= j /\ GroupAligned(q, i, j) /\ FollowedByX(q, j)
                                        /\ x = Append(RenderNumberDigits(SubSeq(q, i, j)), "X")
           /\ x \in Tails(q) <=>
                \E i \in 1..Len(q) : /\ TailStart(q, i)
                                     /\ x = RenderNumberDigits(SubSeq(q, i, Len(q)))
  <1>1. ASSUME NEW i \in 1..Len(q), NEW j \in 1..Len(q), i <= j, GroupAligned(q, i, j)
        PROVE  <<i, j>> \in Alignments(q) /\ <<i, j>>[1] = i /\ <<i, j>>[2] = j
    BY <1>1 DEF Alignments
  <1>2. ASSUME NEW p \in Alignments(q)
        PROVE  /\ p[1] \in 1..Len(q) /\ p[2] \in 1..Len(q) /\ p[1] <= p[2]
               /\ GroupAligned(q, p[1], p[2])
    BY DEF Alignments
  <1>3. x \in NumbersIn(q) <=>
                \E i, j \in 1..Len(q) : /\ i <= j /\ GroupAligned(q, i, j)
                                        /\ x = RenderNumberDigits(SubSeq(q, i, j))
    <2>1. ASSUME NEW i \in 1..Len(q), NEW j \in 1..Len(q), i <= j, GroupAligned(q, i, j),
                 x = RenderNumberDigits(SubSeq(q, i, j))
          PROVE  x \in NumbersIn(q)
      <3>1. PICK p \in Alignments(q) : p[1] = i /\ p[2] = j
        BY <1>1, <2>1
      <3> QED BY <2>1, <3>1 DEF NumbersIn
    <2>2. ASSUME x \in NumbersIn(q)
          PROVE  \E p \in Alignments(q) :
                    x = RenderNumberDigits(SubSeq(q, p[1], p[2]))
      BY <2>2 DEF NumbersIn
    <2> QED BY <1>2, <2>1, <2>2
  <1>4. x \in Ended(q) <=>
                \E i, j \in 1..Len(q) : /\ i <= j /\ j < Len(q) /\ GroupAligned(q, i, j)
                                        /\ x = RenderNumberDigits(SubSeq(q, i, j))
    <2>1. ASSUME NEW i \in 1..Len(q), NEW j \in 1..Len(q), i <= j, GroupAligned(q, i, j),
                 j < Len(q), x = RenderNumberDigits(SubSeq(q, i, j))
          PROVE  x \in Ended(q)
      <3>1. PICK p \in Alignments(q) : p[1] = i /\ p[2] = j
        BY <1>1, <2>1
      <3> QED BY <2>1, <3>1 DEF Ended
    <2>2. ASSUME x \in Ended(q)
          PROVE  \E p \in Alignments(q) :
                    p[2] < Len(q) /\ x = RenderNumberDigits(SubSeq(q, p[1], p[2]))
      BY <2>2 DEF Ended
    <2> QED BY <1>2, <2>1, <2>2
  <1>5. x \in CardsIn(q) <=>
                \E i, j \in 1..Len(q) : /\ i <= j /\ GroupAligned(q, i, j) /\ FollowedByX(q, j)
                                        /\ x = Append(RenderNumberDigits(SubSeq(q, i, j)), "X")
    <2>1. ASSUME NEW i \in 1..Len(q), NEW j \in 1..Len(q), i <= j, GroupAligned(q, i, j),
                 FollowedByX(q, j), x = Append(RenderNumberDigits(SubSeq(q, i, j)), "X")
          PROVE  x \in CardsIn(q)
      <3>1. PICK p \in Alignments(q) : p[1] = i /\ p[2] = j
        BY <1>1, <2>1
      <3> QED BY <2>1, <3>1 DEF CardsIn
    <2>2. ASSUME x \in CardsIn(q)
          PROVE  \E p \in Alignments(q) :
                    FollowedByX(q, p[2]) /\ x = Append(RenderNumberDigits(SubSeq(q, p[1], p[2])), "X")
      BY <2>2 DEF CardsIn
    <2> QED BY <1>2, <2>1, <2>2
  <1>6. x \in Tails(q) <=>
                \E i \in 1..Len(q) : /\ TailStart(q, i)
                                     /\ x = RenderNumberDigits(SubSeq(q, i, Len(q)))
    BY DEF Tails
  <1> QED BY <1>3, <1>4, <1>5, <1>6

LEMMA NumbersSplit ==
    ASSUME NEW q \in Seq(Symbols)
    PROVE  NumbersIn(q) = Ended(q) \cup Open(q)
  <1> DEFINE n == Len(q)
  <1>1. n \in Nat /\ (n > 0 <=> q # <<>>)
    OBVIOUS
  <1>2. ASSUME NEW x \in NumbersIn(q) PROVE x \in Ended(q) \cup Open(q)
    <2>1. PICK i, j \in 1..n : /\ i <= j /\ GroupAligned(q, i, j)
                               /\ x = RenderNumberDigits(SubSeq(q, i, j))
      BY AlignedIs
    <2>2. CASE j < n
      <3>1. x \in Ended(q)
        BY <2>1, <2>2, AlignedIs
      <3> QED BY <3>1
    <2>3. CASE ~(j < n)
      <3>1. j = n
        BY <1>1, <2>3
      <3>2. InDigits(q) /\ TailStart(q, i)
        BY <1>1, <2>1, <3>1 DEF InDigits, TailStart, GroupAligned
      <3>3. x \in Tails(q)
        BY <2>1, <3>1, <3>2, AlignedIs
      <3> QED BY <3>2, <3>3 DEF Open
    <2> QED BY <2>2, <2>3
  <1>3. ASSUME NEW x \in Ended(q) PROVE x \in NumbersIn(q)
    BY AlignedIs
  <1>4. ASSUME NEW x \in Open(q) PROVE x \in NumbersIn(q)
    <2>1. InDigits(q) /\ x \in Tails(q)
      BY DEF Open
    <2>2. PICK i \in 1..n : TailStart(q, i) /\ x = RenderNumberDigits(SubSeq(q, i, n))
      BY <2>1, AlignedIs
    <2>3. n \in 1..n /\ i <= n
      BY <1>1
    <2>4. GroupAligned(q, i, n)
      BY <1>1, <2>1, <2>2 DEF GroupAligned, TailStart, InDigits
    <2> QED BY <2>2, <2>3, <2>4, AlignedIs
  <1> QED BY <1>2, <1>3, <1>4

LEMMA AppendFacts ==
    ASSUME NEW q \in Seq(Symbols), NEW c \in Symbols
    PROVE  /\ Append(q, c) \in Seq(Symbols) /\ Len(q) \in Nat
           /\ Len(Append(q, c)) = Len(q) + 1 /\ Append(q, c)[Len(q) + 1] = c
           /\ \A i \in 1..Len(q) : Append(q, c)[i] = q[i]
           /\ Append(q, c) # <<>>
  OBVIOUS

\* A digit continues the runs, and begins a group after anything else.
LEMMA TailsDigit ==
    ASSUME NEW q \in Seq(Symbols), NEW c \in Digits
    PROVE  /\ Tails(Append(q, c)) = {Append(t, c) : t \in Tails(q)}
                                        \cup (IF InDigits(q) THEN {} ELSE {<<c>>})
           /\ InDigits(Append(q, c))
  <1> DEFINE p == Append(q, c)
             n == Len(q)
  <1>1. c \in Symbols /\ c # "sep"
    BY SymbolsFacts
  <1>2. /\ p \in Seq(Symbols) /\ n \in Nat /\ Len(p) = n + 1 /\ p[n + 1] = c /\ p # <<>>
        /\ \A i \in 1..n : p[i] = q[i]
    BY <1>1, AppendFacts
  <1>3. \A i \in 1..(n + 1) : /\ SubSeq(p, i, n + 1) = Append(SubSeq(q, i, n), c)
                              /\ SubSeq(q, i, n) \in Seq(Symbols)
    BY <1>1, SubSeqAppend
  <1>4. \A i \in 1..(n + 1) :
           RenderNumberDigits(SubSeq(p, i, n + 1)) = Append(RenderNumberDigits(SubSeq(q, i, n)), c)
    BY <1>1, <1>3, RenderAppend
  <1>5. InDigits(q) <=> n > 0 /\ q[n] \in Digits
    BY DEF InDigits
  <1> HIDE DEF p, n
  <1>6. \A i \in 1..n : TailStart(p, i) <=> TailStart(q, i)
    <2> TAKE i \in 1..n
    <2>1. i > 1 => i - 1 \in 1..n
      BY <1>2
    <2>2. \A k \in i..n : k \in 1..n
      BY <1>2
    <2>3. \A k : k \in i..(n + 1) <=> k \in i..n \/ k = n + 1
      BY <1>2
    <2> QED BY <1>2, <2>1, <2>2, <2>3 DEF TailStart, n
  <1>7. TailStart(p, n + 1) <=> ~InDigits(q)
    <2>1. n + 1 > 1 <=> n > 0
      BY <1>2
    <2>2. \A k \in (n + 1)..Len(p) : k = n + 1
      BY <1>2
    <2>3. n > 0 => n \in 1..n /\ (n + 1) - 1 = n
      BY <1>2
    <2> QED BY <1>2, <1>5, <2>1, <2>2, <2>3 DEF TailStart
  <1>8. RenderNumberDigits(SubSeq(p, n + 1, n + 1)) = <<c>>
    <2>1. SubSeq(q, n + 1, n) = <<>>
      BY <1>2, SubSeqEmpty
    <2>2. n + 1 \in 1..(n + 1)
      BY <1>2
    <2>3. Append(<<>>, c) = <<c>>
      OBVIOUS
    <2>4. RenderNumberDigits(SubSeq(p, n + 1, n + 1)) =
             Append(RenderNumberDigits(SubSeq(q, n + 1, n)), c)
      BY <1>4, <2>2
    <2> QED BY <2>1, <2>3, <2>4, RenderNothing, Zenon
  <1>9. ASSUME NEW x
        PROVE  x \in Tails(p) <=> (\E t \in Tails(q) : x = Append(t, c)) \/ (~InDigits(q) /\ x = <<c>>)
    <2>1. x \in Tails(p) <=> \E i \in 1..(n + 1) : /\ TailStart(p, i)
                                                   /\ x = RenderNumberDigits(SubSeq(p, i, n + 1))
      BY <1>2, AlignedIs
    <2>2. (\E t \in Tails(q) : x = Append(t, c)) <=>
             \E i \in 1..n : TailStart(q, i) /\ x = Append(RenderNumberDigits(SubSeq(q, i, n)), c)
      BY AlignedIs DEF n
    <2>3. \A i : i \in 1..(n + 1) <=> i \in 1..n \/ i = n + 1
      BY <1>2
    <2> QED BY <1>4, <1>6, <1>7, <1>8, <2>1, <2>2, <2>3
  <1>10. InDigits(p)
    BY <1>2 DEF InDigits
  <1> QED BY <1>9, <1>10 DEF p

\* A separator leaves the runs as they are, anything else ends them.
LEMMA TailsOther ==
    ASSUME NEW q \in Seq(Symbols), NEW c \in Symbols, c \notin Digits
    PROVE  /\ Tails(Append(q, c)) = IF c = "sep" THEN Tails(q) ELSE {}
           /\ ~InDigits(Append(q, c))
  <1> DEFINE p == Append(q, c)
             n == Len(q)
  <1>1. /\ p \in Seq(Symbols) /\ n \in Nat /\ Len(p) = n + 1 /\ p[n + 1] = c
        /\ \A i \in 1..n : p[i] = q[i]
    BY AppendFacts
  <1>2. \A i \in 1..(n + 1) : /\ SubSeq(p, i, n + 1) = Append(SubSeq(q, i, n), c)
                              /\ SubSeq(q, i, n) \in Seq(Symbols)
    BY SubSeqAppend
  <1>3. c = "sep" => \A i \in 1..(n + 1) :
           RenderNumberDigits(SubSeq(p, i, n + 1)) = RenderNumberDigits(SubSeq(q, i, n))
    BY <1>2, RenderAppend
  <1> HIDE DEF p, n
  <1>4. ~TailStart(p, n + 1)
    BY <1>1 DEF TailStart
  <1>5. \A i \in 1..n : TailStart(p, i) <=> TailStart(q, i) /\ c = "sep"
    <2> TAKE i \in 1..n
    <2>1. i > 1 => i - 1 \in 1..n
      BY <1>1
    <2>2. \A k \in i..n : k \in 1..n
      BY <1>1
    <2>3. \A k : k \in i..(n + 1) <=> k \in i..n \/ k = n + 1
      BY <1>1
    <2> QED BY <1>1, <2>1, <2>2, <2>3 DEF TailStart, n
  <1>6. ASSUME NEW x PROVE x \in Tails(p) <=> x \in Tails(q) /\ c = "sep"
    <2>1. x \in Tails(p) <=> \E i \in 1..(n + 1) : /\ TailStart(p, i)
                                                   /\ x = RenderNumberDigits(SubSeq(p, i, n + 1))
      BY <1>1, AlignedIs
    <2>2. x \in Tails(q) <=>
             \E i \in 1..n : TailStart(q, i) /\ x = RenderNumberDigits(SubSeq(q, i, n))
      BY AlignedIs DEF n
    <2>3. \A i : i \in 1..(n + 1) <=> i \in 1..n \/ i = n + 1
      BY <1>1
    <2> QED BY <1>3, <1>4, <1>5, <2>1, <2>2, <2>3
  <1>7. ~InDigits(p)
    BY <1>1 DEF InDigits
  <1> QED BY <1>6, <1>7 DEF p

LEMMA EndedAppend ==
    ASSUME NEW q \in Seq(Symbols), NEW c \in Symbols
    PROVE  Ended(Append(q, c)) = IF c \in Digits THEN Ended(q) ELSE NumbersIn(q)
  <1> DEFINE p == Append(q, c)
             n == Len(q)
  <1>1. /\ p \in Seq(Symbols) /\ n \in Nat /\ Len(p) = n + 1 /\ p[n + 1] = c
        /\ \A i \in 1..n : p[i] = q[i]
    BY AppendFacts
  <1>2. \A i, j \in 1..n : SubSeq(p, i, j) = SubSeq(q, i, j)
    BY SubSeqAppend
  <1> HIDE DEF p, n
  <1>3. ASSUME NEW i \in 1..n, NEW j \in 1..n, i <= j
        PROVE  GroupAligned(p, i, j) <=> GroupAligned(q, i, j) /\ (j = n => c \notin Digits)
    <2>1. (i > 1 => i - 1 \in 1..n) /\ (j < n => j + 1 \in 1..n) /\ j < n + 1 /\ (j < n \/ j = n)
      BY <1>1
    <2>2. \A k \in i..j : k \in 1..n
      BY <1>1
    <2>3. p[i] = q[i] /\ p[j] = q[j] /\ (i > 1 => p[i - 1] = q[i - 1])
             /\ (j < n => p[j + 1] = q[j + 1]) /\ (j = n => p[j + 1] = c)
      BY <1>1, <2>1
    <2>4. \A k \in i..j : p[k] = q[k]
      BY <1>1, <2>2
    <2>5. ~(n < n)
      BY <1>1
    <2> QED BY <1>1, <2>1, <2>3, <2>4, <2>5 DEF GroupAligned, n
  <1>4. ASSUME NEW x
        PROVE  x \in Ended(p) <=> x \in (IF c \in Digits THEN Ended(q) ELSE NumbersIn(q))
    <2>1. x \in Ended(p) <=>
             \E i, j \in 1..n : /\ i <= j /\ GroupAligned(p, i, j)
                                /\ x = RenderNumberDigits(SubSeq(p, i, j))
      <3>1. \A j : j \in 1..(n + 1) /\ j < n + 1 <=> j \in 1..n
        BY <1>1
      <3>2. \A i, j : i \in 1..(n + 1) /\ j \in 1..n /\ i <= j => i \in 1..n
        BY <1>1
      <3>3. x \in Ended(p) <=>
              \E i, j \in 1..(n + 1) : /\ i <= j /\ j < n + 1 /\ GroupAligned(p, i, j)
                                       /\ x = RenderNumberDigits(SubSeq(p, i, j))
        BY <1>1, AlignedIs
      <3>4. \A i : i \in 1..n => i \in 1..(n + 1)
        BY <1>1
      <3> QED BY <3>1, <3>2, <3>3, <3>4
    <2>2. \A j \in 1..n : j < n <=> j # n
      BY <1>1
    <2>3. x \in Ended(q) <=>
             \E i, j \in 1..n : /\ i <= j /\ j # n /\ GroupAligned(q, i, j)
                                /\ x = RenderNumberDigits(SubSeq(q, i, j))
      BY <2>2, AlignedIs DEF n
    <2>4. x \in NumbersIn(q) <=>
             \E i, j \in 1..n : /\ i <= j /\ GroupAligned(q, i, j)
                                /\ x = RenderNumberDigits(SubSeq(q, i, j))
      BY AlignedIs DEF n
    <2>5. x \in Ended(p) <=>
             \E i, j \in 1..n : /\ i <= j /\ GroupAligned(q, i, j) /\ (j = n => c \notin Digits)
                                /\ x = RenderNumberDigits(SubSeq(q, i, j))
      BY <1>2, <1>3, <2>1
    <2> QED BY <2>3, <2>4, <2>5
  <1> QED BY <1>4 DEF p

\* The last group of a run that goes on, and nothing but separators after it.
LEMMA LastDigit ==
    ASSUME NEW q, NEW i \in Nat, NEW n \in Nat, i <= n,
           q[i] \in Digits, \A k \in i..n : q[k] \in Digits \cup {"sep"}
    PROVE  \E j \in i..n : q[j] \in Digits /\ \A k \in (j + 1)..n : q[k] = "sep"
  <1> DEFINE Last(m, j) == j \in i..m /\ q[j] \in Digits /\ \A k \in (j + 1)..m : q[k] = "sep"
             S == {d \in Nat : i + d <= n => \E j : Last(i + d, j)}
  <1>1. 0 \in S
    <2>1. Last(i, i) /\ i + 0 = i
      OBVIOUS
    <2> HIDE DEF Last
    <2> QED BY <2>1
  <1>2. ASSUME NEW d \in Nat, d \in S PROVE d + 1 \in S
    <2> SUFFICES ASSUME i + (d + 1) <= n PROVE \E j : Last(i + (d + 1), j)
      OBVIOUS
    <2> DEFINE m == i + d
    <2>1. m \in Nat /\ i + (d + 1) = m + 1 /\ m <= n /\ m + 1 \in i..n
      OBVIOUS
    <2>2. PICK j : Last(m, j)
      BY <1>2, <2>1
    <2> HIDE DEF m, S
    <2>3. CASE q[m + 1] \in Digits
      <3>1. Last(m + 1, m + 1)
        BY <2>1, <2>3
      <3> HIDE DEF Last
      <3> QED BY <2>1, <3>1
    <2>4. CASE q[m + 1] = "sep"
      <3>1. \A k \in (j + 1)..(m + 1) : k \in (j + 1)..m \/ k = m + 1
        BY <2>1
      <3>2. j \in i..(m + 1)
        BY <2>1, <2>2
      <3>3. Last(m + 1, j)
        BY <2>2, <2>4, <3>1, <3>2
      <3> HIDE DEF Last
      <3> QED BY <2>1, <3>3
    <2> QED BY <2>1, <2>3, <2>4
  <1> HIDE DEF S, Last
  <1>3. Nat \subseteq S
    BY <1>1, <1>2, SetInduction
  <1>4. n - i \in Nat /\ i + (n - i) = n /\ n - i \in S
    BY <1>3
  <1>5. \E j : Last(n, j)
    <2> DEFINE d == n - i
    <2>1. d \in S /\ i + d = n
      BY <1>4
    <2> HIDE DEF d
    <2> QED BY <2>1 DEF S
  <1> QED BY <1>5 DEF Last

\* Separators at the end of a number leave no trace.
LEMMA TrailingSeparators ==
    ASSUME NEW q \in Seq(Symbols), NEW i \in 1..Len(q), NEW j \in i..Len(q), NEW n \in j..Len(q),
           \A k \in (j + 1)..n : q[k] = "sep"
    PROVE  RenderNumberDigits(SubSeq(q, i, n)) = RenderNumberDigits(SubSeq(q, i, j))
  <1> DEFINE R(m) == RenderNumberDigits(SubSeq(q, i, m))
             S == {d \in Nat : j + d <= n => R(j + d) = R(j)}
  <1>1. 0 \in S
    <2>1. j + 0 = j
      OBVIOUS
    <2> HIDE DEF R
    <2> QED BY <2>1
  <1>2. ASSUME NEW d \in Nat, d \in S PROVE d + 1 \in S
    <2> SUFFICES ASSUME j + (d + 1) <= n PROVE R(j + (d + 1)) = R(j)
      OBVIOUS
    <2> DEFINE m == j + d
    <2>1. /\ m \in Nat /\ j + (d + 1) = m + 1 /\ m <= n /\ i <= m /\ m + 1 \in (j + 1)..n
          /\ m + 1 \in 1..Len(q) /\ m \in 1..Len(q) /\ m + 1 \in i..Len(q)
      OBVIOUS
    <2>2. R(m) = R(j)
      BY <1>2, <2>1
    <2>3. q[m + 1] = "sep"
      BY <2>1
    <2> HIDE DEF m, S
    <2> DEFINE r == m + 1
    <2>4. r \in i..Len(q) /\ r - 1 = m /\ q[r] = "sep"
      BY <2>1, <2>3
    <2> HIDE DEF r
    <2>5. SubSeq(q, i, r) = SubSeq(q, i, r - 1) \o <<q[r]>>
      BY <2>4, SubSeqRecursiveSecond
    <2>6. SubSeq(q, i, m) \in Seq(Symbols)
      <3>1. \A k \in i..m : q[k] \in Symbols
        BY <2>1
      <3> QED BY <2>1, <3>1, SubSeqProperties
    <2> DEFINE s == SubSeq(q, i, m)
    <2>7. SubSeq(q, i, r) = s \o <<"sep">>
      BY <2>4, <2>5
    <2>8. s \in Seq(Symbols)
      BY <2>6
    <2> HIDE DEF s
    <2>9. s \o <<"sep">> = Append(s, "sep")
      BY <2>8, SymbolsFacts, AppendIsConcat
    <2>10. RenderNumberDigits(Append(s, "sep")) = RenderNumberDigits(s)
      BY <2>8, SymbolsFacts, RenderAppend
    <2>11. R(r) = R(m)
      BY <2>7, <2>9, <2>10 DEF s
    <2> HIDE DEF R
    <2> QED BY <2>1, <2>2, <2>11 DEF r
  <1> HIDE DEF S, R
  <1>3. Nat \subseteq S
    BY <1>1, <1>2, SetInduction
  <1>4. n - j \in Nat /\ j + (n - j) = n /\ n - j \in S
    BY <1>3
  <1>5. R(n) = R(j)
    <2> DEFINE d == n - j
    <2>1. d \in S /\ j + d = n
      BY <1>4
    <2> HIDE DEF d
    <2> QED BY <2>1 DEF S
  <1> QED BY <1>5 DEF R

\* A check character completes the cards whose digits the run ends with.
LEMMA CardsAppend ==
    ASSUME NEW q \in Seq(Symbols), NEW c \in Symbols
    PROVE  CardsIn(Append(q, c)) =
               CardsIn(q) \cup (IF c = "X" THEN {Append(t, "X") : t \in Tails(q)} ELSE {})
  <1> DEFINE p == Append(q, c)
             n == Len(q)
  <1>1. /\ p \in Seq(Symbols) /\ n \in Nat /\ Len(p) = n + 1 /\ p[n + 1] = c
        /\ \A i \in 1..n : p[i] = q[i] /\ q[i] \in Symbols
    BY AppendFacts
  <1>2. \A i, j \in 1..n : SubSeq(p, i, j) = SubSeq(q, i, j)
    BY SubSeqAppend
  <1> HIDE DEF p, n
  <1>3. ASSUME NEW j \in 1..n
        PROVE  FollowedByX(p, j) <=>
                   FollowedByX(q, j) \/ (c = "X" /\ \A l \in (j + 1)..n : q[l] = "sep")
    <2>1. \A k : k \in (j + 1)..(n + 1) <=> k \in (j + 1)..n \/ k = n + 1
      BY <1>1
    <2>2. \A k \in (j + 1)..n : k \in 1..n /\ \A l \in (j + 1)..(k - 1) : l \in 1..n
      BY <1>1
    <2>3. (n + 1) - 1 = n
      BY <1>1
    <2>4. FollowedByX(p, j) <=>
             \E k \in (j + 1)..(n + 1) : p[k] = "X" /\ \A l \in (j + 1)..(k - 1) : p[l] = "sep"
      BY <1>1 DEF FollowedByX
    <2>5. FollowedByX(q, j) <=>
             \E k \in (j + 1)..n : q[k] = "X" /\ \A l \in (j + 1)..(k - 1) : q[l] = "sep"
      BY DEF FollowedByX, n
    <2>6. \A k \in (j + 1)..n :
             (p[k] = "X" /\ \A l \in (j + 1)..(k - 1) : p[l] = "sep") <=>
             (q[k] = "X" /\ \A l \in (j + 1)..(k - 1) : q[l] = "sep")
      BY <1>1, <2>2
    <2>7. (p[n + 1] = "X" /\ \A l \in (j + 1)..n : p[l] = "sep") <=>
             (c = "X" /\ \A l \in (j + 1)..n : q[l] = "sep")
      BY <1>1
    <2> QED BY <2>1, <2>3, <2>4, <2>5, <2>6, <2>7
  <1>4. ASSUME NEW i \in 1..n, NEW j \in 1..n, i <= j
        PROVE  GroupAligned(p, i, j) <=> GroupAligned(q, i, j) /\ (j = n => c \notin Digits)
    <2>1. (i > 1 => i - 1 \in 1..n) /\ (j < n => j + 1 \in 1..n) /\ j < n + 1 /\ (j < n \/ j = n)
      BY <1>1
    <2>2. \A k \in i..j : k \in 1..n
      BY <1>1
    <2>3. p[i] = q[i] /\ p[j] = q[j] /\ (i > 1 => p[i - 1] = q[i - 1])
             /\ (j < n => p[j + 1] = q[j + 1]) /\ (j = n => p[j + 1] = c)
      BY <1>1, <2>1
    <2>4. \A k \in i..j : p[k] = q[k]
      BY <1>1, <2>2
    <2>5. ~(n < n)
      BY <1>1
    <2> QED BY <1>1, <2>1, <2>3, <2>4, <2>5 DEF GroupAligned, n
  <1>5. ~FollowedByX(p, n + 1) /\ ~FollowedByX(q, n)
    <2>1. (n + 2)..(n + 1) = {} /\ (n + 1)..n = {} /\ (n + 1) + 1 = n + 2
      BY <1>1
    <2> QED BY <1>1, <2>1 DEF FollowedByX, n
  <1>6. ASSUME NEW x
        PROVE  x \in CardsIn(p) <=>
                 \E i, j \in 1..n : /\ i <= j /\ GroupAligned(p, i, j) /\ FollowedByX(p, j)
                                    /\ x = Append(RenderNumberDigits(SubSeq(q, i, j)), "X")
    <2>1. \A j : j \in 1..(n + 1) /\ j # n + 1 <=> j \in 1..n
      BY <1>1
    <2>2. \A i, j : i \in 1..(n + 1) /\ j \in 1..n /\ i <= j => i \in 1..n
      BY <1>1
    <2>3. x \in CardsIn(p) <=>
            \E i, j \in 1..(n + 1) : /\ i <= j /\ GroupAligned(p, i, j) /\ FollowedByX(p, j)
                                     /\ x = Append(RenderNumberDigits(SubSeq(p, i, j)), "X")
      <3>1. Len(p) = n + 1
        BY <1>1
      <3> HIDE DEF p, n
      <3>2. x \in CardsIn(p) <=>
              \E i, j \in 1..Len(p) : /\ i <= j /\ GroupAligned(p, i, j) /\ FollowedByX(p, j)
                                      /\ x = Append(RenderNumberDigits(SubSeq(p, i, j)), "X")
        BY AlignedIs
      <3> QED BY <3>1, <3>2, Zenon
    <2>4. x \in CardsIn(p) <=>
            \E i, j \in 1..n : /\ i <= j /\ GroupAligned(p, i, j) /\ FollowedByX(p, j)
                               /\ x = Append(RenderNumberDigits(SubSeq(p, i, j)), "X")
      BY <1>5, <2>1, <2>2, <2>3
    <2> QED BY <1>2, <2>4
  <1>7. ASSUME NEW x
        PROVE  x \in CardsIn(q) <=>
                 \E i, j \in 1..n : /\ i <= j /\ GroupAligned(q, i, j) /\ FollowedByX(q, j)
                                    /\ x = Append(RenderNumberDigits(SubSeq(q, i, j)), "X")
    BY AlignedIs DEF n
  <1>8. ASSUME NEW x, x \in CardsIn(q) PROVE x \in CardsIn(p)
    <2>1. PICK i, j \in 1..n : /\ i <= j /\ GroupAligned(q, i, j) /\ FollowedByX(q, j)
                               /\ x = Append(RenderNumberDigits(SubSeq(q, i, j)), "X")
      BY <1>7, <1>8
    <2>2. j # n
      BY <1>5, <2>1
    <2>3. GroupAligned(p, i, j) /\ FollowedByX(p, j)
      BY <1>3, <1>4, <2>1, <2>2
    <2> QED BY <1>6, <2>1, <2>3
  <1>9. ASSUME NEW x, x \in CardsIn(p), x \notin CardsIn(q)
        PROVE  c = "X" /\ \E t \in Tails(q) : x = Append(t, "X")
    <2>1. PICK i, j \in 1..n : /\ i <= j /\ GroupAligned(p, i, j) /\ FollowedByX(p, j)
                               /\ x = Append(RenderNumberDigits(SubSeq(q, i, j)), "X")
      BY <1>6, <1>9
    <2>2. GroupAligned(q, i, j)
      BY <1>4, <2>1
    <2>3. c = "X" /\ \A l \in (j + 1)..n : q[l] = "sep"
      BY <1>3, <1>7, <1>9, <2>1, <2>2
    <2>4. TailStart(q, i)
      <3>1. \A k \in i..n : k \in i..j \/ k \in (j + 1)..n
        BY <1>1
      <3> QED BY <2>2, <2>3, <3>1 DEF GroupAligned, TailStart, n
    <2>5. RenderNumberDigits(SubSeq(q, i, n)) = RenderNumberDigits(SubSeq(q, i, j))
      <3>1. j \in i..n /\ n \in j..n
        BY <1>1, <2>1
      <3> QED BY <2>3, <3>1, TrailingSeparators DEF n
    <2>6. RenderNumberDigits(SubSeq(q, i, j)) \in Tails(q)
      BY <2>4, <2>5, AlignedIs DEF n
    <2> QED BY <2>1, <2>3, <2>6
  <1>10. ASSUME c = "X", NEW t \in Tails(q) PROVE Append(t, "X") \in CardsIn(p)
    <2>1. PICK i \in 1..n : TailStart(q, i) /\ t = RenderNumberDigits(SubSeq(q, i, n))
      BY AlignedIs DEF n
    <2>2. PICK j \in i..n : q[j] \in Digits /\ \A k \in (j + 1)..n : q[k] = "sep"
      <3>1. i \in Nat /\ n \in Nat /\ i <= n
        BY <1>1
      <3> QED BY <2>1, <3>1, LastDigit DEF TailStart, n
    <2>3. j \in 1..n /\ i <= j /\ j \in i..n /\ n \in j..n
      BY <1>1
    <2>4. GroupAligned(q, i, j)
      <3>1. j < n => j + 1 \in (j + 1)..n
        BY <1>1
      <3>2. j < n => q[j + 1] = "sep"
        BY <2>2, <3>1
      <3>3. \A k \in i..j : k \in i..n
        BY <1>1
      <3> QED BY <2>1, <2>2, <3>2, <3>3, SymbolsFacts DEF GroupAligned, TailStart, n
    <2>5. GroupAligned(p, i, j) /\ FollowedByX(p, j)
      BY <1>3, <1>4, <1>10, <2>2, <2>3, <2>4, SymbolsFacts
    <2>6. t = RenderNumberDigits(SubSeq(q, i, j))
      BY <2>1, <2>2, <2>3, TrailingSeparators DEF n
    <2> QED BY <1>6, <2>3, <2>5, <2>6
  <1>11. ASSUME NEW x
         PROVE  x \in CardsIn(p) <=>
                   x \in CardsIn(q) \cup (IF c = "X" THEN {Append(t, "X") : t \in Tails(q)} ELSE {})
    BY <1>8, <1>9, <1>10
  <1> QED BY <1>11 DEF p

-----------------------------------------------------------------------------
(* Window lengths and denied numbers                                       *)

IndexTyped == denyIndex \in [NumberTypes -> SUBSET Seq(Symbols)]

LEMMA BoundedMax ==
    ASSUME NEW B \in Nat, NEW T, T \subseteq 0..B, T # {}
    PROVE  Max(T) \in T /\ \A x \in T : x <= Max(T)
  <1> DEFINE Gaps == {B - x : x \in T}
  <1>1. Gaps \subseteq Nat /\ Gaps # {}
    <2>1. \A x \in T : x \in Nat /\ B - x \in Nat
      OBVIOUS
    <2> QED BY <2>1
  <1>2. PICK g \in Gaps : \A h \in Gaps : g <= h
    <2> HIDE DEF Gaps
    <2> QED BY <1>1, Least
  <1>3. PICK x \in T : g = B - x
    BY <1>2
  <1>4. \A y \in T : x >= y
    <2> TAKE y \in T
    <2>1. g <= B - y /\ x \in Int /\ y \in Int
      BY <1>2
    <2> QED BY <1>3, <2>1
  <1> HIDE DEF Gaps
  <1>5. \E z \in T : \A y \in T : z >= y
    BY <1>4
  <1>6. Max(T) \in T /\ \A y \in T : Max(T) >= y
    BY <1>5, Zenon DEF Max
  <1>7. ASSUME NEW y \in T PROVE y <= Max(T)
    <2>1. PICK n \in T : n = Max(T)
      BY <1>6
    <2>2. n >= y /\ n \in Int /\ y \in Int
      BY <1>6, <2>1
    <2> QED BY <2>1, <2>2
  <1> QED BY <1>6, <1>7

LEMMA LengthsBounded ==
    ASSUME IndexTyped
    PROVE  /\ WindowLengths \subseteq Nat /\ EnumerateTo \in Nat
           /\ \A n \in WindowLengths : n <= EnumerateTo
  <1> DEFINE B == Longest + Len(CountryPrefix)
  <1>1. B \in Nat /\ Len(CountryPrefix) \in Nat /\ Longest \in Nat /\ Longest <= B
    BY ScanAssumption
  <1>2. ASSUME NEW type, NEW v, Indexable(type, v)
        PROVE  Len(v) \in 0..B /\ Len(v) + Len(CountryPrefix) \in 0..B
    BY <1>1, <1>2, ScanAssumption DEF Indexable
  <1> HIDE DEF B
  <1>3. WindowLengths \subseteq 0..B
    BY <1>2 DEF WindowLengths
  <1>4. WindowLengths \cup {0} \subseteq 0..B
    BY <1>1, <1>3
  <1>5. /\ Max(WindowLengths \cup {0}) \in WindowLengths \cup {0}
        /\ \A n \in WindowLengths \cup {0} : n <= Max(WindowLengths \cup {0})
    <2> DEFINE T == WindowLengths \cup {0}
    <2>1. T \subseteq 0..B /\ T # {}
      BY <1>4
    <2> HIDE DEF T
    <2>2. Max(T) \in T /\ \A n \in T : n <= Max(T)
      BY <1>1, <2>1, BoundedMax
    <2> QED BY <2>2 DEF T
  <1>6. PICK e \in WindowLengths \cup {0} : e = EnumerateTo
    BY <1>5 DEF EnumerateTo
  <1>7. \A n \in WindowLengths \cup {0} : n <= e
    BY <1>5, <1>6 DEF EnumerateTo
  <1>8. \A n \in WindowLengths \cup {0} : n \in Nat
    BY <1>4
  <1> HIDE DEF B
  <1> QED BY <1>6, <1>7, <1>8

\* What is denied of a window has a length that is looked for.
LEMMA DeniedWindow ==
    ASSUME IndexTyped, NEW w \in Seq(Digits), NEW m \in Matches(w),
           IsDenied(m[1], m[2]), Indexable(m[1], m[2])
    PROVE  Len(w) \in WindowLengths
  <1>1. CASE m = <<"PHONE", DropMainlandCountryPrefix(w)>>
    <2> DEFINE v == DropMainlandCountryPrefix(w)
               n == Len(CountryPrefix)
    <2>1. v \in denyIndex["PHONE"] /\ Indexable("PHONE", v)
      BY <1>1 DEF IsDenied
    <2>2. n \in Nat /\ MobileLength \in Nat /\ Len(w) \in Nat
      BY ScanAssumption
    <2>3. Len(w) = Len(v) \/ Len(w) = Len(v) + n
      <3>1. CASE v = w
        BY <3>1
      <3>2. CASE v # w
        <4>1. Len(w) = MobileLength + n /\ v = SubSeq(w, n + 1, Len(w))
          BY <3>2 DEF DropMainlandCountryPrefix
        <4>2. \A i \in (n + 1)..Len(w) : w[i] \in Digits
          BY <2>2
        <4>3. Len(SubSeq(w, n + 1, Len(w))) = IF n + 1 <= Len(w) THEN Len(w) - (n + 1) + 1 ELSE 0
          <5> DEFINE k == n + 1
          <5>1. k \in Int /\ Len(w) \in Int /\ \A i \in k..Len(w) : w[i] \in Digits
            BY <2>2, <4>2
          <5> HIDE DEF k
          <5>2. Len(SubSeq(w, k, Len(w))) = IF k <= Len(w) THEN Len(w) - k + 1 ELSE 0
            BY <5>1, SubSeqProperties
          <5> QED BY <5>2 DEF k
        <4> HIDE DEF v, n
        <4> QED BY <2>2, <4>1, <4>3
      <3> QED BY <3>1, <3>2
    <2> HIDE DEF v, n
    <2> QED BY <2>1, <2>3 DEF WindowLengths, n
  <1>2. CASE m = <<"BANK_ACCOUNT", w>>
    BY <1>2 DEF IsDenied, WindowLengths
  <1>3. CASE m = <<"ID_CARD", w>>
    BY <1>3 DEF IsDenied, WindowLengths
  <1> QED BY <1>1, <1>2, <1>3 DEF Matches

LEMMA DeniedCard ==
    ASSUME IndexTyped, NEW t \in Seq(Digits),
           IsDenied("ID_CARD", Append(t, "X")), Indexable("ID_CARD", Append(t, "X"))
    PROVE  Len(t) = CardDigits /\ CardDigits + 1 \in WindowLengths
  <1>1. Append(t, "X") \in Seq(Symbols) /\ Len(Append(t, "X")) = Len(t) + 1 /\ Len(t) \in Nat
    <2>1. t \in Seq(Symbols)
      BY SymbolsFacts
    <2> QED BY <2>1, SymbolsFacts, AppendFacts
  <1>2. Len(Append(t, "X")) = CardDigits + 1
    BY DEF Indexable
  <1>3. CardDigits \in Nat
    BY ScanAssumption
  <1>4. Len(Append(t, "X")) \in WindowLengths
    BY DEF IsDenied, WindowLengths
  <1> QED BY <1>1, <1>2, <1>3, <1>4

\* The numbers denied among the matches of windows.
DeniedAmong(windows) == Denied(UNION {Matches(w) : w \in windows})
DeniedCards(tails) == Denied({<<"ID_CARD", Append(t, "X")>> : t \in tails})

LEMMA DeniedUnion ==
    ASSUME NEW A, NEW B
    PROVE  Denied(A \cup B) = Denied(A) \cup Denied(B)
  BY DEF Denied

LEMMA AmongUnion ==
    ASSUME NEW A, NEW B
    PROVE  DeniedAmong(A \cup B) = DeniedAmong(A) \cup DeniedAmong(B)
  BY DEF DeniedAmong, Denied

LEMMA AmongNone == DeniedAmong({}) = {} /\ DeniedCards({}) = {}
  BY DEF DeniedAmong, DeniedCards, Denied

\* Windows of other lengths than those looked for hold nothing denied.
LEMMA AmongLengths ==
    ASSUME IndexTyped, NEW T, T \subseteq Seq(Digits)
    PROVE  DeniedAmong(T) = DeniedAmong({t \in T : Len(t) \in WindowLengths})
  <1> DEFINE U == {t \in T : Len(t) \in WindowLengths}
  <1>1. ASSUME NEW m \in DeniedAmong(T) PROVE m \in DeniedAmong(U)
    <2>1. PICK t \in T : m \in Matches(t)
      BY DEF DeniedAmong, Denied
    <2>2. IsDenied(m[1], m[2]) /\ Indexable(m[1], m[2])
      BY DEF DeniedAmong, Denied
    <2>3. t \in U
      BY <2>1, <2>2, DeniedWindow
    <2> QED BY <2>1, <2>2, <2>3 DEF DeniedAmong, Denied
  <1>2. ASSUME NEW m \in DeniedAmong(U) PROVE m \in DeniedAmong(T)
    BY DEF DeniedAmong, Denied
  <1> QED BY <1>1, <1>2

-----------------------------------------------------------------------------
(* Suffixes                                                                *)

Suffix(q, n) == SubSeq(q, Len(q) - n + 1, Len(q))

LEMMA SuffixAppend ==
    ASSUME NEW S, NEW q \in Seq(S), NEW c \in S, NEW n \in 0..Len(q)
    PROVE  Append(Suffix(q, n), c) = Suffix(Append(q, c), n + 1)
  <1> DEFINE i == Len(q) - n + 1
  <1>1. Len(q) \in Nat /\ Len(Append(q, c)) = Len(q) + 1
    OBVIOUS
  <1>2. i \in 1..(Len(q) + 1) /\ i = Len(q) + 1 - (n + 1) + 1
    BY <1>1
  <1> HIDE DEF i
  <1>3. SubSeq(Append(q, c), i, Len(q) + 1) = Append(SubSeq(q, i, Len(q)), c)
    BY <1>2, SubSeqAppend
  <1>4. Suffix(q, n) = SubSeq(q, i, Len(q))
    BY DEF Suffix, i
  <1>5. Suffix(Append(q, c), n + 1) = SubSeq(Append(q, c), i, Len(q) + 1)
    <2>1. Suffix(Append(q, c), n + 1) =
             SubSeq(Append(q, c), Len(Append(q, c)) - (n + 1) + 1, Len(Append(q, c)))
      BY DEF Suffix
    <2>2. Len(Append(q, c)) - (n + 1) + 1 = i
      BY <1>1, <1>2
    <2> QED BY <1>1, <2>1, <2>2, Zenon
  <1> QED BY <1>3, <1>4, <1>5

LEMMA SuffixFacts ==
    ASSUME NEW S, NEW q \in Seq(S), NEW n \in 0..Len(q)
    PROVE  Suffix(q, n) \in Seq(S) /\ Len(Suffix(q, n)) = n
  <1> DEFINE i == Len(q) - n + 1
  <1>1. i \in Int /\ Len(q) \in Int /\ i >= 1 /\ \A k \in i..Len(q) : q[k] \in S
    OBVIOUS
  <1>2. (IF i <= Len(q) THEN Len(q) - i + 1 ELSE 0) = n
    OBVIOUS
  <1>3. Suffix(q, n) = SubSeq(q, i, Len(q))
    BY DEF Suffix
  <1> HIDE DEF i
  <1>4. /\ SubSeq(q, i, Len(q)) \in Seq(S)
        /\ Len(SubSeq(q, i, Len(q))) = IF i <= Len(q) THEN Len(q) - i + 1 ELSE 0
    BY <1>1, SubSeqProperties
  <1> QED BY <1>2, <1>3, <1>4

LEMMA SubSeqAt ==
    ASSUME NEW S, NEW q, NEW a \in Int, NEW b \in Int, \A j \in a..b : q[j] \in S,
           a >= 1, NEW i \in 1..(b - a + 1)
    PROVE  SubSeq(q, a, b)[i] = q[a + i - 1]
  BY SubSeqProperties

\* Cutting the front off leaves the shorter suffixes.
LEMMA SuffixCut ==
    ASSUME NEW S, NEW q \in Seq(S), NEW d \in 0..Len(q)
    PROVE  LET k == SubSeq(q, d + 1, Len(q))
           IN  /\ k \in Seq(S) /\ Len(k) = Len(q) - d
               /\ \A n \in 0..(Len(q) - d) : Suffix(k, n) = Suffix(q, n)
  <1> DEFINE b == d + 1
             l == Len(q)
             k == SubSeq(q, b, l)
  <1>1. b \in Int /\ l \in Int /\ l \in Nat /\ b >= 1 /\ (\A i \in b..l : q[i] \in S)
        /\ (b <= l \/ b = l + 1) /\ b = d + 1
    OBVIOUS
  <1> HIDE DEF b, l
  <1>2. /\ k \in Seq(S) /\ Len(k) = l - b + 1
        /\ \A i \in 1..(l - b + 1) : k[i] = q[b + i - 1]
    <2>1. /\ k \in Seq(S) /\ Len(k) = IF b <= l THEN l - b + 1 ELSE 0
          /\ \A i \in 1..(l - b + 1) : k[i] = q[b + i - 1]
      BY <1>1, SubSeqProperties
    <2> QED BY <1>1, <2>1
  <1> HIDE DEF k
  <1>3. ASSUME NEW n \in 0..(l - d) PROVE Suffix(k, n) = Suffix(q, n)
    <2>1. n \in 0..Len(k) /\ n \in 0..Len(q) /\ Len(k) = l - d /\ l - d \in Nat
      BY <1>1, <1>2 DEF l
    <2>2. Suffix(k, n) \in Seq(S) /\ Suffix(q, n) \in Seq(S)
          /\ Len(Suffix(k, n)) = n /\ Len(Suffix(q, n)) = n
      BY <1>2, <2>1, SuffixFacts
    <2>3. ASSUME NEW i \in 1..n PROVE Suffix(k, n)[i] = Suffix(q, n)[i]
      <3> DEFINE x == Len(k) - n + 1
                 y == l - n + 1
      <3>1. /\ x \in Int /\ y \in Int /\ Len(k) \in Int /\ x >= 1 /\ y >= 1
            /\ i \in 1..(Len(k) - x + 1) /\ i \in 1..(l - y + 1)
            /\ x + i - 1 \in 1..(l - b + 1) /\ b + (x + i - 1) - 1 = y + i - 1
        BY <1>1, <2>1
      <3>2. (\A j \in x..Len(k) : k[j] \in S) /\ \A j \in y..l : q[j] \in S
        BY <1>2, <2>1 DEF l
      <3> HIDE DEF x, y
      <3>3. SubSeq(k, x, Len(k))[i] = k[x + i - 1]
        BY <3>1, <3>2, SubSeqAt
      <3>4. SubSeq(q, y, l)[i] = q[y + i - 1]
        <4>1. PICK e \in Int, u \in Int : e = l /\ u = y
          BY <1>1, <3>1
        <4>2. (\A j \in u..e : q[j] \in S) /\ u >= 1 /\ i \in 1..(e - u + 1)
          BY <3>1, <3>2, <4>1
        <4>3. SubSeq(q, u, e)[i] = q[u + i - 1]
          BY <4>2, SubSeqAt
        <4> QED BY <4>1, <4>3
      <3>5. k[x + i - 1] = q[y + i - 1]
        <4> DEFINE z == x + i - 1
        <4>1. z \in 1..(l - b + 1) /\ b + z - 1 = y + i - 1
          BY <3>1
        <4> HIDE DEF z
        <4>2. k[z] = q[y + i - 1]
          BY <1>2, <4>1
        <4> QED BY <4>2 DEF z
      <3>6. Suffix(k, n) = SubSeq(k, x, Len(k)) /\ Suffix(q, n) = SubSeq(q, y, l)
        BY DEF Suffix, x, y, l
      <3> QED BY <3>3, <3>4, <3>5, <3>6
    <2> QED BY <2>2, <2>3, SeqEqual
  <1>4. Len(k) = l - d
    BY <1>1, <1>2
  <1> QED BY <1>2, <1>3, <1>4 DEF k, b, l

-----------------------------------------------------------------------------
(* The run, and the tails it stands for                                    *)

Runs == [group : Seq(Digits), oversized : BOOLEAN, kept : Seq(Digits), base : Nat,
         total : Nat, starts : SUBSET Nat, inRun : BOOLEAN]

RunTyped(s) ==
    /\ s \in Runs /\ s.base + Len(s.kept) = s.total
    /\ \A a \in s.starts : s.base <= a /\ a < s.total /\ s.total - a <= EnumerateTo
    /\ Len(s.group) <= EnumerateTo /\ Len(s.kept) <= EnumerateTo + Slack
    /\ s.oversized => s.group = <<>>

\* Where the groups begin that are read, the last of them included.
GroupStarts(s) == s.starts \cup (IF s.group = <<>> THEN {} ELSE {s.total})

\* The tails that a window can reach are suffixes of what is kept, and they
\* begin where a group begins; T are all tails of the text.
Suffixes(full, T, E) ==
    \A t \in T : Len(t) <= E => Len(t) <= Len(full) /\ t = Suffix(full, Len(t))
Reached(end, begun, T, E) ==
    \A n \in 0..E : (\E t \in T : Len(t) = n) <=> end - n \in begun

Follows(s, T, inDigits) ==
    /\ ~s.inRun => s = NoRun /\ T = {} /\ ~inDigits
    /\ inDigits <=> s.oversized \/ s.group # <<>>
    /\ T \subseteq Seq(Digits)
    /\ s.oversized => \A t \in T : Len(t) > EnumerateTo
    /\ ~s.oversized =>
          /\ \A t \in T : Len(t) >= Len(s.group)
          /\ Suffixes(s.kept \o s.group, T, EnumerateTo)
          /\ Reached(s.total + Len(s.group), GroupStarts(s), T, EnumerateTo)

LEMMA LeastOf ==
    ASSUME NEW T, T \subseteq Nat, T # {}
    PROVE  Min(T) \in T /\ \A x \in T : Min(T) <= x
  <1>1. \E x \in T : \A y \in T : x <= y
    BY Least
  <1> QED BY <1>1, Zenon DEF Min

\* What is cut off the front no later window can reach, and what stays is
\* bounded.
LEMMA DeadOk ==
    ASSUME NEW E \in Nat, NEW full \in Seq(Digits), NEW b \in Nat, NEW st, st \subseteq Nat,
           \A a \in st : b <= a /\ a < b + Len(full) /\ (b + Len(full)) - a <= E
    PROVE  /\ Dead(full, b, st) \in 0..Len(full)
           /\ \A a \in st : b + Dead(full, b, st) <= a
           /\ Len(full) - Dead(full, b, st) <= E + Slack
  <1> DEFINE l == Len(full)
             dead == IF st = {} THEN l ELSE Min(st) - b
  <1>1. l \in Nat /\ Slack \in Nat
    BY ScanAssumption
  <1>2. Dead(full, b, st) = IF dead > Slack THEN dead ELSE 0
    BY DEF Dead
  <1>3. dead \in 0..l /\ (\A a \in st : b + dead <= a) /\ l - dead <= E
    <2>1. CASE st = {}
      BY <1>1, <2>1
    <2>2. CASE st # {}
      <3>1. PICK m \in st : m = Min(st) /\ \A a \in st : m <= a
        BY <2>2, LeastOf
      <3>2. m \in Nat /\ b <= m /\ m < b + l /\ b + l - m <= E
        BY <3>1
      <3>3. dead = m - b
        BY <2>2, <3>1
      <3>4. \A a \in st : a \in Nat /\ m <= a
        BY <3>1
      <3> HIDE DEF dead, l
      <3> QED BY <1>1, <3>2, <3>3, <3>4
    <2> QED BY <2>1, <2>2
  <1>4. \A a \in st : a \in Nat /\ b <= a
    OBVIOUS
  <1> HIDE DEF dead
  <1>5. CASE dead > Slack
    BY <1>2, <1>3, <1>5, <1>1
  <1>6. CASE ~(dead > Slack)
    BY <1>1, <1>2, <1>3, <1>4, <1>6
  <1> QED BY <1>5, <1>6

\* closeGroup keeps the tails, and looks up those of which the last group ends.
LEMMA CloseOk ==
    ASSUME IndexTyped, NEW s, NEW T, NEW inDigits \in BOOLEAN,
           RunTyped(s), Follows(s, T, inDigits)
    PROVE  /\ RunTyped(CloseGroup(s).state)
           /\ Follows(CloseGroup(s).state, T, FALSE)
           /\ CloseGroup(s).state.group = <<>> /\ ~CloseGroup(s).state.oversized
           /\ CloseGroup(s).state.inRun = s.inRun
           /\ CloseGroup(s).found = DeniedAmong(IF inDigits THEN T ELSE {})
  <1>0. PICK E \in Nat : E = EnumerateTo
    BY LengthsBounded
  <1>1. \A n \in WindowLengths : n \in Nat /\ n <= E
    BY <1>0, LengthsBounded
  <1>2. s \in Runs /\ T \subseteq Seq(Digits)
    BY DEF RunTyped, Follows
  <1>3. ASSUME NEW t \in T PROVE Len(t) \in Nat
    BY <1>2
  <1>4. CASE s.oversized
    <2>1. CloseGroup(s) = [state |-> Severed(s), found |-> {}]
      BY <1>4 DEF CloseGroup
    <2> DEFINE c == Severed(s)
    <2>2. /\ c \in Runs /\ c.group = <<>> /\ c.oversized = FALSE /\ c.kept = <<>>
          /\ c.base = s.total /\ c.total = s.total /\ c.starts = {} /\ c.inRun = s.inRun
      <3>1. s \in Runs /\ s.total \in Nat /\ <<>> \in Seq(Digits)
        BY <1>2 DEF Runs
      <3>2. PICK e \in Nat : e = s.total
        BY <3>1
      <3>3. c = [s EXCEPT !.group = <<>>, !.oversized = FALSE,
                          !.kept = <<>>, !.base = e, !.starts = {}]
        BY <3>2 DEF Severed
      <3> HIDE DEF c
      <3> QED BY <3>1, <3>2, <3>3 DEF Runs
    <2> HIDE DEF c
    <2>3. s.inRun
      BY <1>4 DEF Follows, NoRun
    <2>4. \A t \in T : Len(t) > E
      BY <1>0, <1>4 DEF Follows
    <2>5. RunTyped(c)
      <3>1. Len(<<>>) = 0 /\ s.total \in Nat /\ 0 <= E /\ 0 <= E + Slack
        BY <1>2, ScanAssumption DEF Runs
      <3> QED BY <1>0, <2>2, <3>1 DEF RunTyped
    <2>6. Suffixes(c.kept \o c.group, T, E)
      BY <1>3, <2>4 DEF Suffixes
    <2>7. Reached(c.total + Len(c.group), GroupStarts(c), T, E)
      <3>1. GroupStarts(c) = {}
        BY <2>2 DEF GroupStarts
      <3>2. \A n \in 0..E : ~\E t \in T : Len(t) = n
        BY <1>3, <2>4
      <3> QED BY <3>1, <3>2 DEF Reached
    <2>8. Follows(c, T, FALSE)
      <3>1. \A t \in T : Len(t) >= 0
        BY <1>3
      <3>2. Len(c.group) = 0
        BY <2>2
      <3> QED BY <1>0, <1>2, <2>2, <2>3, <2>6, <2>7, <3>1, <3>2 DEF Follows
    <2>9. DeniedAmong(IF inDigits THEN T ELSE {}) = {}
      <3>1. {t \in T : Len(t) \in WindowLengths} = {}
        BY <1>1, <1>3, <2>4
      <3>2. DeniedAmong(T) = {}
        BY <1>2, <3>1, AmongLengths, AmongNone
      <3> QED BY <3>2, AmongNone
    <2>10. CloseGroup(s).state = c /\ CloseGroup(s).found = {}
      BY <2>1 DEF c
    <2>11. CloseGroup(s).found = DeniedAmong(IF inDigits THEN T ELSE {})
      BY <2>9, <2>10
    <2> QED BY <2>2, <2>5, <2>8, <2>10, <2>11
  <1>5. CASE ~s.oversized /\ s.group = <<>>
    <2>1. CloseGroup(s) = [state |-> s, found |-> {}]
      BY <1>5 DEF CloseGroup
    <2>2. ~inDigits
      BY <1>5 DEF Follows
    <2>3. Follows(s, T, FALSE)
      BY <2>2 DEF Follows
    <2>4. CloseGroup(s).state = s /\ CloseGroup(s).found = {}
      BY <2>1
    <2>5. CloseGroup(s).found = DeniedAmong(IF inDigits THEN T ELSE {})
      BY <2>2, <2>4, AmongNone
    <2> QED BY <1>5, <2>3, <2>4, <2>5
  <1>6. CASE ~s.oversized /\ s.group # <<>>
    <2> DEFINE full == s.kept \o s.group
               total == s.total + Len(s.group)
               starts == {a \in s.starts \cup {s.total} : total - a <= EnumerateTo}
               windows == {SubSeq(full, total - n - s.base + 1, Len(full)) :
                             n \in {m \in WindowLengths :
                                      /\ total >= m + s.base
                                      /\ total - m \in starts}}
               dead == Dead(full, s.base, starts)
               c == [s EXCEPT !.group = <<>>, !.total = total, !.starts = starts,
                              !.kept = SubSeq(full, dead + 1, Len(full)),
                              !.base = @ + dead]
    <2>1. CloseGroup(s) = [state |-> c, found |-> Denied(UNION {Matches(w) : w \in windows})]
      BY <1>6 DEF CloseGroup
    <2>2. /\ s.group \in Seq(Digits) /\ s.kept \in Seq(Digits) /\ s.base \in Nat
          /\ s.total \in Nat /\ s.starts \subseteq Nat /\ s.base + Len(s.kept) = s.total
          /\ Len(s.group) > 0
      BY <1>2, <1>6 DEF Runs, RunTyped
    <2>3. full \in Seq(Digits) /\ Len(full) = Len(s.kept) + Len(s.group)
      BY <2>2
    <2>4. total \in Nat /\ s.base + Len(full) = total /\ Len(s.group) \in Nat /\ Len(full) \in Nat
      <3>1. PICK b \in Nat, e \in Nat, k \in Nat, g \in Nat :
                 b = s.base /\ e = s.total /\ k = Len(s.kept) /\ g = Len(s.group)
        BY <2>2
      <3>2. b + k = e /\ Len(full) = k + g
        BY <2>2, <2>3, <3>1
      <3> HIDE DEF full
      <3>3. total = e + g
        BY <3>1
      <3> HIDE DEF total
      <3>4. e + g \in Nat /\ b + (k + g) = e + g /\ k + g \in Nat
        <4>1. b + k = e
          BY <3>2
        <4> QED BY <4>1
      <3>5. s.base + Len(full) = total
        BY <3>1, <3>2, <3>3, <3>4, Zenon
      <3> QED BY <3>1, <3>2, <3>3, <3>4, <3>5, Zenon
    <2> HIDE DEF full
    <2>5. ASSUME NEW a \in starts
          PROVE  a \in Nat /\ s.base <= a /\ a < total /\ total - a <= E
      <3>1. a \in s.starts \/ a = s.total
        OBVIOUS
      <3>2. total - a <= E
        BY <1>0
      <3>3. PICK b \in Nat, e \in Nat, k \in Nat, g \in Nat :
                 b = s.base /\ e = s.total /\ k = Len(s.kept) /\ g = Len(s.group)
        BY <2>2
      <3>4. b + k = e /\ g > 0 /\ total = e + g
        BY <2>2, <3>3
      <3>5. a \in s.starts => a \in Nat /\ b <= a /\ a < e
        BY <2>2, <3>3 DEF RunTyped
      <3> HIDE DEF total, starts
      <3>6. PICK x \in Nat : x = a
        BY <3>1, <3>3, <3>5
      <3>7. b <= x /\ x < e + g
        <4>1. (b <= x /\ x < e) \/ x = e
          BY <3>1, <3>3, <3>5, <3>6
        <4>2. b <= e
          BY <3>3, <3>4
        <4> QED BY <4>1, <4>2, <3>3, <3>4
      <3> QED BY <3>2, <3>3, <3>4, <3>6, <3>7, Zenon
    <2> HIDE DEF total, starts
    <2>6. /\ dead \in 0..Len(full) /\ \A a \in starts : s.base + dead <= a
          /\ Len(full) - dead <= E + Slack
      <3>1. starts \subseteq Nat
        BY <2>5
      <3>2. \A a \in starts : s.base <= a /\ a < s.base + Len(full) /\ (s.base + Len(full)) - a <= E
        <4>1. s.base + Len(full) = total
          BY <2>4
        <4>2. ASSUME NEW a \in starts
              PROVE  s.base <= a /\ a < s.base + Len(full) /\ (s.base + Len(full)) - a <= E
          <5>1. s.base <= a /\ a < total /\ total - a <= E
            BY <2>5
          <5> QED BY <4>1, <5>1, Zenon
        <4> QED BY <4>2
      <3>3. PICK b, l, st : b \in Nat /\ b = s.base /\ l = full /\ st = starts
        BY <2>2
      <3> QED BY <2>3, <3>1, <3>2, <3>3, DeadOk
    <2> HIDE DEF dead
    <2> DEFINE kept == SubSeq(full, dead + 1, Len(full))
    <2>7. /\ kept \in Seq(Digits) /\ Len(kept) = Len(full) - dead
          /\ \A n \in 0..(Len(full) - dead) : Suffix(kept, n) = Suffix(full, n)
      <3>1. PICK l, d : l = full /\ d = dead
        BY <2>4, <2>6
      <3> QED BY <2>3, <2>6, <3>1, SuffixCut
    <2> HIDE DEF kept
    <2>8. /\ c \in Runs /\ c.group = <<>> /\ c.oversized = FALSE /\ c.kept = kept
          /\ c.base = s.base + dead /\ c.total = total /\ c.starts = starts /\ c.inRun = s.inRun
      <3>1. s.base + dead \in Nat /\ starts \in SUBSET Nat /\ <<>> \in Seq(Digits)
        BY <2>2, <2>4, <2>5, <2>6
      <3>2. c = [s EXCEPT !.group = <<>>, !.total = total, !.starts = starts,
                          !.kept = kept, !.base = @ + dead]
        BY DEF kept
      <3> HIDE DEF c
      <3>3. s \in Runs /\ s.oversized = FALSE
        BY <1>2, <1>6 DEF Runs
      <3> QED BY <2>4, <2>7, <3>1, <3>2, <3>3 DEF Runs
    <2> HIDE DEF c
    <2>9. s.inRun
      BY <1>6 DEF Follows, NoRun
    <2>10. /\ \A t \in T : Len(t) >= Len(s.group)
           /\ Suffixes(full, T, E) /\ Reached(total, GroupStarts(s), T, E)
      BY <1>0, <1>6 DEF Follows, full, total
    <2>11. \A a : a \in starts <=> a \in GroupStarts(s) /\ total - a <= E
      BY <1>0, <1>6 DEF GroupStarts, starts
    <2>12. ASSUME NEW n \in 0..E
           PROVE  (\E t \in T : Len(t) = n) <=> total - n \in starts
      <3>1. total - (total - n) = n /\ n <= E
        BY <2>4
      <3>2. (\E t \in T : Len(t) = n) <=> total - n \in GroupStarts(s)
        BY <2>10 DEF Reached
      <3> QED BY <2>11, <3>1, <3>2
    <2>13. ASSUME NEW t \in T, Len(t) <= E
           PROVE  Len(t) <= Len(kept) /\ t = Suffix(kept, Len(t)) /\ t = Suffix(full, Len(t))
                     /\ total - Len(t) \in starts
      <3>1. PICK n \in 0..E : n = Len(t)
        BY <1>3, <2>13
      <3>2. total - n \in starts
        BY <2>12, <3>1
      <3>3. s.base + dead <= total - n
        BY <2>6, <3>2
      <3>4. n \in 0..(Len(full) - dead) /\ Len(full) - dead \in Nat
        <4>1. PICK b \in Nat, l \in Nat, d \in Nat, m \in Nat :
                   b = s.base /\ l = Len(full) /\ d = dead /\ m = total
          BY <2>2, <2>4, <2>6
        <4>2. b + l = m /\ d <= l /\ b + d <= m - n
          BY <2>4, <2>6, <3>3, <4>1
        <4>3. n \in 0..(l - d) /\ l - d \in Nat
          BY <3>1, <4>1, <4>2
        <4> QED BY <4>1, <4>3
      <3>5. t = Suffix(full, n)
        BY <2>10, <2>13, <3>1 DEF Suffixes
      <3> QED BY <2>4, <2>6, <2>7, <3>1, <3>2, <3>4, <3>5
    <2>14. RunTyped(c)
      <3>1. c.base + Len(c.kept) = c.total
        <4>1. PICK b \in Nat, l \in Nat, d \in Nat, m \in Nat :
                   b = s.base /\ l = Len(full) /\ d = dead /\ m = total
          BY <2>2, <2>4, <2>6
        <4>2. b + l = m /\ d <= l
          BY <2>4, <2>6, <4>1
        <4>3. (b + d) + (l - d) = m
          BY <4>1, <4>2
        <4> QED BY <2>7, <2>8, <4>1, <4>3, Zenon
      <3>2. \A a \in c.starts : c.base <= a /\ a < c.total /\ c.total - a <= E
        BY <2>5, <2>6, <2>8
      <3>3. Len(c.group) <= E /\ Len(c.kept) <= E + Slack
        <4>1. Len(<<>>) = 0
          OBVIOUS
        <4> QED BY <2>6, <2>7, <2>8, <4>1
      <3> QED BY <1>0, <2>8, <3>1, <3>2, <3>3 DEF RunTyped
    <2>15. Follows(c, T, FALSE)
      <3>1. c.kept \o c.group = kept
        BY <2>7, <2>8
      <3>2. Len(c.group) = 0 /\ total + 0 = total
        BY <2>4, <2>8
      <3>3. GroupStarts(c) = starts
        BY <2>8 DEF GroupStarts
      <3>4. Suffixes(kept, T, E)
        BY <2>13 DEF Suffixes
      <3>5. Reached(total, starts, T, E)
        BY <2>12 DEF Reached
      <3>6. \A t \in T : Len(t) >= 0
        BY <1>3
      <3> QED BY <1>0, <1>2, <2>8, <2>9, <3>1, <3>2, <3>3, <3>4, <3>5, <3>6 DEF Follows
    <2>16. inDigits
      BY <1>6 DEF Follows
    <2>17. windows = {t \in T : Len(t) \in WindowLengths}
      <3>1. ASSUME NEW t \in T, Len(t) \in WindowLengths PROVE t \in windows
        <4>1. PICK n \in Nat : n = Len(t) /\ n <= E /\ n \in WindowLengths
          BY <1>1, <3>1
        <4>2. n <= Len(kept) /\ t = Suffix(full, n) /\ total - n \in starts
          BY <2>13, <4>1
        <4>3. total >= n + s.base /\ total - n - s.base + 1 = Len(full) - n + 1
          <5>1. PICK b \in Nat, l \in Nat, d \in Nat, m \in Nat :
                     b = s.base /\ l = Len(full) /\ d = dead /\ m = total
            BY <2>2, <2>4, <2>6
          <5>2. b + l = m /\ d <= l /\ n <= l - d
            BY <2>4, <2>6, <2>7, <4>2, <5>1
          <5>3. m >= n + b
            BY <5>2
          <5>4. m - n - b + 1 = l - n + 1
            <6>1. b + l = m
              BY <5>2
            <6> QED BY <6>1
          <5> QED BY <5>1, <5>3, <5>4, Zenon
        <4>4. total - n - s.base + 1 = Len(full) - n + 1
          BY <4>3
        <4>5. t = SubSeq(full, total - n - s.base + 1, Len(full))
          BY <4>2, <4>4 DEF Suffix
        <4> QED BY <4>1, <4>2, <4>3, <4>5
      <3>2. ASSUME NEW w \in windows PROVE w \in T /\ Len(w) \in WindowLengths
        <4>1. PICK n \in WindowLengths : /\ total - n \in starts
                                         /\ w = SubSeq(full, total - n - s.base + 1, Len(full))
          OBVIOUS
        <4>2. n \in 0..E /\ total - n - s.base + 1 = Len(full) - n + 1
          <5>1. PICK b \in Nat, l \in Nat, m \in Nat, x \in Nat :
                     b = s.base /\ l = Len(full) /\ m = total /\ x = n
            BY <1>1, <2>2, <2>4
          <5>2. b + l = m
            BY <2>4, <5>1
          <5>3. m - x - b + 1 = l - x + 1
            BY <5>2
          <5>4. n \in 0..E
            BY <1>1
          <5> QED BY <5>1, <5>3, <5>4, Zenon
        <4>3. PICK t \in T : Len(t) = n
          BY <2>12, <4>1, <4>2
        <4>4. t = Suffix(full, n)
          BY <2>13, <4>2, <4>3
        <4>5. w = t
          BY <4>1, <4>2, <4>4 DEF Suffix
        <4> QED BY <4>3, <4>5
      <3> HIDE DEF windows
      <3> QED BY <3>1, <3>2
    <2> HIDE DEF windows
    <2>18. CloseGroup(s).found = DeniedAmong(T)
      <3>1. CloseGroup(s).found = DeniedAmong(windows)
        BY <2>1 DEF DeniedAmong
      <3> QED BY <1>2, <2>17, <3>1, AmongLengths
    <2>19. CloseGroup(s).state = c
      BY <2>1
    <2> QED BY <2>8, <2>14, <2>15, <2>16, <2>18, <2>19
  <1> QED BY <1>4, <1>5, <1>6

\* One more digit for every tail, and a group that begins with it.
Longer(T, c) == {Append(t, c) : t \in T}

LEMMA LongerFacts ==
    ASSUME NEW T, T \subseteq Seq(Digits), NEW c \in Digits
    PROVE  /\ Longer(T, c) \subseteq Seq(Digits) /\ <<c>> \in Seq(Digits) /\ Len(<<c>>) = 1
           /\ \A t \in T : /\ Append(t, c) \in Longer(T, c) /\ Len(t) \in Nat
                           /\ Len(Append(t, c)) = Len(t) + 1
  <1>1. ASSUME NEW t \in T
        PROVE  /\ Append(t, c) \in Seq(Digits) /\ Len(Append(t, c)) = Len(t) + 1
               /\ Len(t) \in Nat
    <2>1. t \in Seq(Digits)
      OBVIOUS
    <2> QED BY <2>1
  <1>2. Longer(T, c) \subseteq Seq(Digits)
    BY <1>1 DEF Longer
  <1>3. \A t \in T : Append(t, c) \in Longer(T, c)
    BY DEF Longer
  <1>4. <<c>> \in Seq(Digits) /\ Len(<<c>>) = 1
    OBVIOUS
  <1> QED BY <1>1, <1>2, <1>3, <1>4, Zenon

LEMMA LongerOf ==
    ASSUME NEW T, T \subseteq Seq(Digits), NEW c \in Digits, NEW u \in Longer(T, c)
    PROVE  \E t \in T : Len(t) \in Nat /\ u = Append(t, c) /\ Len(u) = Len(t) + 1
  <1>1. PICK t \in T : u = Append(t, c)
    BY DEF Longer
  <1>2. t \in Seq(Digits)
    OBVIOUS
  <1>3. Len(t) \in Nat /\ Len(Append(t, c)) = Len(t) + 1
    BY <1>2
  <1> QED BY <1>1, <1>3, Zenon

LEMMA SuffixesLonger ==
    ASSUME NEW E \in Nat, NEW full \in Seq(Digits), NEW T, T \subseteq Seq(Digits),
           NEW c \in Digits, Suffixes(full, T, E)
    PROVE  Suffixes(Append(full, c), Longer(T, c) \cup {<<c>>}, E)
  <1>1. Len(full) \in Nat /\ Len(Append(full, c)) = Len(full) + 1
    OBVIOUS
  <1>2. ASSUME NEW u \in Longer(T, c), Len(u) <= E
        PROVE  Len(u) <= Len(Append(full, c)) /\ u = Suffix(Append(full, c), Len(u))
    <2>1. PICK t \in T : Len(t) \in Nat /\ u = Append(t, c) /\ Len(u) = Len(t) + 1
      BY LongerOf
    <2>2. Len(t) \in Nat /\ Len(t) <= E
      BY <1>2, <2>1
    <2>3. Len(t) <= Len(full) /\ t = Suffix(full, Len(t))
      BY <2>2 DEF Suffixes
    <2>4. PICK n \in 0..Len(full) : n = Len(t)
      BY <1>1, <2>2, <2>3
    <2>5. Append(Suffix(full, n), c) = Suffix(Append(full, c), n + 1)
      BY SuffixAppend
    <2>6. u = Suffix(Append(full, c), Len(u))
      BY <2>1, <2>3, <2>4, <2>5, Zenon
    <2> QED BY <1>1, <2>1, <2>2, <2>3, <2>6
  <1>3. 1 <= Len(Append(full, c)) /\ <<c>> = Suffix(Append(full, c), 1)
    <2>1. 0 \in 0..Len(full) /\ 0 + 1 = 1
      BY <1>1
    <2>2. Append(Suffix(full, 0), c) = Suffix(Append(full, c), 1)
      BY <2>1, SuffixAppend
    <2>3. Suffix(full, 0) \in Seq(Digits) /\ Len(Suffix(full, 0)) = 0
      BY <2>1, SuffixFacts
    <2>4. Suffix(full, 0) = <<>>
      BY <2>3
    <2>5. Append(<<>>, c) = <<c>>
      OBVIOUS
    <2>6. <<c>> = Suffix(Append(full, c), 1)
      BY <2>2, <2>4, <2>5, Zenon
    <2> QED BY <1>1, <2>6
  <1>4. Len(<<c>>) = 1
    OBVIOUS
  <1> QED BY <1>2, <1>3, <1>4 DEF Suffixes

LEMMA ReachedLonger ==
    ASSUME NEW E \in Nat, NEW end \in Nat, NEW begun, NEW T, T \subseteq Seq(Digits),
           NEW c \in Digits, Reached(end, begun, T, E),
           \A a \in begun : a \in Nat /\ a <= end
    PROVE  /\ Reached(end + 1, begun, Longer(T, c), E)
           /\ end \notin begun =>
                Reached(end + 1, begun \cup {end}, Longer(T, c) \cup {<<c>>}, E)
  <1>1. ASSUME NEW n \in 0..E
        PROVE  (\E u \in Longer(T, c) : Len(u) = n) <=> end + 1 - n \in begun
    <2>1. CASE n = 0
      <3>1. ~\E u \in Longer(T, c) : Len(u) = n
        <4>1. ASSUME NEW u \in Longer(T, c) PROVE Len(u) # 0
          <5>1. PICK t \in T : Len(t) \in Nat /\ u = Append(t, c) /\ Len(u) = Len(t) + 1
            BY LongerOf
          <5> QED BY <5>1
        <4> QED BY <2>1, <4>1
      <3>2. end + 1 - n \notin begun
        BY <2>1
      <3> QED BY <3>1, <3>2
    <2>2. CASE n > 0
      <3>1. PICK m \in 0..E : m = n - 1 /\ n = m + 1
        BY <2>2
      <3>2. (\E t \in T : Len(t) = m) <=> end - m \in begun
        BY DEF Reached
      <3>3. end + 1 - n = end - m
        BY <3>1
      <3>4. ASSUME NEW u \in Longer(T, c), Len(u) = n PROVE \E t \in T : Len(t) = m
        <4>1. PICK t \in T : Len(t) \in Nat /\ u = Append(t, c) /\ Len(u) = Len(t) + 1
          BY LongerOf
        <4> QED BY <3>1, <3>4, <4>1
      <3>5. ASSUME NEW t \in T, Len(t) = m PROVE \E u \in Longer(T, c) : Len(u) = n
        <4>1. Append(t, c) \in Longer(T, c) /\ Len(Append(t, c)) = Len(t) + 1
          BY LongerFacts
        <4> QED BY <3>1, <3>5, <4>1
      <3> QED BY <3>2, <3>3, <3>4, <3>5
    <2> QED BY <2>1, <2>2
  <1>2. ASSUME NEW n \in 0..E, end \notin begun
        PROVE  (\E u \in Longer(T, c) \cup {<<c>>} : Len(u) = n) <=>
                  end + 1 - n \in begun \cup {end}
    <2>1. Len(<<c>>) = 1 /\ (end + 1 - n = end <=> n = 1)
      OBVIOUS
    <2> QED BY <1>1, <2>1
  <1> QED BY <1>1, <1>2 DEF Reached

LEMMA AppendJoined ==
    ASSUME NEW S, NEW k \in Seq(S), NEW g \in Seq(S), NEW c \in S
    PROVE  /\ Append(g, c) \in Seq(S) /\ Len(Append(g, c)) = Len(g) + 1 /\ Append(g, c) # <<>>
           /\ k \o g \in Seq(S) /\ k \o Append(g, c) = Append(k \o g, c)
  <1>1. Append(g, c) \in Seq(S) /\ Len(Append(g, c)) = Len(g) + 1 /\ Append(g, c) # <<>>
    OBVIOUS
  <1>2. k \o g \in Seq(S) /\ <<c>> \in Seq(S)
    OBVIOUS
  <1>3. Append(g, c) = g \o <<c>> /\ Append(k \o g, c) = (k \o g) \o <<c>>
    BY <1>2, AppendIsConcat
  <1>4. (k \o g) \o <<c>> = k \o (g \o <<c>>)
    BY <1>2, ConcatAssociative
  <1> QED BY <1>1, <1>2, <1>3, <1>4

\* A digit makes every tail of the run longer.
LEMMA DigitOk ==
    ASSUME IndexTyped, EnumerateTo > 0, NEW s, NEW T, NEW inDigits \in BOOLEAN,
           RunTyped(s), Follows(s, T, inDigits), NEW c \in Digits
    PROVE  /\ RunTyped(TakeDigit(s, c))
           /\ Follows(TakeDigit(s, c),
                      Longer(T, c) \cup (IF inDigits THEN {} ELSE {<<c>>}), TRUE)
  <1>0. PICK E \in Nat : E = EnumerateTo /\ E > 0
    BY LengthsBounded
  <1> DEFINE U == Longer(T, c) \cup (IF inDigits THEN {} ELSE {<<c>>})
             r == TakeDigit(s, c)
  <1>1. s \in Runs /\ T \subseteq Seq(Digits)
    BY DEF RunTyped, Follows
  <1>2. /\ s.group \in Seq(Digits) /\ s.kept \in Seq(Digits) /\ s.base \in Nat
        /\ s.total \in Nat /\ s.starts \subseteq Nat /\ s.base + Len(s.kept) = s.total
        /\ Len(s.group) \in Nat /\ Len(s.group) <= E
    BY <1>0, <1>1 DEF Runs, RunTyped
  <1>3. /\ U \subseteq Seq(Digits) /\ (inDigits => U = Longer(T, c))
        /\ (~inDigits => U = Longer(T, c) \cup {<<c>>})
        /\ U \subseteq Longer(T, c) \cup {<<c>>}
    BY <1>1, LongerFacts
  <1>4. ASSUME inDigits, \A t \in T : Len(t) >= E PROVE \A u \in U : Len(u) > E
    <2>1. ASSUME NEW u \in Longer(T, c) PROVE Len(u) > E
      <3>1. PICK t \in T : Len(t) \in Nat /\ u = Append(t, c) /\ Len(u) = Len(t) + 1
        BY <1>1, LongerOf
      <3>2. Len(t) >= E
        BY <1>4
      <3> QED BY <3>1, <3>2
    <2> QED BY <1>3, <1>4, <2>1
  <1>5. CASE s.oversized
    <2>1. r = s /\ inDigits
      BY <1>5 DEF TakeDigit, Follows
    <2>2. \A t \in T : Len(t) >= E
      <3>1. ASSUME NEW t \in T PROVE Len(t) >= E
        <4>1. Len(t) > E /\ Len(t) \in Nat
          BY <1>0, <1>1, <1>5, LongerFacts DEF Follows
        <4> QED BY <4>1
      <3> QED BY <3>1
    <2>3. \A u \in U : Len(u) > E
      BY <1>4, <2>1, <2>2
    <2>4. s.inRun
      BY <1>5 DEF Follows, NoRun
    <2> HIDE DEF U
    <2>5. Follows(s, U, TRUE)
      BY <1>0, <1>3, <1>5, <2>3, <2>4 DEF Follows
    <2> QED BY <2>1, <2>5 DEF U
  <1>6. CASE ~s.oversized /\ Len(s.group) >= E
    <2>1. s.group # <<>> /\ Len(s.group) = E
      BY <1>0, <1>2, <1>6
    <2>2. inDigits
      BY <2>1 DEF Follows
    <2>3. \A t \in T : Len(t) >= E
      BY <1>6, <2>1 DEF Follows
    <2>4. \A u \in U : Len(u) > E
      BY <1>4, <2>2, <2>3
    <2>5. r = [s EXCEPT !.group = <<>>, !.oversized = TRUE, !.inRun = TRUE]
      BY <1>0, <1>6 DEF TakeDigit
    <2> HIDE DEF r, U
    <2>6. /\ r \in Runs /\ r.group = <<>> /\ r.oversized = TRUE /\ r.kept = s.kept
          /\ r.base = s.base /\ r.total = s.total /\ r.starts = s.starts /\ r.inRun = TRUE
      <3>1. <<>> \in Seq(Digits)
        OBVIOUS
      <3> QED BY <1>1, <2>5, <3>1 DEF Runs
    <2>7. RunTyped(r)
      <3>1. Len(r.group) = 0
        BY <2>6
      <3> QED BY <1>0, <2>6, <3>1 DEF RunTyped
    <2>8. Follows(r, U, TRUE)
      BY <1>0, <1>3, <2>4, <2>6 DEF Follows
    <2> QED BY <2>7, <2>8 DEF r, U
  <1>7. CASE ~s.oversized /\ Len(s.group) < E
    <2>1. r = [s EXCEPT !.group = Append(s.group, c), !.inRun = TRUE]
      <3>1. ~(Len(s.group) >= E)
        BY <1>2, <1>7
      <3> QED BY <1>0, <1>7, <3>1 DEF TakeDigit
    <2> HIDE DEF r
    <2> DEFINE group == Append(s.group, c)
               full == s.kept \o s.group
               end == s.total + Len(s.group)
    <2>2. group \in Seq(Digits) /\ Len(group) = Len(s.group) + 1 /\ group # <<>>
      BY <1>2, AppendJoined
    <2>3. full \in Seq(Digits) /\ s.kept \o group = Append(full, c)
      <3>1. PICK k \in Seq(Digits), g \in Seq(Digits) : k = s.kept /\ g = s.group
        BY <1>2
      <3>2. k \o g \in Seq(Digits) /\ k \o Append(g, c) = Append(k \o g, c)
        BY AppendJoined
      <3> QED BY <3>1, <3>2, Zenon
    <2> HIDE DEF group
    <2>4. /\ r \in Runs /\ r.group = group /\ r.oversized = FALSE /\ r.kept = s.kept
          /\ r.base = s.base /\ r.total = s.total /\ r.starts = s.starts /\ r.inRun = TRUE
      <3>1. r = [s EXCEPT !.group = group, !.inRun = TRUE] /\ s.oversized = FALSE
        BY <1>1, <1>7, <2>1 DEF group, Runs
      <3> QED BY <1>1, <2>2, <3>1 DEF Runs
    <2>5. RunTyped(r)
      <3>1. Len(r.group) <= E
        BY <1>2, <1>7, <2>2, <2>4
      <3> QED BY <1>0, <2>4, <3>1 DEF RunTyped
    <2>6. /\ inDigits <=> s.group # <<>>
          /\ \A t \in T : Len(t) >= Len(s.group)
          /\ Suffixes(full, T, E) /\ Reached(end, GroupStarts(s), T, E)
      BY <1>0, <1>7 DEF Follows
    <2>7. Suffixes(r.kept \o r.group, U, E)
      <3>1. Suffixes(Append(full, c), Longer(T, c) \cup {<<c>>}, E)
        BY <1>1, <2>3, <2>6, SuffixesLonger
      <3>2. Suffixes(Append(full, c), U, E)
        BY <1>3, <3>1 DEF Suffixes
      <3> QED BY <2>3, <2>4, <3>2
    <2>8. end \in Nat /\ (\A a \in GroupStarts(s) : a \in Nat /\ a <= end)
          /\ (~inDigits => end = s.total /\ end \notin GroupStarts(s))
      <3>1. \A a \in s.starts : a \in Nat /\ a < s.total
        BY <1>2 DEF RunTyped
      <3>2. s.group = <<>> => Len(s.group) = 0
        OBVIOUS
      <3>3. PICK e \in Nat, g \in Nat : e = s.total /\ g = Len(s.group)
        BY <1>2
      <3>4. end \in Nat /\ e <= end /\ (s.group = <<>> => end = e)
        BY <3>2, <3>3
      <3>5. ASSUME NEW a \in s.starts PROVE a \in Nat /\ a <= end /\ a # e
        <4>1. a \in Nat /\ a < e
          BY <3>1, <3>3
        <4> HIDE DEF end
        <4> QED BY <3>3, <3>4, <4>1
      <3> HIDE DEF end
      <3>6. \A a \in GroupStarts(s) : a \in Nat /\ a <= end
        BY <3>3, <3>4, <3>5 DEF GroupStarts
      <3>7. ~inDigits => end = s.total /\ end \notin GroupStarts(s)
        BY <2>6, <3>3, <3>4, <3>5 DEF GroupStarts
      <3> QED BY <3>4, <3>6, <3>7
    <2>9. Reached(r.total + Len(r.group), GroupStarts(r), U, E)
      <3>1. PICK e, b : e = end /\ b = GroupStarts(s)
        OBVIOUS
      <3>2. /\ Reached(e + 1, b, Longer(T, c), E)
            /\ e \notin b => Reached(e + 1, b \cup {e}, Longer(T, c) \cup {<<c>>}, E)
        <4>1. e \in Nat /\ Reached(e, b, T, E) /\ \A a \in b : a \in Nat /\ a <= e
          BY <2>6, <2>8, <3>1
        <4> QED BY <1>1, <4>1, ReachedLonger
      <3>3. r.total + Len(r.group) = e + 1
        <4>1. PICK x \in Nat, g \in Nat : x = s.total /\ g = Len(s.group)
          BY <1>2
        <4>2. e = x + g /\ r.total = x /\ Len(r.group) = g + 1
          BY <2>2, <2>4, <3>1, <4>1
        <4>3. x + (g + 1) = (x + g) + 1
          OBVIOUS
        <4> QED BY <4>2, <4>3
      <3>4. inDigits => GroupStarts(r) = b /\ U = Longer(T, c)
        BY <1>3, <2>2, <2>4, <2>6, <3>1 DEF GroupStarts
      <3>5. ~inDigits => e \notin b /\ GroupStarts(r) = b \cup {e} /\ U = Longer(T, c) \cup {<<c>>}
        BY <1>3, <2>2, <2>4, <2>6, <2>8, <3>1 DEF GroupStarts
      <3> HIDE DEF U
      <3> QED BY <3>2, <3>3, <3>4, <3>5
    <2>10. \A u \in U : Len(u) >= Len(r.group)
      <3>1. PICK g \in Nat : g = Len(s.group) /\ Len(r.group) = g + 1
        BY <1>2, <2>2, <2>4
      <3>2. ASSUME NEW u \in Longer(T, c) PROVE Len(u) >= g + 1
        <4>1. PICK t \in T : Len(t) \in Nat /\ u = Append(t, c) /\ Len(u) = Len(t) + 1
          BY <1>1, LongerOf
        <4>2. Len(t) >= g
          BY <2>6, <3>1
        <4> QED BY <4>1, <4>2
      <3>3. ~inDigits => Len(<<c>>) >= g + 1
        <4>1. ~inDigits => g = 0
          BY <2>6, <3>1
        <4> QED BY <4>1
      <3> QED BY <1>3, <3>1, <3>2, <3>3
    <2> HIDE DEF U
    <2>11. Follows(r, U, TRUE)
      BY <1>0, <1>3, <2>2, <2>4, <2>7, <2>9, <2>10 DEF Follows
    <2> QED BY <2>5, <2>11 DEF r, U
  <1>8. Len(s.group) >= E \/ Len(s.group) < E
    BY <1>2
  <1> HIDE DEF r, U
  <1> QED BY <1>5, <1>6, <1>7, <1>8, Zenon

-----------------------------------------------------------------------------
(* The pass over a text                                                    *)

\* Before a check character the pass looks for the one tail a card can have.
LEMMA CardOk ==
    ASSUME IndexTyped, NEW s, NEW T, RunTyped(s), Follows(s, T, FALSE)
    PROVE  /\ Denied({<<"ID_CARD", v>> : v \in TrailingX(s)}) = DeniedCards(T)
           /\ s.starts = {} => DeniedCards(T) = {}
  <1>0. PICK E \in Nat : E = EnumerateTo
    BY LengthsBounded
  <1>1. PICK d \in Nat : d = CardDigits
    BY ScanAssumption
  <1>2. /\ s \in Runs /\ T \subseteq Seq(Digits) /\ s.group = <<>> /\ s.oversized = FALSE
        /\ s.kept \in Seq(Digits) /\ s.base \in Nat /\ s.total \in Nat
        /\ s.starts \subseteq Nat /\ s.base + Len(s.kept) = s.total /\ Len(s.kept) \in Nat
    BY DEF RunTyped, Follows, Runs
  <1>3. /\ \A a \in s.starts : s.total - a <= E
        /\ Reached(s.total, s.starts, T, E) /\ Suffixes(s.kept, T, E)
    <2>1. s.kept \o s.group = s.kept
      BY <1>2
    <2>2. s.total + Len(s.group) = s.total
      <3>1. Len(s.group) = 0
        BY <1>2
      <3> QED BY <1>2, <3>1
    <2>3. GroupStarts(s) = s.starts
      BY <1>2 DEF GroupStarts
    <2>4. \A a \in s.starts : s.total - a <= E
      BY <1>0 DEF RunTyped
    <2>5. /\ Suffixes(s.kept \o s.group, T, E)
          /\ Reached(s.total + Len(s.group), GroupStarts(s), T, E)
      BY <1>0, <1>2 DEF Follows
    <2> QED BY <2>1, <2>2, <2>3, <2>4, <2>5
  <1>4. ASSUME NEW m \in DeniedCards(T)
        PROVE  d + 1 <= E /\ \E t \in T : Len(t) = d /\ m = <<"ID_CARD", Append(t, "X")>>
    <2>1. PICK t \in T : /\ m = <<"ID_CARD", Append(t, "X")>>
                         /\ IsDenied("ID_CARD", Append(t, "X"))
                         /\ Indexable("ID_CARD", Append(t, "X"))
      <3>1. /\ m \in {<<"ID_CARD", Append(t, "X")>> : t \in T}
            /\ IsDenied(m[1], m[2]) /\ Indexable(m[1], m[2])
        BY DEF DeniedCards, Denied
      <3>2. PICK t \in T : m = <<"ID_CARD", Append(t, "X")>>
        BY <3>1
      <3>3. m[1] = "ID_CARD" /\ m[2] = Append(t, "X")
        BY <3>2
      <3> QED BY <3>1, <3>2, <3>3, Zenon
    <2>2. Len(t) = CardDigits /\ CardDigits + 1 \in WindowLengths
      BY <1>2, <2>1, DeniedCard
    <2>3. CardDigits + 1 <= EnumerateTo
      BY <2>2, LengthsBounded
    <2> QED BY <1>0, <1>1, <2>1, <2>2, <2>3
  <1>5. CASE \E a \in s.starts : s.total - a = d
    <2>1. d <= E /\ s.total - d \in s.starts
      <3>1. PICK a \in s.starts : s.total - a = d
        BY <1>5
      <3>2. PICK e \in Nat, x \in Nat : e = s.total /\ x = a
        BY <1>2
      <3>3. e - x = d
        BY <3>1, <3>2
      <3>4. e - d = x
        BY <3>3
      <3>5. d <= E
        BY <1>3, <3>1
      <3> QED BY <3>2, <3>4, <3>5
    <2>2. d \in 0..E
      BY <2>1
    <2>3. PICK t \in T : Len(t) = d
      BY <1>3, <2>1, <2>2 DEF Reached
    <2>4. ASSUME NEW u \in T, Len(u) = d PROVE u = t /\ u = Suffix(s.kept, d)
      BY <1>3, <2>1, <2>3, <2>4 DEF Suffixes
    <2>5. SubSeq(s.kept, s.total - d - s.base + 1, Len(s.kept)) = t
      <3>1. PICK b \in Nat, e \in Nat, l \in Nat : b = s.base /\ e = s.total /\ l = Len(s.kept)
        BY <1>2
      <3>2. b + l = e
        BY <1>2, <3>1
      <3>3. e - d - b + 1 = l - d + 1
        BY <3>2
      <3>4. t = Suffix(s.kept, d)
        BY <2>3, <2>4
      <3> QED BY <3>1, <3>3, <3>4 DEF Suffix
    <2>6. t \o <<"X">> = Append(t, "X")
      BY <1>2, <2>3, SymbolsFacts, AppendIsConcat
    <2>7. TrailingX(s) = {Append(t, "X")}
      <3>1. TrailingX(s) = {SubSeq(s.kept, s.total - d - s.base + 1, Len(s.kept)) \o <<"X">>}
        BY <1>1, <1>5, Zenon DEF TrailingX
      <3> QED BY <2>5, <2>6, <3>1, Zenon
    <2>8. \A m \in DeniedCards(T) : m = <<"ID_CARD", Append(t, "X")>>
      BY <1>4, <2>4
    <2>9. Denied({<<"ID_CARD", v>> : v \in TrailingX(s)}) = DeniedCards(T)
      BY <2>3, <2>7, <2>8 DEF DeniedCards, Denied
    <2> QED BY <1>5, <2>9
  <1>6. CASE ~\E a \in s.starts : s.total - a = d
    <2>1. TrailingX(s) = {}
      BY <1>1, <1>6 DEF TrailingX
    <2>2. DeniedCards(T) = {}
      <3>1. ASSUME NEW m \in DeniedCards(T) PROVE FALSE
        <4>1. d \in 0..E /\ \E t \in T : Len(t) = d
          BY <1>4
        <4>2. s.total - d \in s.starts
          BY <1>3, <4>1 DEF Reached
        <4>3. s.total - (s.total - d) = d
          BY <1>2
        <4> QED BY <1>6, <4>2, <4>3
      <3> QED BY <3>1
    <2>3. Denied({<<"ID_CARD", v>> : v \in TrailingX(s)}) = {}
      BY <2>1 DEF Denied
    <2> QED BY <2>2, <2>3
  <1> QED BY <1>5, <1>6

\* What the pass has found: the numbers that ended, and the cards.
FoundIn(q) == DeniedAmong(Ended(q)) \cup Denied({<<"ID_CARD", card>> : card \in CardsIn(q)})

Scanned(q, run, found) ==
    /\ RunTyped(run) /\ Follows(run, Tails(q), InDigits(q))
    /\ found = FoundIn(q)

LEMMA NoRunOk ==
    ASSUME IndexTyped
    PROVE  RunTyped(NoRun) /\ Follows(NoRun, {}, FALSE)
  <1>1. PICK E \in Nat : E = EnumerateTo /\ E + Slack \in Nat
    BY LengthsBounded, ScanAssumption
  <1>2. /\ NoRun.group = <<>> /\ NoRun.oversized = FALSE /\ NoRun.kept = <<>>
        /\ NoRun.base = 0 /\ NoRun.total = 0 /\ NoRun.starts = {} /\ NoRun.inRun = FALSE
    BY DEF NoRun
  <1>3. NoRun \in Runs
    <2>1. <<>> \in Seq(Digits)
      OBVIOUS
    <2> QED BY <2>1 DEF NoRun, Runs
  <1>4. Len(<<>>) = 0
    OBVIOUS
  <1>5. RunTyped(NoRun)
    BY <1>1, <1>2, <1>3, <1>4 DEF RunTyped
  <1>6. GroupStarts(NoRun) = {}
    BY <1>2 DEF GroupStarts
  <1>7. /\ Suffixes(NoRun.kept \o NoRun.group, {}, EnumerateTo)
        /\ Reached(NoRun.total + Len(NoRun.group), GroupStarts(NoRun), {}, EnumerateTo)
    BY <1>6 DEF Suffixes, Reached
  <1> QED BY <1>2, <1>5, <1>7 DEF Follows

LEMMA ScannedNothing ==
    ASSUME IndexTyped
    PROVE  Scanned(<<>>, NoRun, {})
  <1>1. Len(<<>>) = 0 /\ 1..0 = {}
    OBVIOUS
  <1>2. Alignments(<<>>) = {}
    BY <1>1 DEF Alignments
  <1>3. Tails(<<>>) = {} /\ ~InDigits(<<>>) /\ Ended(<<>>) = {} /\ CardsIn(<<>>) = {}
    BY <1>1, <1>2 DEF Tails, InDigits, Ended, CardsIn
  <1>4. FoundIn(<<>>) = {}
    BY <1>3, AmongNone DEF FoundIn, Denied
  <1>5. InDigits(<<>>) = FALSE
    BY <1>3 DEF InDigits
  <1> QED BY <1>3, <1>4, <1>5, NoRunOk DEF Scanned

\* The new cards after a check character.
LEMMA CardsFound ==
    ASSUME NEW q \in Seq(Symbols), NEW c \in Symbols
    PROVE  Denied({<<"ID_CARD", k>> : k \in CardsIn(Append(q, c))}) =
             Denied({<<"ID_CARD", k>> : k \in CardsIn(q)})
               \cup (IF c = "X" THEN DeniedCards(Tails(q)) ELSE {})
  <1>1. CardsIn(Append(q, c)) =
            CardsIn(q) \cup (IF c = "X" THEN {Append(t, "X") : t \in Tails(q)} ELSE {})
    BY CardsAppend
  <1>2. {<<"ID_CARD", k>> : k \in CardsIn(Append(q, c))} =
            {<<"ID_CARD", k>> : k \in CardsIn(q)}
               \cup (IF c = "X" THEN {<<"ID_CARD", Append(t, "X")>> : t \in Tails(q)} ELSE {})
    BY <1>1
  <1>3. Denied({}) = {}
    BY DEF Denied
  <1> QED BY <1>2, <1>3, DeniedUnion DEF DeniedCards

LEMMA FoundAppend ==
    ASSUME NEW q \in Seq(Symbols), NEW c \in Symbols
    PROVE  FoundIn(Append(q, c)) =
             FoundIn(q) \cup (IF c \in Digits THEN {} ELSE DeniedAmong(Open(q)))
                        \cup (IF c = "X" THEN DeniedCards(Tails(q)) ELSE {})
  <1>1. Ended(Append(q, c)) = IF c \in Digits THEN Ended(q) ELSE Ended(q) \cup Open(q)
    BY EndedAppend, NumbersSplit
  <1>2. DeniedAmong(Ended(Append(q, c))) =
            DeniedAmong(Ended(q)) \cup (IF c \in Digits THEN {} ELSE DeniedAmong(Open(q)))
    BY <1>1, AmongUnion
  <1> QED BY <1>2, CardsFound DEF FoundIn

\* One character more.
LEMMA ScannedStep ==
    ASSUME IndexTyped, EnumerateTo > 0, NEW q \in Seq(Symbols), NEW c \in Symbols, NEW s,
           Scanned(q, s.run, s.found)
    PROVE  Scanned(Append(q, c), Step(s, c).run, Step(s, c).found)
  <1>1. PICK r, T, d : r = s.run /\ T = Tails(q) /\ d = InDigits(q) /\ d \in BOOLEAN
    BY DEF InDigits
  <1>2. RunTyped(r) /\ Follows(r, T, d) /\ d \in BOOLEAN /\ s.found = FoundIn(q)
    BY <1>1 DEF Scanned
  <1>3. PICK z, f : z = CloseGroup(r).state /\ f = CloseGroup(r).found
    OBVIOUS
  <1>4. /\ RunTyped(z) /\ Follows(z, T, FALSE)
        /\ z.group = <<>> /\ ~z.oversized /\ z.inRun = r.inRun
        /\ f = DeniedAmong(IF d THEN T ELSE {})
    BY <1>2, <1>3, CloseOk
  <1>5. f = DeniedAmong(Open(q))
    BY <1>1, <1>4 DEF Open
  <1>6. EnumerateTo # 0
    BY LengthsBounded
  <1>7. CASE c \in Digits
    <2>1. Step(s, c) = [s EXCEPT !.run = TakeDigit(s.run, c)]
      BY <1>6, <1>7, SymbolsFacts, Zenon DEF Step
    <2>2. Step(s, c).run = TakeDigit(r, c) /\ Step(s, c).found = s.found
      BY <1>1, <2>1
    <2>3. /\ Tails(Append(q, c)) = Longer(T, c) \cup (IF d THEN {} ELSE {<<c>>})
          /\ InDigits(Append(q, c))
      BY <1>1, <1>7, TailsDigit DEF Longer
    <2>4. /\ RunTyped(TakeDigit(r, c))
          /\ Follows(TakeDigit(r, c), Longer(T, c) \cup (IF d THEN {} ELSE {<<c>>}), TRUE)
      BY <1>2, <1>7, DigitOk
    <2>5. InDigits(Append(q, c)) = TRUE
      BY <2>3 DEF InDigits
    <2>6. FoundIn(Append(q, c)) = s.found
      BY <1>2, <1>7, FoundAppend, SymbolsFacts
    <2> QED BY <2>2, <2>3, <2>4, <2>5, <2>6 DEF Scanned
  <1>8. CASE c \notin Digits
    <2>1. /\ Tails(Append(q, c)) = IF c = "sep" THEN T ELSE {}
          /\ InDigits(Append(q, c)) = FALSE
      <3>1. ~InDigits(Append(q, c))
        BY <1>8, TailsOther
      <3>2. InDigits(Append(q, c)) = FALSE
        BY <3>1 DEF InDigits
      <3> QED BY <1>1, <1>8, <3>2, TailsOther
    <2>2. FoundIn(Append(q, c)) =
              s.found \cup f \cup (IF c = "X" THEN DeniedCards(T) ELSE {})
      BY <1>1, <1>2, <1>5, <1>8, FoundAppend
    <2>3. CASE ~r.inRun
      <3>1. Step(s, c) = s
        BY <1>1, <1>6, <1>8, <2>3 DEF Step
      <3>2. r = NoRun /\ T = {} /\ ~d
        BY <1>2, <2>3 DEF Follows
      <3>3. f = {} /\ DeniedCards(T) = {}
        BY <1>4, <3>2, AmongNone
      <3>4. FoundIn(Append(q, c)) = s.found
        BY <2>2, <3>3
      <3>5. Tails(Append(q, c)) = {}
        BY <2>1, <3>2
      <3>6. Follows(r, {}, FALSE)
        BY <3>2, NoRunOk
      <3> QED BY <1>1, <1>2, <2>1, <3>1, <3>4, <3>5, <3>6 DEF Scanned
    <2>4. CASE r.inRun /\ c = "sep"
      <3>1. Step(s, c) = [run |-> z, found |-> s.found \cup f]
        BY <1>1, <1>3, <1>6, <1>8, <2>4 DEF Step
      <3>2. Tails(Append(q, c)) = T
        BY <2>1, <2>4
      <3>3. FoundIn(Append(q, c)) = s.found \cup f
        BY <2>2, <2>4
      <3>4. Step(s, c).run = z /\ Step(s, c).found = s.found \cup f
        BY <3>1
      <3> QED BY <1>4, <2>1, <3>2, <3>3, <3>4 DEF Scanned
    <2>5. CASE r.inRun /\ c = "other"
      <3>1. Step(s, c) = [run |-> NoRun, found |-> s.found \cup f]
        BY <1>1, <1>3, <1>6, <1>8, <2>5 DEF Step
      <3>2. Tails(Append(q, c)) = {}
        BY <2>1, <2>5
      <3>3. FoundIn(Append(q, c)) = s.found \cup f
        BY <2>2, <2>5
      <3>4. Step(s, c).run = NoRun /\ Step(s, c).found = s.found \cup f
        BY <3>1
      <3> QED BY <2>1, <3>2, <3>3, <3>4, NoRunOk DEF Scanned
    <2>6. CASE r.inRun /\ c = "X"
      <3> DEFINE card == Denied({<<"ID_CARD", v>> : v \in TrailingX(z)})
                 all == IF r.group # <<>> \/ r.starts # {}
                        THEN s.found \cup f \cup card ELSE s.found \cup f
      <3>1. Step(s, c) = [run |-> NoRun, found |-> all]
        BY <1>1, <1>3, <1>6, <1>8, <2>6 DEF Step
      <3>2. Tails(Append(q, c)) = {}
        BY <2>1, <2>6
      <3>3. FoundIn(Append(q, c)) = s.found \cup f \cup DeniedCards(T)
        BY <2>2, <2>6
      <3>4. card = DeniedCards(T) /\ (z.starts = {} => DeniedCards(T) = {})
        BY <1>4, CardOk
      <3>5. r.group = <<>> /\ r.starts = {} => z.starts = {}
        BY <1>3 DEF CloseGroup, Severed
      <3>6. all = s.found \cup f \cup DeniedCards(T)
        BY <3>4, <3>5
      <3> HIDE DEF all
      <3>7. Step(s, c).run = NoRun /\ Step(s, c).found = all
        BY <3>1
      <3> QED BY <2>1, <3>2, <3>3, <3>6, <3>7, NoRunOk DEF Scanned
    <2> QED BY <1>8, <2>3, <2>4, <2>5, <2>6, SymbolsFacts
  <1> QED BY <1>7, <1>8

\* The inductive invariant: the pass stands where a reading of the whole text
\* from the definitions of GroupAligned and FollowedByX would stand.
ScanInv ==
    /\ text \in Seq(Symbols) /\ IndexTyped
    /\ Scanned(text, scan.run, scan.found)

LEMMA SameIndex ==
    ASSUME denyIndex' = denyIndex
    PROVE  /\ EnumerateTo' = EnumerateTo /\ (IndexTyped => IndexTyped')
           /\ \A q, run, found : Scanned(q, run, found) => Scanned(q, run, found)'
  <1>1. EnumerateTo' = EnumerateTo
    BY DEF EnumerateTo, WindowLengths, Indexable
  <1>2. ASSUME NEW q, NEW run, NEW found, Scanned(q, run, found)
        PROVE  Scanned(q, run, found)'
    <2>1. FoundIn(q)' = FoundIn(q)
      BY DEF FoundIn, DeniedAmong, Denied, IsDenied, Indexable
    <2>2. RunTyped(run)' 
      BY <1>1, <1>2 DEF Scanned, RunTyped
    <2>3. Follows(run, Tails(q), InDigits(q))'
      BY <1>1, <1>2 DEF Scanned, Follows
    <2> QED BY <1>2, <2>1, <2>2, <2>3 DEF Scanned
  <1> QED BY <1>1, <1>2 DEF IndexTyped

LEMMA ScanInvInd == ScanSpec => []ScanInv
  <1>1. ScanInit => ScanInv
    <2> SUFFICES ASSUME ScanInit PROVE ScanInv
      OBVIOUS
    <2>1. text = <<>> /\ scan.run = NoRun /\ scan.found = {}
      BY DEF ScanInit, NothingRead
    <2>2. IndexTyped
      BY ScanAssumption DEF ScanInit, IndexTyped
    <2> QED BY <2>1, <2>2, ScannedNothing DEF ScanInv
  <1>2. ScanInv /\ [ScanNext]_scanVars => ScanInv'
    <2> SUFFICES ASSUME ScanInv, [ScanNext]_scanVars PROVE ScanInv'
      OBVIOUS
    <2>1. ASSUME NEW c \in Symbols, Read(c) PROVE ScanInv'
      <3>1. PICK q, r, f : q = Append(text, c) /\ r = Step(scan, c).run /\ f = Step(scan, c).found
        OBVIOUS
      <3>2. q \in Seq(Symbols) /\ Scanned(q, r, f)
        <4>1. PICK p, s : p = text /\ s = scan
          OBVIOUS
        <4>2. p \in Seq(Symbols) /\ Scanned(p, s.run, s.found) /\ IndexTyped /\ EnumerateTo > 0
          BY <2>1, <4>1 DEF ScanInv, Read
        <4>3. Scanned(Append(p, c), Step(s, c).run, Step(s, c).found)
          BY <4>2, ScannedStep
        <4> QED BY <3>1, <4>1, <4>2, <4>3, AppendFacts
      <3>3. denyIndex' = denyIndex /\ text' = q /\ scan'.run = r /\ scan'.found = f
        BY <2>1, <3>1 DEF Read
      <3>4. IndexTyped' /\ Scanned(q, r, f)'
        BY <3>2, <3>3, SameIndex DEF ScanInv
      <3> QED BY <3>2, <3>3, <3>4 DEF ScanInv
    <2>2. CASE UNCHANGED scanVars
      <3>1. PICK q, r, f : q = text /\ r = scan.run /\ f = scan.found
        OBVIOUS
      <3>2. denyIndex' = denyIndex /\ text' = q /\ scan'.run = r /\ scan'.found = f
        BY <2>2, <3>1 DEF scanVars
      <3>3. IndexTyped' /\ Scanned(q, r, f)'
        BY <3>1, <3>2, SameIndex DEF ScanInv
      <3> QED BY <3>1, <3>2, <3>3 DEF ScanInv
    <2> QED BY <2>1, <2>2 DEF ScanNext
  <1> QED BY <1>1, <1>2, PTL DEF ScanSpec

\* For every text, denylist and length of the windows, scanDigitRuns reports
\* exactly the denied numbers that stand in the text in some rendering, and
\* keeps no more of the text than the longest of them and the slack.
THEOREM ExactScan == ScanSpec => []ScanIsExact
  <1>1. ScanInv => ScanIsExact
    <2> SUFFICES ASSUME ScanInv PROVE ScanIsExact
      OBVIOUS
    <2>1. PICK q, r, T, d : /\ q = text /\ r = scan.run /\ T = Tails(q) /\ d = InDigits(q)
                            /\ d \in BOOLEAN
      BY DEF InDigits
    <2>2. /\ q \in Seq(Symbols) /\ IndexTyped /\ RunTyped(r) /\ Follows(r, T, d)
          /\ d \in BOOLEAN /\ scan.found = FoundIn(q)
      BY <2>1 DEF ScanInv, Scanned
    <2>3. CloseGroup(r).found = DeniedAmong(Open(q))
      <3>1. CloseGroup(r).found = DeniedAmong(IF d THEN T ELSE {})
        BY <2>2, CloseOk
      <3> QED BY <2>1, <3>1 DEF Open
    <2>4. Found = DeniedAmong(NumbersIn(q))
                    \cup Denied({<<"ID_CARD", card>> : card \in CardsIn(q)})
      <3>1. DeniedAmong(NumbersIn(q)) = DeniedAmong(Ended(q)) \cup DeniedAmong(Open(q))
        BY <2>2, NumbersSplit, AmongUnion
      <3> QED BY <2>1, <2>2, <2>3, <3>1 DEF Found, FoundIn
    <2>5. Found = Denied(Rendered)
      <3>1. \A m : m \in Rendered <=> \/ \E w \in NumbersIn(q) : m \in Matches(w)
                                     \/ \E card \in CardsIn(q) : m = <<"ID_CARD", card>>
        BY <2>1 DEF Rendered, Matches
      <3>2. \A m : m \in Found <=>
                     /\ \/ \E w \in NumbersIn(q) : m \in Matches(w)
                        \/ \E card \in CardsIn(q) : m = <<"ID_CARD", card>>
                     /\ IsDenied(m[1], m[2]) /\ Indexable(m[1], m[2])
        BY <2>4 DEF DeniedAmong, Denied
      <3>3. \A m : m \in Found <=> m \in Denied(Rendered)
        BY <3>1, <3>2 DEF Denied
      <3>4. Found \subseteq Denied(Rendered) /\ Denied(Rendered) \subseteq Found
        BY <3>3, Zenon
      <3> QED BY <3>4, Zenon
    <2>6. BoundedMemory
      <3>1. PICK E \in Nat, e \in Nat : E = EnumerateTo /\ e = r.total
        BY <2>2, LengthsBounded DEF RunTyped, Runs
      <3>2. r.starts \subseteq (e - E)..(e - 1)
        <4>1. ASSUME NEW a \in r.starts PROVE a \in (e - E)..(e - 1)
          <5>1. a \in Nat
            BY <2>2 DEF RunTyped, Runs
          <5>2. a < e /\ e - a <= E
            BY <2>2, <3>1 DEF RunTyped
          <5> QED BY <5>1, <5>2
        <4> QED BY <4>1
      <3>3. IsFiniteSet((e - E)..(e - 1)) /\ Cardinality((e - E)..(e - 1)) = E
        <4>1. PICK a \in Int, b \in Int : a = e - E /\ b = e - 1
          OBVIOUS
        <4>2. IsFiniteSet(a..b) /\ Cardinality(a..b) = IF a > b THEN 0 ELSE b - a + 1
          BY FS_Interval
        <4>3. (IF a > b THEN 0 ELSE b - a + 1) = E
          BY <4>1
        <4> QED BY <4>1, <4>2, <4>3
      <3>4. Cardinality(r.starts) <= E
        BY <3>2, <3>3, FS_Subset
      <3> QED BY <2>1, <2>2, <3>1, <3>4 DEF BoundedMemory, RunTyped
    <2> QED BY <2>5, <2>6 DEF ScanIsExact, NoRenderingEscapes, NoFalseAlarm
  <1> QED BY <1>1, ScanInvInd, PTL
=============================================================================
