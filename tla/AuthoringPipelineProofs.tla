----------------------- MODULE AuthoringPipelineProofs -----------------------
(***************************************************************************)
(* AuthoringSession implements AuthoringPipeline: the session with all its *)
(* messages, callers, retries and restarts does only what the pipeline     *)
(* promises.  The step simulation rests on the inductive invariant.        *)
(***************************************************************************)
EXTENDS AuthoringSessionProofs

Entry == [id : Nat, status : ApplyStatus]
Distinct(log) == \A i, j \in DOMAIN log : i # j => log[i].id # log[j].id

-----------------------------------------------------------------------------
(* A log of distinct ids as a function                                     *)

(* The ids of the function are those of the log.                           *)
LEMMA StatusOfDomain ==
    ASSUME NEW log
    PROVE  DOMAIN StatusOf(log) = {log[i].id : i \in DOMAIN log}
BY DEF StatusOf

(* The function gives each id the status of its only entry.                *)
LEMMA StatusOfEntry ==
    ASSUME NEW log, Distinct(log), NEW i \in DOMAIN log
    PROVE  StatusOf(log)[log[i].id] = log[i].status
<1> DEFINE Entries == {log[j] : j \in DOMAIN log}
           e == CHOOSE x \in Entries : x.id = log[i].id
<1>1. e \in Entries /\ e.id = log[i].id
  <2>1. log[i] \in Entries
    OBVIOUS
  <2> QED
    BY <2>1
<1>2. e = log[i]
  BY <1>1 DEF Distinct
<1>3. StatusOf(log)[log[i].id] = e.status
  BY DEF StatusOf
<1> QED
  BY <1>2, <1>3

(* Appending an entry with a new id adds it to the function.               *)
LEMMA StatusOfAppend ==
    ASSUME NEW log \in Seq(Entry), NEW e \in Entry, Distinct(Append(log, e))
    PROVE  StatusOf(Append(log, e)) = Pipeline!With(StatusOf(log), e.id, e.status)
<1> DEFINE longer == Append(log, e)
           n == Len(log) + 1
<1>1. /\ DOMAIN longer = 1..n /\ DOMAIN log = 1..Len(log) /\ Len(log) \in Nat
      /\ longer[n] = e
      /\ \A i \in 1..Len(log) : longer[i] = log[i]
  OBVIOUS
<1>0. Distinct(longer)
  OBVIOUS
<1> HIDE DEF longer
<1>2. Distinct(log)
  BY <1>0, <1>1 DEF Distinct
<1>3. DOMAIN StatusOf(longer) = DOMAIN StatusOf(log) \cup {e.id}
  <2>1. DOMAIN StatusOf(longer) = {longer[i].id : i \in 1..n}
    BY <1>1, StatusOfDomain
  <2>2. DOMAIN StatusOf(log) = {log[i].id : i \in 1..Len(log)}
    BY <1>1, StatusOfDomain
  <2> QED
    BY <1>1, <2>1, <2>2
<1>4. StatusOf(longer)[e.id] = e.status
  <2>1. StatusOf(longer)[longer[n].id] = longer[n].status
    BY <1>0, <1>1, StatusOfEntry
  <2> QED
    BY <1>1, <2>1
<1>5. ASSUME NEW id \in DOMAIN StatusOf(log)
      PROVE  id # e.id /\ StatusOf(longer)[id] = StatusOf(log)[id]
  <2>1. PICK i \in DOMAIN log : id = log[i].id
    BY StatusOfDomain
  <2>2. StatusOf(log)[id] = log[i].status
    BY <1>2, <2>1, StatusOfEntry
  <2>3. StatusOf(longer)[longer[i].id] = longer[i].status
    BY <1>0, <1>1, StatusOfEntry
  <2>4. longer[i].id # longer[n].id
    BY <1>0, <1>1 DEF Distinct
  <2> QED
    BY <1>1, <2>1, <2>2, <2>3, <2>4
<1>6. StatusOf(longer) = [id \in DOMAIN StatusOf(longer) |-> StatusOf(longer)[id]]
  BY DEF StatusOf
<1>7. StatusOf(longer) = Pipeline!With(StatusOf(log), e.id, e.status)
  BY <1>3, <1>4, <1>5, <1>6 DEF Pipeline!With
<1> QED
  BY <1>7 DEF longer

-----------------------------------------------------------------------------
(* The steps                                                               *)

PipelineStep == [Pipeline!Next]_(Pipeline!vars)

(* Nothing is decided, recorded, unsaved or owed at the start.             *)
LEMMA InitRefines == Init => Pipeline!Init
<1> SUFFICES ASSUME Init PROVE Pipeline!Init
  OBVIOUS
<1>1. BatchOf(pending) = [id |-> 0, tables |-> {}]
  BY DEF Init, BatchOf, NoOperation
<1>2. StatusOf(<<>>) = [i \in {} |-> "rejected"]
  BY DEF StatusOf
<1> QED
  BY <1>1, <1>2 DEF Init, EditorInit, Pipeline!Init, Pipeline!NoBatch

(* A step that keeps the batches, the receipts, the lists and the pending  *)
(* request is a stutter of the pipeline.                                   *)
LEMMA Stutters ==
    ASSUME SamePending, UNCHANGED <<applied, applyReceipts, unsaved, awaitingSave>>
    PROVE  PipelineStep
<1>1. UNCHANGED BatchOf(pending)
  BY DEF SamePending, BatchOf
<1>2. UNCHANGED <<StatusOf(applied), StatusOf(applyReceipts)>>
  OBVIOUS
<1> QED
  BY <1>1, <1>2 DEF PipelineStep, Pipeline!vars

(* Drafting, talking to the editor, failing, and what others do without    *)
(* the session's tables getting to disk                                    *)
LEMMA QuietActionsStutter ==
    ASSUME TypeOK,
           \/ Edits
           \/ \E c \in Callers : PrepareSave(c) \/ RetrySave(c) \/ Reconcile(c)
           \/ \E c \in Callers : Send(c) \/ RefuseAnswer(c) \/ ConnectionFails(c) \/ MarkIndeterminate(c)
           \/ \E m \in wire : RefuseSave(m) \/ ExecuteLookup(m)
           \/ Faults
           \/ \E t \in Tables, v \in Values : OutsideEdit(t, v) \/ OutsideApply(t, v)
           \/ UNCHANGED vars
    PROVE  PipelineStep
<1> USE DEF document, draft, editorVars
<1>1. CASE Edits
  BY <1>1, Stutters DEF Edits, SetCell, Undo, Redo, SamePending
<1>2. ASSUME NEW c \in Callers, PrepareSave(c) PROVE PipelineStep
  <2>1. UNCHANGED BatchOf(pending)
    BY <1>2 DEF PrepareSave, Idle, BatchOf
  <2>2. UNCHANGED <<StatusOf(applied), StatusOf(applyReceipts), unsaved, awaitingSave>>
    BY <1>2 DEF PrepareSave
  <2> QED
    BY <2>1, <2>2 DEF PipelineStep, Pipeline!vars
<1>3. ASSUME NEW c \in Callers, RetrySave(c) \/ Reconcile(c) PROVE PipelineStep
  BY <1>3, Stutters DEF RetrySave, Reconcile, SamePending
<1>4. ASSUME NEW c \in Callers, Send(c) \/ RefuseAnswer(c) \/ ConnectionFails(c) PROVE PipelineStep
  BY <1>4, Stutters DEF Send, RefuseAnswer, ConnectionFails, SamePending
<1>5. ASSUME NEW c \in Callers, MarkIndeterminate(c) PROVE PipelineStep
  <2>1. SamePending
    BY <1>5, CallType DEF MarkIndeterminate, SamePending, TypeOK, NoOperation, PendingApply, PendingSave
  <2> QED
    BY <1>5, <2>1, Stutters DEF MarkIndeterminate
<1>6. ASSUME NEW m \in wire, RefuseSave(m) \/ ExecuteLookup(m) PROVE PipelineStep
  BY <1>6, Stutters DEF RefuseSave, ExecuteLookup, SamePending
<1>7. CASE Faults
  BY <1>7, Stutters DEF Faults, LoseRequest, GiveUp, MarkFails, ServiceRestart, SamePending
<1>8. ASSUME NEW t \in Tables, NEW v \in Values, OutsideEdit(t, v) \/ OutsideApply(t, v) PROVE PipelineStep
  BY <1>8, Stutters DEF OutsideEdit, PersonEdits, OutsideApply, OtherClientApplies, SamePending
<1>9. CASE UNCHANGED vars
  BY <1>9, Stutters DEF vars, SamePending
<1> QED
  BY <1>1, <1>2, <1>3, <1>4, <1>5, <1>6, <1>7, <1>8, <1>9

(* Preparing an Apply sends a batch under an id the editor has not seen.   *)
LEMMA PrepareApplyRefines ==
    ASSUME TypeOK, SessionInv, NEW c \in Callers, PrepareApply(c)
    PROVE  PipelineStep
<1> USE DEF document, draft, editorVars
<1> DEFINE batch == BatchOf(pending)
<1>1. batch = [id |-> 0, tables |-> {}]
  BY DEF PrepareApply, Idle, BatchOf
<1>2. nextId' = nextId + 1 /\ nextId \in Nat
  BY DEF PrepareApply, TypeOK
<1>3. TouchedTables \in SUBSET Tables
  BY PlanType
<1>4. batch' = [id |-> nextId', tables |-> TouchedTables]
  BY DEF PrepareApply, BatchOf, ApplyRequestFor, SnapshotOf
<1>5. DOMAIN StatusOf(applied) = {applied[i].id : i \in DOMAIN applied}
  BY StatusOfDomain
<1>6. nextId' \notin DOMAIN StatusOf(applied)
  BY <1>2, <1>5 DEF SessionInv, IdsAreGenerated
<1>7. UNCHANGED <<StatusOf(applied), StatusOf(applyReceipts), unsaved, awaitingSave>>
  BY DEF PrepareApply
<1>8. Pipeline!Prepare
  BY <1>1, <1>2, <1>3, <1>4, <1>6, <1>7 DEF Pipeline!Prepare, Pipeline!NoBatch
<1> QED
  BY <1>8 DEF PipelineStep, Pipeline!Next

(* The editor running a batch decides the batch that is pending, for the   *)
(* first time.                                                             *)
LEMMA ExecuteApplyRefines ==
    ASSUME TypeOK, SessionInv, NEW m \in wire, ExecuteApply(m)
    PROVE  PipelineStep
<1> USE DEF document, draft, editorVars
<1> DEFINE id == m.request.id
<1>1. m.kind = "apply" /\ m.request \in ApplyRequests
  BY MessageType DEF ExecuteApply, TypeOK
<1>2. IsUnrun(m.request) /\ id \notin DOMAIN results
  BY <1>1, ExecuteApplyIsFirst
<1>3. PICK o \in Outcomes(m.request) : EditorApply(m.request, o)
  BY DEF ExecuteApply
<1> DEFINE status == o.result.status
<1>4. o.result \in ApplyResults /\ status \in ApplyStatus /\ id \in Nat
  BY <1>1, OutcomeType DEF TypeOK, ApplyResults, ApplyRequests
<1>5. applied \in Seq(Entry)
  BY DEF TypeOK, EditorTypeOK, Entry
<1>6. /\ applied' = Append(applied, [id |-> id, status |-> status])
      /\ unsaved' = IF status = "committed" THEN unsaved \cup DOMAIN m.request.expected ELSE unsaved
  BY <1>2, <1>3 DEF EditorApply
<1>7. Distinct(applied')
  BY ExecuteApplyKeeps DEF SessionInv, AtMostOnce, Distinct
<1>8. StatusOf(applied)' = Pipeline!With(StatusOf(applied), id, status)
  <2>1. [id |-> id, status |-> status] \in Entry /\ Distinct(Append(applied, [id |-> id, status |-> status]))
    BY <1>4, <1>6, <1>7 DEF Entry
  <2>2. StatusOf(Append(applied, [id |-> id, status |-> status])) = Pipeline!With(StatusOf(applied), id, status)
    BY <1>5, <2>1, StatusOfAppend
  <2> QED
    BY <1>6, <2>2
<1>9. BatchOf(pending) = [id |-> id, tables |-> DOMAIN m.request.expected]
  BY <1>2 DEF IsUnrun, BatchOf
<1>10. id \in 1..nextId
  BY DEF SessionInv, IdsAreGenerated
<1>11. id \notin DOMAIN StatusOf(applied)
  <2>1. DOMAIN StatusOf(applied) = {applied[i].id : i \in DOMAIN applied}
    BY StatusOfDomain
  <2> QED
    BY <1>2, <2>1 DEF IsUnrun
<1>12. UNCHANGED <<BatchOf(pending), StatusOf(applyReceipts), awaitingSave>>
  BY DEF ExecuteApply
<1>13. Pipeline!Decide(status)
  BY <1>6, <1>8, <1>9, <1>10, <1>11, <1>12 DEF Pipeline!Decide, Pipeline!NoBatch, Pipeline!TablesOf, TypeOK
<1> QED
  BY <1>4, <1>13 DEF PipelineStep, Pipeline!Next, Pipeline!Decision, ApplyStatus

(* Recording the answer records the decision.                              *)
LEMMA CompleteApplyRefines ==
    ASSUME TypeOK, SessionInv, NEW c \in Callers, CompleteApply(c)
    PROVE  PipelineStep
<1> USE DEF document, draft, editorVars
<1> DEFINE result == calls[c].result
           id == result.id
           status == result.status
<1>1. calls[c].phase = "answered" /\ calls[c].kind # "save" /\ AcceptApplyResult(result)
  BY DEF CompleteApply
<1>2. result \in ApplyResults /\ id \in Nat /\ status \in ApplyStatus
  BY <1>1, CallType DEF TypeOK, ApplyResults
<1>3. HasRun(id, status) /\ id \in 1..nextId
  BY <1>1 DEF SessionInv, AnswersAreTrue, IdsAreGenerated
<1>4. id \in DOMAIN StatusOf(applied) /\ StatusOf(applied)[id] = status
  <2>1. PICK i \in DOMAIN applied : applied[i] = [id |-> id, status |-> status]
    BY <1>3 DEF HasRun
  <2>2. Distinct(applied)
    BY DEF SessionInv, AtMostOnce, Distinct
  <2>3. DOMAIN StatusOf(applied) = {applied[j].id : j \in DOMAIN applied}
    BY StatusOfDomain
  <2>4. StatusOf(applied)[applied[i].id] = applied[i].status
    BY <2>2, StatusOfEntry
  <2> QED
    BY <2>1, <2>3, <2>4
<1>5. BatchOf(pending) = [id |-> id, tables |-> DOMAIN pending.request.expected]
  BY <1>1 DEF AcceptApplyResult, Acceptable, BatchOf
<1>6. applyReceipts' = Append(applyReceipts, [id |-> id, status |-> status])
  BY <1>1 DEF AcceptApplyResult
<1>7. StatusOf(applyReceipts)' = Pipeline!With(StatusOf(applyReceipts), id, status)
  <2>1. applyReceipts \in Seq(Entry) /\ [id |-> id, status |-> status] \in Entry
    BY <1>2 DEF TypeOK, Entry
  <2>2. Distinct(applyReceipts')
    BY CompleteApplyKeeps DEF SessionInv, ReceiptsAreTrue, Distinct
  <2>3. StatusOf(Append(applyReceipts, [id |-> id, status |-> status]))
            = Pipeline!With(StatusOf(applyReceipts), id, status)
    BY <1>6, <2>1, <2>2, StatusOfAppend
  <2> QED
    BY <1>6, <2>3
<1>8. awaitingSave' = awaitingSave \cup (IF status = "committed" THEN DOMAIN pending.request.expected ELSE {})
  BY <1>1 DEF AcceptApplyResult
<1>9. BatchOf(pending)' = [id |-> 0, tables |-> {}]
  BY <1>1 DEF AcceptApplyResult, BatchOf, NoOperation
<1>10. UNCHANGED <<StatusOf(applied), unsaved>>
  BY DEF CompleteApply
<1>11. nextId \in Nat
  BY DEF TypeOK
<1>12. Pipeline!Record
  BY <1>3, <1>4, <1>5, <1>7, <1>8, <1>9, <1>10, <1>11 DEF Pipeline!Record, Pipeline!NoBatch, Pipeline!TablesOf
<1> QED
  BY <1>12 DEF PipelineStep, Pipeline!Next

(* Writing tables, and learning that they are written                      *)
LEMMA SavesRefine ==
    ASSUME TypeOK, SessionInv,
           \/ \E m \in wire : ExecuteSave(m)
           \/ \E c \in Callers : CompleteSave(c)
           \/ \E t \in Tables : OutsideSave(t)
           \/ RestartEditor
    PROVE  PipelineStep
<1> USE DEF document, draft, editorVars
<1>1. ASSUME NEW S \in SUBSET Tables, unsaved' = unsaved \ S,
             UNCHANGED <<pending, applied, applyReceipts, awaitingSave>>
      PROVE  PipelineStep
  <2>1. Pipeline!Write(S)
    BY <1>1 DEF Pipeline!Write
  <2> QED
    BY <2>1 DEF PipelineStep, Pipeline!Next
<1>2. ASSUME NEW m \in wire, ExecuteSave(m) PROVE PipelineStep
  <2>1. m.request \in SaveRequests
    BY <1>2, MessageType DEF ExecuteSave, TypeOK
  <2>2. PICK written \in SUBSET m.request.paths : EditorSave(m.request, written)
    BY <1>2 DEF ExecuteSave
  <2>3. written \in SUBSET Tables
    BY <2>1 DEF SaveRequests
  <2> QED
    BY <1>1, <1>2, <2>2, <2>3 DEF ExecuteSave, EditorSave
<1>3. ASSUME NEW c \in Callers, CompleteSave(c) PROVE PipelineStep
  <2> DEFINE result == calls[c].result
  <2>1. calls[c].phase = "answered" /\ calls[c].kind = "save" /\ AcceptSaveResult(result)
    BY <1>3 DEF CompleteSave
  <2>2. result.saved \in SUBSET Tables
    BY <2>1, CallType DEF TypeOK, SaveResults
  <2>3. result.saved \cap unsaved = {}
    BY <2>1 DEF AcceptSaveResult, AcceptableSave, SessionInv, SaveAnswersAreTrue, IsPendingSave
  <2>4. UNCHANGED BatchOf(pending)
    BY <2>1 DEF AcceptSaveResult, AcceptableSave, BatchOf, NoOperation
  <2>5. awaitingSave' = awaitingSave \ result.saved
    BY <2>1 DEF AcceptSaveResult
  <2>6. UNCHANGED <<StatusOf(applied), StatusOf(applyReceipts), unsaved>>
    BY <1>3, <2>1 DEF CompleteSave, AcceptSaveResult
  <2>7. Pipeline!Settle(result.saved)
    BY <2>3, <2>4, <2>5, <2>6 DEF Pipeline!Settle
  <2> QED
    BY <2>2, <2>7 DEF PipelineStep, Pipeline!Next
<1>4. ASSUME NEW t \in Tables, OutsideSave(t) PROVE PipelineStep
  BY <1>1, <1>4 DEF OutsideSave, PersonSaves
<1>5. CASE RestartEditor
  <2>1. unsaved \in SUBSET Tables
    BY DEF TypeOK, EditorTypeOK
  <2> QED
    BY <1>1, <1>5, <2>1 DEF RestartEditor, EditorRestart
<1> QED
  BY <1>2, <1>3, <1>4, <1>5

(* Every step of the session is a step of the pipeline or a stutter.       *)
LEMMA StepRefines == TypeOK /\ SessionInv /\ [Next]_vars => PipelineStep
<1> SUFFICES ASSUME TypeOK, SessionInv, [Next]_vars PROVE PipelineStep
  OBVIOUS
<1>1. ASSUME NEW c \in Callers, Start(c) PROVE PipelineStep
  BY <1>1, PrepareApplyRefines, QuietActionsStutter DEF Start
<1>2. ASSUME NEW c \in Callers, Continue(c) PROVE PipelineStep
  BY <1>2, CompleteApplyRefines, SavesRefine, QuietActionsStutter DEF Continue
<1>3. ASSUME NEW m \in wire, Execute(m) PROVE PipelineStep
  BY <1>3, ExecuteApplyRefines, SavesRefine, QuietActionsStutter DEF Execute
<1>4. CASE World
  BY <1>4, SavesRefine, QuietActionsStutter DEF World
<1> QED
  BY <1>1, <1>2, <1>3, <1>4, QuietActionsStutter DEF Next

(* The session implements the pipeline: the editor decides a batch once,   *)
(* the session records that decision and no other, and a table leaves the  *)
(* list of what to Save only when nothing of it can be lost.               *)
THEOREM RefinementCorrect == Spec => ImplementsPipeline
<1>1. Init => Pipeline!Init
  BY InitRefines
<1>2. TypeOK /\ SessionInv /\ [Next]_vars => [Pipeline!Next]_(Pipeline!vars)
  BY StepRefines DEF PipelineStep
<1> QED
  BY <1>1, <1>2, InvariantCorrect, PTL DEF Spec, ImplementsPipeline, Pipeline!Spec
=============================================================================
