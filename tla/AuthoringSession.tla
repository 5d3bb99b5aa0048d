-------------------------- MODULE AuthoringSession --------------------------
(***************************************************************************)
(* One persistent authoring session against a live editor                  *)
(* (packages/authoring/src/session-service.ts and live.ts).                *)
(*                                                                         *)
(* The session document is on disk; every transition loads it, changes it  *)
(* and replaces the file under one mutex, so it is one step here.  What is *)
(* not under the mutex is the conversation with the editor: apply, save    *)
(* and reconcile record an operation, send a request, wait, and record the *)
(* answer, and several callers of one process do so at the same time.  The *)
(* process may stop between any two of those steps and start again; a      *)
(* request or an answer may be lost; an abandoned request may still be     *)
(* executed later.                                                         *)
(***************************************************************************)
EXTENDS UEShedAuthoringEditor

CONSTANTS
    Callers,       \* concurrent calls into the session service
    Nobody,        \* the sender of a request whose caller has gone
    MaxOperations, \* bound: generated operation and request ids
    MaxCommands,   \* bound: length of the command log
    MaxFaults,     \* bound: lost requests, abandoned calls, failed writes
    MaxCrashes,    \* bound: restarts of the service process
    MaxOutside,    \* bound: edits, saves and batches of others
    MaxRestarts    \* bound: restarts of the editor

ASSUME NobodyAssumption == Nobody \notin Callers

VARIABLES
    base,          \* [Tables -> Values]: recorded snapshots (and fingerprints)
    commands,      \* the command log
    undoPointer,   \* active commands
    awaitingSave,  \* applied, not yet saved, as far as the session knows
    pending,       \* pendingOperation
    applyReceipts, \* <<[id, status], ...>>
    saveReceipts,  \* <<[id, saved], ...>>
    calls,         \* [Callers -> Call]: what each caller is doing (memory)
    wire,          \* requests on their way to the editor
    nextId,        \* ids generated so far
    faults, crashes, outside, restarts   \* what the bounds count

document == <<base, commands, undoPointer, awaitingSave, pending, applyReceipts, saveReceipts>>
draft == <<base, commands, undoPointer>>
counters == <<faults, crashes, outside, restarts>>
vars == <<editorVars, document, calls, wire, nextId, counters>>

-----------------------------------------------------------------------------
NoOperation == [kind |-> "none"]
PendingApply == [kind : {"apply"}, request : ApplyRequests, status : {"dispatching", "indeterminate"}]
PendingSave == [kind : {"save"}, request : SaveRequests, status : {"dispatching", "indeterminate"}]

(* dispatch: about to send; waiting: sent; answered: about to record the   *)
(* answer; failed: about to mark the operation indeterminate               *)
IdleCall == [phase |-> "idle"]
Started(kind, requests) ==
    [phase : {"dispatch", "waiting", "failed"}, kind : {kind}, request : requests]
Answered(kind, requests, answers) ==
    [phase : {"answered"}, kind : {kind}, request : requests, result : answers]
Sent(kind, requests) ==
    [from : Callers \cup {Nobody}, kind : {kind}, request : requests]

LookupRequests == [id : Nat]
Call ==
    {IdleCall}
    \cup Started("apply", ApplyRequests) \cup Answered("apply", ApplyRequests, ApplyResults)
    \cup Started("lookup", LookupRequests) \cup Answered("lookup", LookupRequests, ApplyResults)
    \cup Started("save", SaveRequests) \cup Answered("save", SaveRequests, SaveResults)
Message ==
    Sent("apply", ApplyRequests) \cup Sent("lookup", LookupRequests) \cup Sent("save", SaveRequests)

-----------------------------------------------------------------------------
(* The draft (draft.ts), with one command to a gesture                     *)

ActiveCommands == SubSeq(commands, 1, undoPointer)

(* foldTable on every table at once.  The recorded old values match, see   *)
(* AuthoringDraft!EveryPrefixFolds.                                        *)
WorkingTables == After(base, ActiveCommands)
TouchedTables == {ActiveCommands[k].table : k \in DOMAIN ActiveCommands}

Idle == pending.kind = "none"

-----------------------------------------------------------------------------
(* Apply, reconcile and save against the recorded session (live.ts)        *)

ApplyRequestFor(id) ==
    [id |-> id, commands |-> ActiveCommands, expected |-> SnapshotOf(base, TouchedTables)]

(* buildSaveRequest.  The editor reports every failed package as safe to   *)
(* retry, so no awaiting table is left out.                                *)
SaveRequestFor(id) == [id |-> id, paths |-> awaitingSave]

(* Mutant of Acceptable: any answer fits the pending Apply.                *)
AcceptableForAny(result) ==
    /\ pending.kind = "apply"
    /\ result.status = "rejected" => DOMAIN result.snapshots = {}
    /\ result.status # "rejected" => DOMAIN result.snapshots = DOMAIN pending.request.expected

(* Mutant of Acceptable: an indeterminate Apply is not completed any more. *)
AcceptableWhileDispatching(result) ==
    /\ pending.kind = "apply"
    /\ pending.status = "dispatching"
    /\ result.id = pending.request.id

(* acceptApplyResult: the answer is for the pending operation, it names    *)
(* the tables of the plan unless it is a rejection, and a commit has the   *)
(* fingerprints of the drafted tables.                                     *)
Acceptable(result) ==
    /\ pending.kind = "apply"
    /\ result.id = pending.request.id
    /\ result.status = "rejected" => DOMAIN result.snapshots = {}
    /\ result.status # "rejected" => DOMAIN result.snapshots = DOMAIN pending.request.expected
    /\ result.status = "committed" =>
          \A t \in DOMAIN pending.request.expected : result.snapshots[t] = WorkingTables[t]

(* Mutant of AcceptApplyResult: the list of what to Save starts afresh.    *)
AcceptAndForgetUnsaved(result) ==
    /\ Acceptable(result)
    /\ applyReceipts' = Append(applyReceipts, [id |-> result.id, status |-> result.status])
    /\ IF result.status = "committed"
       THEN /\ base' = [t \in Tables |->
                          IF t \in DOMAIN result.snapshots THEN result.snapshots[t] ELSE base[t]]
            /\ commands' = <<>>
            /\ undoPointer' = 0
            /\ awaitingSave' = DOMAIN pending.request.expected
       ELSE UNCHANGED <<base, commands, undoPointer, awaitingSave>>
    /\ pending' = NoOperation
    /\ UNCHANGED saveReceipts

(* Mutant of AcceptApplyResult: a rolled back batch is taken for done.     *)
AcceptRolledBack(result) ==
    /\ Acceptable(result)
    /\ applyReceipts' = Append(applyReceipts, [id |-> result.id, status |-> result.status])
    /\ IF result.status # "rejected"
       THEN /\ base' = [t \in Tables |->
                          IF t \in DOMAIN result.snapshots THEN result.snapshots[t] ELSE base[t]]
            /\ commands' = <<>>
            /\ undoPointer' = 0
            /\ awaitingSave' = awaitingSave \cup DOMAIN pending.request.expected
       ELSE UNCHANGED <<base, commands, undoPointer, awaitingSave>>
    /\ pending' = NoOperation
    /\ UNCHANGED saveReceipts

AcceptApplyResult(result) ==
    /\ Acceptable(result)
    /\ applyReceipts' = Append(applyReceipts, [id |-> result.id, status |-> result.status])
    /\ IF result.status = "committed"
       THEN /\ base' = [t \in Tables |->
                          IF t \in DOMAIN result.snapshots THEN result.snapshots[t] ELSE base[t]]
            /\ commands' = <<>>
            /\ undoPointer' = 0
            /\ awaitingSave' = awaitingSave \cup DOMAIN pending.request.expected
       ELSE UNCHANGED <<base, commands, undoPointer, awaitingSave>>
    /\ pending' = NoOperation
    /\ UNCHANGED saveReceipts

(* Mutant of AcceptableSave: a partial Save is refused.                    *)
AcceptableIfComplete(result) ==
    /\ pending.kind = "save"
    /\ result.id = pending.request.id
    /\ result.saved = pending.request.paths

(* acceptSaveResult                                                        *)
AcceptableSave(result) ==
    /\ pending.kind = "save"
    /\ result.id = pending.request.id
    /\ result.saved \cup result.failed = pending.request.paths

(* Mutant of AcceptSaveResult: packages that failed leave the list as well. *)
AcceptSaveOfAll(result) ==
    /\ AcceptableSave(result)
    /\ awaitingSave' = awaitingSave \ pending.request.paths
    /\ saveReceipts' = Append(saveReceipts, [id |-> result.id, saved |-> result.saved])
    /\ pending' = NoOperation
    /\ UNCHANGED <<draft, applyReceipts>>

AcceptSaveResult(result) ==
    /\ AcceptableSave(result)
    /\ awaitingSave' = awaitingSave \ result.saved
    /\ saveReceipts' = Append(saveReceipts, [id |-> result.id, saved |-> result.saved])
    /\ pending' = NoOperation
    /\ UNCHANGED <<draft, applyReceipts>>

-----------------------------------------------------------------------------
(* Editing: refused while an operation is pending                          *)

(* Mutant of SetCell: a pending operation does not stop the edit.          *)
SetCellAnytime(t, v) ==
    /\ undoPointer < MaxCommands
    /\ v # WorkingTables[t]
    /\ commands' = Append(ActiveCommands, [table |-> t, oldValue |-> WorkingTables[t], newValue |-> v])
    /\ undoPointer' = undoPointer + 1
    /\ UNCHANGED <<editorVars, base, awaitingSave, pending, applyReceipts, saveReceipts,
                   calls, wire, nextId, counters>>

SetCell(t, v) ==
    /\ Idle
    /\ undoPointer < MaxCommands
    /\ v # WorkingTables[t]
    /\ commands' = Append(ActiveCommands, [table |-> t, oldValue |-> WorkingTables[t], newValue |-> v])
    /\ undoPointer' = undoPointer + 1
    /\ UNCHANGED <<editorVars, base, awaitingSave, pending, applyReceipts, saveReceipts,
                   calls, wire, nextId, counters>>

(* Mutant of Undo: the start of the log is not checked.                    *)
UndoPastStart ==
    /\ Idle
    /\ undoPointer' = undoPointer - 1
    /\ UNCHANGED <<editorVars, base, commands, awaitingSave, pending, applyReceipts, saveReceipts,
                   calls, wire, nextId, counters>>

Undo ==
    /\ Idle
    /\ undoPointer > 0
    /\ undoPointer' = undoPointer - 1
    /\ UNCHANGED <<editorVars, base, commands, awaitingSave, pending, applyReceipts, saveReceipts,
                   calls, wire, nextId, counters>>

Redo ==
    /\ Idle
    /\ undoPointer < Len(commands)
    /\ undoPointer' = undoPointer + 1
    /\ UNCHANGED <<editorVars, base, commands, awaitingSave, pending, applyReceipts, saveReceipts,
                   calls, wire, nextId, counters>>

-----------------------------------------------------------------------------
(* Starting a call                                                         *)

Calling(c, kind, request) ==
    calls' = [calls EXCEPT ![c] = [phase |-> "dispatch", kind |-> kind, request |-> request]]

(* Mutant of PrepareApply: a pending operation does not stop the next.     *)
PrepareApplyAnytime(c) ==
    /\ calls[c] = IdleCall
    /\ undoPointer > 0
    /\ nextId < MaxOperations
    /\ nextId' = nextId + 1
    /\ pending' = [kind |-> "apply", request |-> ApplyRequestFor(nextId'), status |-> "dispatching"]
    /\ Calling(c, "apply", ApplyRequestFor(nextId'))
    /\ UNCHANGED <<editorVars, draft, awaitingSave, applyReceipts, saveReceipts, wire, counters>>

(* apply(): prepareApply records the operation before anything is sent.    *)
PrepareApply(c) ==
    /\ calls[c] = IdleCall
    /\ Idle
    /\ undoPointer > 0
    /\ nextId < MaxOperations
    /\ nextId' = nextId + 1
    /\ pending' = [kind |-> "apply", request |-> ApplyRequestFor(nextId'), status |-> "dispatching"]
    /\ Calling(c, "apply", ApplyRequestFor(nextId'))
    /\ UNCHANGED <<editorVars, draft, awaitingSave, applyReceipts, saveReceipts, wire, counters>>

(* save() on an idle session: prepareSave                                  *)
PrepareSave(c) ==
    /\ calls[c] = IdleCall
    /\ Idle
    /\ awaitingSave # {}
    /\ nextId < MaxOperations
    /\ nextId' = nextId + 1
    /\ pending' = [kind |-> "save", request |-> SaveRequestFor(nextId'), status |-> "dispatching"]
    /\ Calling(c, "save", SaveRequestFor(nextId'))
    /\ UNCHANGED <<editorVars, draft, awaitingSave, applyReceipts, saveReceipts, wire, counters>>

(* save() on an indeterminate Save: the recorded request again, read       *)
(* without the mutex.                                                      *)
RetrySave(c) ==
    /\ calls[c] = IdleCall
    /\ pending.kind = "save"
    /\ pending.status = "indeterminate"
    /\ Calling(c, "save", pending.request)
    /\ UNCHANGED <<editorVars, document, wire, nextId, counters>>

(* Mutant of Reconcile: the pending Apply is sent again.                   *)
RetryApply(c) ==
    /\ calls[c] = IdleCall
    /\ pending.kind = "apply"
    /\ Calling(c, "apply", pending.request)
    /\ UNCHANGED <<editorVars, document, wire, nextId, counters>>

(* reconcileApply(): asks for the result of the pending operation          *)
Reconcile(c) ==
    /\ calls[c] = IdleCall
    /\ pending.kind = "apply"
    /\ Calling(c, "lookup", [id |-> pending.request.id])
    /\ UNCHANGED <<editorVars, document, wire, nextId, counters>>

-----------------------------------------------------------------------------
(* The conversation                                                        *)

Send(c) ==
    /\ calls[c].phase = "dispatch"
    /\ calls' = [calls EXCEPT ![c] = [phase |-> "waiting", kind |-> calls[c].kind, request |-> calls[c].request]]
    /\ wire' = wire \cup {[from |-> c, kind |-> calls[c].kind, request |-> calls[c].request]}
    /\ UNCHANGED <<editorVars, document, nextId, counters>>

(* The editor's answer reaches the caller, if it is still there.           *)
Answer(m, result) ==
    /\ wire' = wire \ {m}
    /\ calls' = IF m.from = Nobody THEN calls
                ELSE [calls EXCEPT ![m.from] = [phase |-> "answered", kind |-> m.kind,
                                                request |-> m.request, result |-> result]]

ExecuteApply(m) ==
    /\ m.kind = "apply"
    /\ \E o \in Outcomes(m.request) : EditorApply(m.request, o) /\ Answer(m, o.result)
    /\ UNCHANGED <<document, nextId, counters>>

ExecuteSave(m) ==
    /\ m.kind = "save"
    /\ \E written \in SUBSET m.request.paths :
          /\ EditorSave(m.request, written)
          /\ Answer(m, [id |-> m.request.id, saved |-> written, failed |-> m.request.paths \ written])
    /\ UNCHANGED <<document, nextId, counters>>

(* How a call ends that got no usable answer: apply() and save() go on to  *)
(* mark their operation, reconcileApply() just fails.                      *)
AfterFailure(call) ==
    IF call.kind = "lookup" THEN IdleCall
    ELSE [phase |-> "failed", kind |-> call.kind, request |-> call.request]

(* The editor answers with an error, and the connection fails the call.    *)
AnswerError(m) ==
    /\ wire' = wire \ {m}
    /\ calls' = IF m.from = Nobody THEN calls
                ELSE [calls EXCEPT ![m.from] = AfterFailure(m)]

RefuseSave(m) ==
    /\ m.kind = "save"
    /\ ~SaveAllowed(m.request)
    /\ AnswerError(m)
    /\ UNCHANGED <<editorVars, document, nextId, counters>>

(* LookupApplyResult.  An id the cache does not know is the error          *)
(* operation_not_found: the call fails and nothing changes.                *)
ExecuteLookup(m) ==
    /\ m.kind = "lookup"
    /\ IF m.request.id \in DOMAIN results
       THEN Answer(m, results[m.request.id].result)
       ELSE AnswerError(m)
    /\ UNCHANGED <<editorVars, document, nextId, counters>>

Execute(m) == ExecuteApply(m) \/ ExecuteSave(m) \/ RefuseSave(m) \/ ExecuteLookup(m)

(* completeApply, for the answer to an Apply or to a lookup                *)
CompleteApply(c) ==
    /\ calls[c].phase = "answered"
    /\ calls[c].kind # "save"
    /\ AcceptApplyResult(calls[c].result)
    /\ calls' = [calls EXCEPT ![c] = IdleCall]
    /\ UNCHANGED <<editorVars, wire, nextId, counters>>

(* completeSave                                                            *)
CompleteSave(c) ==
    /\ calls[c].phase = "answered"
    /\ calls[c].kind = "save"
    /\ AcceptSaveResult(calls[c].result)
    /\ calls' = [calls EXCEPT ![c] = IdleCall]
    /\ UNCHANGED <<editorVars, wire, nextId, counters>>

(* The recorded session refuses the answer: no such operation is pending,  *)
(* or another one, or the snapshots do not fit.                            *)
RefuseAnswer(c) ==
    /\ calls[c].phase = "answered"
    /\ IF calls[c].kind = "save" THEN ~AcceptableSave(calls[c].result)
       ELSE ~Acceptable(calls[c].result)
    /\ calls' = [calls EXCEPT ![c] = AfterFailure(calls[c])]
    /\ UNCHANGED <<editorVars, document, wire, nextId, counters>>

(* The connection fails: the request was lost or the editor has gone.      *)
ConnectionFails(c) ==
    /\ calls[c].phase = "waiting"
    /\ \A m \in wire : m.from # c
    /\ calls' = [calls EXCEPT ![c] = AfterFailure(calls[c])]
    /\ UNCHANGED <<editorVars, document, wire, nextId, counters>>

(* Mutant of MarkIndeterminate: a failed operation is forgotten.           *)
ForgetOperation(c) ==
    /\ calls[c].phase = "failed"
    /\ pending' = IF pending.kind = calls[c].kind THEN NoOperation ELSE pending
    /\ calls' = [calls EXCEPT ![c] = IdleCall]
    /\ UNCHANGED <<editorVars, draft, awaitingSave, applyReceipts, saveReceipts, wire, nextId, counters>>

(* markApplyIndeterminate and markSaveIndeterminate: whatever operation of *)
(* the kind is pending by now, or nothing when none is.                    *)
MarkIndeterminate(c) ==
    /\ calls[c].phase = "failed"
    /\ pending' = IF pending.kind = calls[c].kind
                  THEN [pending EXCEPT !.status = "indeterminate"] ELSE pending
    /\ calls' = [calls EXCEPT ![c] = IdleCall]
    /\ UNCHANGED <<editorVars, draft, awaitingSave, applyReceipts, saveReceipts, wire, nextId, counters>>

-----------------------------------------------------------------------------
(* Faults                                                                  *)

Abandon(S) ==
    wire' = {IF m.from \in S THEN [m EXCEPT !.from = Nobody] ELSE m :
                m \in {n \in wire : ~(n.from \in S /\ n.kind = "lookup")}}

Fault == faults < MaxFaults /\ faults' = faults + 1 /\ UNCHANGED <<crashes, outside, restarts>>

(* A request never reaches the editor.                                     *)
LoseRequest(m) ==
    /\ Fault
    /\ wire' = wire \ {m}
    /\ UNCHANGED <<editorVars, document, calls, nextId>>

(* A call is interrupted or times out, its answer is lost, or recording    *)
(* the answer fails: its request may still be executed.                    *)
GiveUp(c) ==
    /\ Fault
    /\ calls[c].phase \in {"dispatch", "waiting", "answered"}
    /\ calls' = [calls EXCEPT ![c] = AfterFailure(calls[c])]
    /\ Abandon({c})
    /\ UNCHANGED <<editorVars, document, nextId>>

(* Marking the operation fails as well (the disk is full, say).            *)
MarkFails(c) ==
    /\ Fault
    /\ calls[c].phase = "failed"
    /\ calls' = [calls EXCEPT ![c] = IdleCall]
    /\ UNCHANGED <<editorVars, document, wire, nextId>>

(* The service process stops and starts again: only the document remains.  *)
ServiceRestart ==
    /\ crashes < MaxCrashes
    /\ crashes' = crashes + 1
    /\ calls' = [c \in Callers |-> IdleCall]
    /\ Abandon(Callers)
    /\ UNCHANGED <<editorVars, document, nextId, faults, outside, restarts>>

-----------------------------------------------------------------------------
(* The rest of the world                                                   *)

Outside == outside < MaxOutside /\ outside' = outside + 1 /\ UNCHANGED <<faults, crashes, restarts>>

OutsideEdit(t, v) ==
    /\ Outside
    /\ v # live[t]
    /\ PersonEdits(t, v)
    /\ UNCHANGED <<document, calls, wire, nextId>>

OutsideSave(t) ==
    /\ Outside
    /\ PersonSaves(t)
    /\ UNCHANGED <<document, calls, wire, nextId>>

OutsideApply(t, v) ==
    /\ Outside
    /\ nextId < MaxOperations
    /\ nextId' = nextId + 1
    /\ OtherClientApplies(nextId', t, v)
    /\ UNCHANGED <<document, calls, wire>>

(* The editor's exit also loses the requests it has not executed.          *)
RestartEditor ==
    /\ restarts < MaxRestarts
    /\ restarts' = restarts + 1
    /\ EditorRestart
    /\ wire' = {}
    /\ UNCHANGED <<document, calls, nextId, faults, crashes, outside>>

-----------------------------------------------------------------------------

Init ==
    /\ EditorInit
    /\ base = live
    /\ commands = <<>>
    /\ undoPointer = 0
    /\ awaitingSave = {}
    /\ pending = NoOperation
    /\ applyReceipts = <<>>
    /\ saveReceipts = <<>>
    /\ calls = [c \in Callers |-> IdleCall]
    /\ wire = {}
    /\ nextId = 0
    /\ faults = 0 /\ crashes = 0 /\ outside = 0 /\ restarts = 0

Edits == (\E t \in Tables, v \in Values : SetCell(t, v)) \/ Undo \/ Redo

Start(c) == PrepareApply(c) \/ PrepareSave(c) \/ RetrySave(c) \/ Reconcile(c)

Continue(c) ==
    \/ Send(c)
    \/ CompleteApply(c)
    \/ CompleteSave(c)
    \/ RefuseAnswer(c)
    \/ ConnectionFails(c)
    \/ MarkIndeterminate(c)

Faults ==
    \/ \E m \in wire : LoseRequest(m)
    \/ \E c \in Callers : GiveUp(c) \/ MarkFails(c)
    \/ ServiceRestart

World ==
    \/ \E t \in Tables, v \in Values : OutsideEdit(t, v) \/ OutsideApply(t, v)
    \/ \E t \in Tables : OutsideSave(t)
    \/ RestartEditor

Next ==
    \/ Edits
    \/ \E c \in Callers : Start(c) \/ Continue(c)
    \/ \E m \in wire : Execute(m)
    \/ Faults
    \/ World

Spec == Init /\ [][Next]_vars

(* Scheduling.  Effect runs every call on to its end, Remote Control       *)
(* executes what it receives, and a session with an unresolved operation   *)
(* offers one gesture, reconcile or Save again: the user keeps using it.   *)
(* Nothing else has to happen.                                             *)
Fairness ==
    /\ \A c \in Callers : WF_vars(Continue(c)) /\ WF_vars(Reconcile(c)) /\ WF_vars(RetrySave(c))
    /\ WF_vars(\E m \in wire : Execute(m))

FairSpec == Spec /\ Fairness

-----------------------------------------------------------------------------
(* Properties                                                              *)

IsPendingApply(id) == pending.kind = "apply" /\ pending.request.id = id
IsPendingSave(id) == pending.kind = "save" /\ pending.request.id = id

TypeOK ==
    /\ EditorTypeOK
    /\ base \in [Tables -> Values]
    /\ commands \in Seq(Commands)
    /\ undoPointer \in 0..Len(commands)
    /\ awaitingSave \subseteq Tables
    /\ pending \in {NoOperation} \cup PendingApply \cup PendingSave
    /\ applyReceipts \in Seq([id : Nat, status : ApplyStatus])
    /\ saveReceipts \in Seq([id : Nat, saved : SUBSET Tables])
    /\ calls \in [Callers -> Call]
    /\ wire \subseteq Message
    /\ nextId \in Nat
    /\ faults \in Nat /\ crashes \in Nat /\ outside \in Nat /\ restarts \in Nat

(* The editor never runs a batch of this session twice, whatever was lost, *)
(* abandoned, restarted, reconciled or evicted from the result cache       *)
(* ("mutation is never retried automatically",                             *)
(* docs/products/authoring-conformance.md:108-109).                        *)
AtMostOnce ==
    \A i, j \in DOMAIN applied : i # j => applied[i].id # applied[j].id

(* A recorded outcome is the outcome the editor reached: no receipt for a  *)
(* batch it did not run, none with another status, never two for one       *)
(* operation, even when several callers hold answers for it.               *)
ReceiptsAreTrue ==
    /\ \A r \in DOMAIN applyReceipts : \E i \in DOMAIN applied : applied[i] = applyReceipts[r]
    /\ \A r, s \in DOMAIN applyReceipts : r # s => applyReceipts[r].id # applyReceipts[s].id

(* A commit is never forgotten: it has its receipt, or its operation is    *)
(* still pending and can be reconciled.                                    *)
CommitsAreRecorded ==
    \A i \in DOMAIN applied :
       \/ \E r \in DOMAIN applyReceipts : applyReceipts[r] = applied[i]
       \/ pending.kind = "apply" /\ pending.request.id = applied[i].id

(* A table with a committed batch that is not on disk is awaiting Save, or *)
(* is in the plan of the pending Apply.  Late Save answers, Saves sent     *)
(* twice and crashes never take it off the list.                           *)
UnsavedIsTracked ==
    \A t \in unsaved :
       \/ t \in awaitingSave
       \/ pending.kind = "apply" /\ t \in DOMAIN pending.request.expected

(* The request of a pending Apply is the draft the session still shows, so *)
(* the rebase that follows a commit clears exactly what was applied.       *)
PendingApplyIsTheDraft ==
    pending.kind = "apply" => pending.request = ApplyRequestFor(pending.request.id)

(* Whenever the editor runs a batch, however late, it changes nothing or   *)
(* makes every table of the draft what the session shows as its working    *)
(* state; and only where the live value is still the one in the session's  *)
(* base, so nobody else's edit is overwritten.                             *)
EditorAdoptsWholeDraft ==
    [][applied' # applied =>
          \/ live' = live
          \/ \A t \in Tables :
                /\ live'[t] = IF t \in TouchedTables THEN WorkingTables[t] ELSE live[t]
                /\ t \in TouchedTables => live[t] = base[t]]_vars

-----------------------------------------------------------------------------
(* Why they hold: an inductive invariant                                   *)

HasRun(id, status) == \E i \in DOMAIN applied : applied[i] = [id |-> id, status |-> status]

(* An Apply request that can still reach the editor is the pending one,    *)
(* and the editor has not run it.                                          *)
IsUnrun(request) ==
    /\ pending.kind = "apply"
    /\ pending.request = request
    /\ \A i \in DOMAIN applied : applied[i].id # request.id

AboutToApply(c) == calls[c].phase = "dispatch" /\ calls[c].kind = "apply"
AppliesOnWire == {m \in wire : m.kind = "apply"}

(* There is at most one such request, with a caller or on the wire.        *)
OneUnrunApply ==
    /\ \A c \in Callers : AboutToApply(c) => IsUnrun(calls[c].request) /\ AppliesOnWire = {}
    /\ \A c, d \in Callers : AboutToApply(c) /\ AboutToApply(d) => c = d
    /\ \A m \in AppliesOnWire : IsUnrun(m.request)
    /\ \A m, n \in AppliesOnWire : m = n

(* Every id in use was generated, so the next one is new.                  *)
IdsAreGenerated ==
    /\ \A i \in DOMAIN applied : applied[i].id \in 1..nextId
    /\ \A id \in DOMAIN results : id \in 1..nextId
    /\ pending.kind # "none" => pending.request.id \in 1..nextId
    /\ \A c \in Callers : calls[c].phase # "idle" => calls[c].request.id \in 1..nextId
    /\ \A c \in Callers : calls[c].phase = "answered" => calls[c].result.id \in 1..nextId
    /\ \A m \in wire : m.request.id \in 1..nextId

(* The operations whose results the session may still ask for              *)
Asked(id) ==
    \/ IsPendingApply(id)
    \/ \E c \in Callers : calls[c].phase # "idle" /\ calls[c].kind # "save" /\ calls[c].request.id = id
    \/ \E m \in wire : m.kind # "save" /\ m.request.id = id

(* What the cache and the callers hold is what the editor did.             *)
AnswersAreTrue ==
    /\ \A c \in Callers :
          calls[c].phase = "answered" /\ calls[c].kind # "save" =>
             HasRun(calls[c].result.id, calls[c].result.status)
    /\ \A id \in DOMAIN results : Asked(id) => HasRun(id, results[id].result.status)

(* The pending Apply has no receipt yet.                                   *)
PendingIsNotRecorded ==
    pending.kind = "apply" => \A r \in DOMAIN applyReceipts : applyReceipts[r].id # pending.request.id

(* The answer to the pending Save names no table with unsaved batches.     *)
SaveAnswersAreTrue ==
    \A c \in Callers :
       calls[c].phase = "answered" /\ calls[c].kind = "save" /\ IsPendingSave(calls[c].result.id) =>
          calls[c].result.saved \cap unsaved = {}

(* UnsavedIsTracked, and a pending Apply accounts only for what it did.    *)
UnsavedIsOwed ==
    \A t \in unsaved :
       \/ t \in awaitingSave
       \/ /\ pending.kind = "apply"
          /\ t \in DOMAIN pending.request.expected
          /\ HasRun(pending.request.id, "committed")

SessionInv ==
    /\ OneUnrunApply
    /\ IdsAreGenerated
    /\ AnswersAreTrue
    /\ PendingIsNotRecorded
    /\ SaveAnswersAreTrue
    /\ UnsavedIsOwed
    /\ AtMostOnce
    /\ ReceiptsAreTrue
    /\ CommitsAreRecorded
    /\ PendingApplyIsTheDraft

-----------------------------------------------------------------------------
(* The abstract specification                                              *)

BatchOf(operation) ==
    IF operation.kind = "apply"
    THEN [id |-> operation.request.id, tables |-> DOMAIN operation.request.expected]
    ELSE [id |-> 0, tables |-> {}]

(* A log of [id, status] entries as a function from ids to statuses        *)
StatusOf(log) ==
    LET Entries == {log[i] : i \in DOMAIN log}
    IN  [id \in {e.id : e \in Entries} |-> (CHOOSE e \in Entries : e.id = id).status]

Pipeline == INSTANCE AuthoringPipeline WITH
    batch <- BatchOf(pending),
    decided <- StatusOf(applied),
    recorded <- StatusOf(applyReceipts),
    owed <- awaitingSave

(* The session with all its messages, retries and restarts does what the   *)
(* pipeline promises: each step is a step of it or leaves it alone.        *)
ImplementsPipeline == Pipeline!Spec

-----------------------------------------------------------------------------
(* Liveness                                                                *)

(* An Apply the editor has run is recorded in the end, though its answer   *)
(* was lost or the service restarted: reconciling finds the cached result. *)
ExecutedApplyIsRecorded ==
    \A id \in 1..MaxOperations :
       (IsPendingApply(id) /\ \E i \in DOMAIN applied : applied[i].id = id) ~> ~IsPendingApply(id)

(* A Save known to be indeterminate ends, though its answers were lost or  *)
(* the service restarted: it is sent again, and whatever the editor        *)
(* answers settles it, unless it names more tables than the editor takes.  *)
IndeterminateSaveEnds ==
    \A id \in 1..MaxOperations :
       (IsPendingSave(id) /\ pending.status = "indeterminate" /\ SaveAllowed(pending.request))
          ~> ~IsPendingSave(id)

(* docs/products/data-authoring.md:94-95: "Save records a separate         *)
(* receipt, allowing the Draft to Applied to Saved pipeline to survive     *)
(* process restarts": a pending Save always ends.                          *)
PendingSaveEnds ==
    \A id \in 1..MaxOperations : IsPendingSave(id) ~> ~IsPendingSave(id)

(* docs/products/authoring-grill.md:99-100: "Apply and Save receipts make *)
(* recovery and review truthful after a restart": with nothing pending and *)
(* nobody else at work, a table that does not await Save is on disk as the *)
(* session shows it.                                                       *)
SavedTablesAreOnDisk ==
    (Idle /\ outside = 0) => \A t \in Tables \ awaitingSave : disk[t] = base[t]

(* It holds as long as the editor is not restarted, whatever is lost,      *)
(* refused or written in part.                                             *)
SavedTablesAreOnDiskUnlessRestarted ==
    restarts = 0 => SavedTablesAreOnDisk
=============================================================================
