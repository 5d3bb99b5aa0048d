----------------------- MODULE AuthoringSessionProofs -----------------------
(***************************************************************************)
(* Proofs about AuthoringSession, for every number of callers, tables,     *)
(* values and faults.                                                      *)
(***************************************************************************)
EXTENDS AuthoringSession, SequenceTheorems, TLAPS

(* The helpers of the command loop stay within the types.                  *)
LEMMA ValueAtType ==
    ASSUME NEW tables \in [Tables -> Values], NEW log \in Seq(Commands),
           NEW k \in Int, k <= Len(log), NEW t \in Tables
    PROVE  ValueAt(tables, log, k, t) \in Values
<1>1. CASE LastOn(log, k, t) = {}
  BY <1>1 DEF ValueAt
<1>2. CASE LastOn(log, k, t) # {}
  <2>1. PICK j \in LastOn(log, k, t) : j = CHOOSE i \in LastOn(log, k, t) : TRUE
    BY <1>2
  <2>2. j \in DOMAIN log
    BY DEF LastOn
  <2>3. log[j] \in Commands
    BY <2>2
  <2> QED
    BY <1>2, <2>1, <2>3 DEF ValueAt, Commands
<1> QED
  BY <1>1, <1>2

(* What a list of commands makes of typed tables is typed.                 *)
LEMMA AfterType ==
    ASSUME NEW tables \in [Tables -> Values], NEW log \in Seq(Commands)
    PROVE  After(tables, log) \in [Tables -> Values]
BY ValueAtType DEF After

(* The snapshot of any set of typed tables is a typed snapshot.            *)
LEMMA SnapshotType ==
    ASSUME NEW tables \in [Tables -> Values], NEW S \in SUBSET Tables
    PROVE  SnapshotOf(tables, S) \in Snapshots
BY DEF SnapshotOf, Snapshots

(* The plan of a request names tables of the session only.                 *)
LEMMA RequestDomain ==
    ASSUME NEW request \in ApplyRequests
    PROVE  /\ request.id \in Nat
           /\ request.commands \in Seq(Commands)
           /\ DOMAIN request.expected \subseteq Tables
           /\ request.expected \in [DOMAIN request.expected -> Values]
BY DEF ApplyRequests, Snapshots

(* Whatever an Apply does to the editor, it leaves typed tables and a      *)
(* typed result of its own id.                                             *)
LEMMA OutcomeType ==
    ASSUME EditorTypeOK, NEW request \in ApplyRequests, NEW o \in Outcomes(request)
    PROVE  /\ o.live \in [Tables -> Values]
           /\ o.result \in ApplyResults
           /\ o.result.id = request.id
<1> DEFINE plan == DOMAIN request.expected
           Prefix(k) == SubSeq(request.commands, 1, k)
<1>0. live \in [Tables -> Values] /\ request.id \in Nat /\ plan \in SUBSET Tables /\ {} \in SUBSET Tables
  BY RequestDomain DEF EditorTypeOK
<1>1. CASE request.id \in DOMAIN results
  <2>1. o = [live |-> live, result |-> CachedResult(request)]
    BY <1>1 DEF Outcomes
  <2>2. CachedResult(request) \in ApplyResults /\ CachedResult(request).id = request.id
    <3>1. SnapshotOf(live, {}) \in Snapshots
      BY <1>0, SnapshotType
    <3> QED
      BY <1>0, <1>1, <3>1 DEF CachedResult, EditorTypeOK, ApplyResults, ApplyStatus
  <2> QED
    BY <1>0, <2>1, <2>2
<1>2. ASSUME NEW status \in ApplyStatus, NEW tables \in [Tables -> Values], NEW S \in SUBSET Tables,
             o = Outcome(request, status, tables, S)
      PROVE  /\ o.live \in [Tables -> Values]
             /\ o.result \in ApplyResults
             /\ o.result.id = request.id
  BY <1>0, <1>2, SnapshotType DEF Outcome, ApplyResults
<1>3. CASE request.id \notin DOMAIN results
  <2>1. CASE o = Outcome(request, "rejected", live, {})
    BY <1>0, <1>2, <2>1 DEF ApplyStatus
  <2>2. CASE o = Outcome(request, "committed", After(live, request.commands), plan)
    BY <1>0, <1>2, <2>2, AfterType, RequestDomain DEF ApplyStatus
  <2>3. ASSUME NEW k \in 0..(Len(request.commands) - 1),
               o = Outcome(request, "rolled_back",
                           RestoreTables(After(live, Prefix(k)), SnapshotOf(live, plan)), plan)
        PROVE  /\ o.live \in [Tables -> Values]
               /\ o.result \in ApplyResults
               /\ o.result.id = request.id
    <3>1. Prefix(k) \in Seq(Commands)
      BY RequestDomain
    <3>2. After(live, Prefix(k)) \in [Tables -> Values]
      BY <1>0, <3>1, AfterType
    <3>3. RestoreTables(After(live, Prefix(k)), SnapshotOf(live, plan)) \in [Tables -> Values]
      BY <1>0, <3>2 DEF RestoreTables, SnapshotOf
    <3> QED
      BY <1>0, <1>2, <2>3, <3>3 DEF ApplyStatus
  <2> QED
    BY <1>3, <2>1, <2>2, <2>3 DEF Outcomes
<1> QED
  BY <1>1, <1>3

(* The result cache stays a function on the ids of its order.              *)
LEMMA RememberType ==
    ASSUME EditorTypeOK, NEW entry, entry.result \in ApplyResults, Remember(entry)
    PROVE  /\ resultOrder' \in Seq(Nat)
           /\ DOMAIN results' = {resultOrder'[k] : k \in DOMAIN resultOrder'}
           /\ \A id \in DOMAIN results' :
                 results'[id] = IF id = entry.result.id THEN entry ELSE results[id]
           /\ DOMAIN results' \subseteq DOMAIN results \cup {entry.result.id}
           /\ \A id \in DOMAIN results' : results'[id].result \in ApplyResults /\ results'[id].result.id = id
<1> DEFINE order == Append(resultOrder, entry.result.id)
<1>0. resultOrder \in Seq(Nat) /\ entry.result.id \in Nat
  BY DEF EditorTypeOK, ApplyResults
<1>1. /\ order \in Seq(Nat)
      /\ Len(order) = Len(resultOrder) + 1
      /\ order # <<>>
      /\ \A k \in 1..Len(resultOrder) : order[k] = resultOrder[k]
      /\ order[Len(resultOrder) + 1] = entry.result.id
  BY <1>0, AppendProperties
<1>2. resultOrder' \in Seq(Nat)
  BY <1>1, HeadTailProperties, CapacityAssumption DEF Remember
<1>3. {resultOrder'[k] : k \in DOMAIN resultOrder'} \subseteq {order[k] : k \in DOMAIN order}
  <2>1. CASE Len(order) > MaxApplyResults
    <3>1. resultOrder' = Tail(order)
      BY <2>1 DEF Remember
    <3> QED
      BY <1>1, <3>1, HeadTailProperties
  <2>2. CASE ~(Len(order) > MaxApplyResults)
    BY <2>2 DEF Remember
  <2> QED
    BY <2>1, <2>2
<1>4. {order[k] : k \in DOMAIN order} = DOMAIN results \cup {entry.result.id}
  <2>1. DOMAIN order = DOMAIN resultOrder \cup {Len(resultOrder) + 1}
    BY <1>0, <1>1
  <2>2. {order[k] : k \in DOMAIN resultOrder} = DOMAIN results
    <3>1. \A k \in DOMAIN resultOrder : order[k] = resultOrder[k]
      BY <1>0, <1>1
    <3>2. DOMAIN results = {resultOrder[k] : k \in DOMAIN resultOrder}
      BY DEF EditorTypeOK
    <3> HIDE DEF order
    <3> QED
      BY <3>1, <3>2
  <2> QED
    BY <1>1, <2>1, <2>2
<1>5. results' = [id \in {resultOrder'[k] : k \in DOMAIN resultOrder'} |->
                    IF id = entry.result.id THEN entry ELSE results[id]]
  BY DEF Remember
<1> HIDE DEF order
<1> QED
  BY <1>2, <1>3, <1>4, <1>5 DEF EditorTypeOK

-----------------------------------------------------------------------------
(* Type correctness                                                        *)

(* A step that leaves the editor alone keeps its types.                    *)
LEMMA EditorUnchanged ==
    ASSUME EditorTypeOK, UNCHANGED editorVars
    PROVE  EditorTypeOK'
BY DEF EditorTypeOK, editorVars

(* The tables of the draft, and the requests made from it, are typed.      *)
LEMMA PlanType ==
    ASSUME TypeOK
    PROVE  /\ ActiveCommands \in Seq(Commands)
           /\ WorkingTables \in [Tables -> Values]
           /\ TouchedTables \in SUBSET Tables
           /\ \A id \in Nat : ApplyRequestFor(id) \in ApplyRequests
           /\ \A id \in Nat : SaveRequestFor(id) \in SaveRequests
<1>1. commands \in Seq(Commands) /\ undoPointer \in 0..Len(commands) /\ base \in [Tables -> Values]
  BY DEF TypeOK
<1>2. ActiveCommands \in Seq(Commands)
  <2>1. \A i \in 1..undoPointer : commands[i] \in Commands
    BY <1>1
  <2> QED
    BY <1>1, <2>1, SubSeqProperties DEF ActiveCommands
<1>3. WorkingTables \in [Tables -> Values]
  BY <1>1, <1>2, AfterType DEF WorkingTables
<1>4. TouchedTables \in SUBSET Tables
  <2>1. \A k \in DOMAIN ActiveCommands : ActiveCommands[k] \in Commands
    BY <1>2
  <2> QED
    BY <2>1 DEF TouchedTables, Commands
<1>5. \A id \in Nat : ApplyRequestFor(id) \in ApplyRequests
  BY <1>1, <1>2, <1>4, SnapshotType DEF ApplyRequestFor, ApplyRequests
<1>6. \A id \in Nat : SaveRequestFor(id) \in SaveRequests
  BY DEF TypeOK, SaveRequestFor, SaveRequests
<1> QED
  BY <1>2, <1>3, <1>4, <1>5, <1>6

(* What a call can be, by its phase and kind                               *)
LEMMA CallType ==
    ASSUME NEW call \in Call
    PROVE  /\ call.phase \in {"idle", "dispatch", "waiting", "answered", "failed"}
           /\ call.phase = "idle" => call = IdleCall
           /\ call.phase # "idle" =>
                 /\ call.kind \in {"apply", "lookup", "save"}
                 /\ call.request.id \in Nat
           /\ call.phase # "idle" /\ call.kind = "apply" => call.request \in ApplyRequests
           /\ call.phase # "idle" /\ call.kind = "lookup" => call.request \in LookupRequests
           /\ call.phase # "idle" /\ call.kind = "save" => call.request \in SaveRequests
           /\ call.phase = "answered" /\ call.kind # "save" => call.result \in ApplyResults
           /\ call.phase = "answered" /\ call.kind = "save" => call.result \in SaveResults
<1>1. CASE call = IdleCall
  BY <1>1 DEF IdleCall
<1>2. CASE call \in Started("apply", ApplyRequests) \cup Answered("apply", ApplyRequests, ApplyResults)
  BY <1>2 DEF Started, Answered, ApplyRequests
<1>3. CASE call \in Started("lookup", LookupRequests) \cup Answered("lookup", LookupRequests, ApplyResults)
  BY <1>3 DEF Started, Answered, LookupRequests
<1>4. CASE call \in Started("save", SaveRequests) \cup Answered("save", SaveRequests, SaveResults)
  BY <1>4 DEF Started, Answered, SaveRequests
<1> QED
  BY <1>1, <1>2, <1>3, <1>4 DEF Call

(* What a message can be, by its kind                                      *)
LEMMA MessageType ==
    ASSUME NEW m \in Message
    PROVE  /\ m = [from |-> m.from, kind |-> m.kind, request |-> m.request]
           /\ m.from \in Callers \cup {Nobody}
           /\ m.kind \in {"apply", "lookup", "save"}
           /\ m.request.id \in Nat
           /\ m.kind = "apply" => m.request \in ApplyRequests
           /\ m.kind = "lookup" => m.request \in LookupRequests
           /\ m.kind = "save" => m.request \in SaveRequests
BY DEF Message, Sent, ApplyRequests, LookupRequests, SaveRequests

(* The other way round: what makes a call, and a message                   *)
LEMMA CallIntro ==
    ASSUME NEW request
    PROVE  /\ IdleCall \in Call
           /\ \A phase \in {"dispatch", "waiting", "failed"} :
                 /\ request \in ApplyRequests => [phase |-> phase, kind |-> "apply", request |-> request] \in Call
                 /\ request \in LookupRequests => [phase |-> phase, kind |-> "lookup", request |-> request] \in Call
                 /\ request \in SaveRequests => [phase |-> phase, kind |-> "save", request |-> request] \in Call
           /\ \A result \in ApplyResults :
                 /\ request \in ApplyRequests =>
                       [phase |-> "answered", kind |-> "apply", request |-> request, result |-> result] \in Call
                 /\ request \in LookupRequests =>
                       [phase |-> "answered", kind |-> "lookup", request |-> request, result |-> result] \in Call
           /\ \A result \in SaveResults : request \in SaveRequests =>
                 [phase |-> "answered", kind |-> "save", request |-> request, result |-> result] \in Call
           /\ \A from \in Callers \cup {Nobody} :
                 /\ request \in ApplyRequests => [from |-> from, kind |-> "apply", request |-> request] \in Message
                 /\ request \in LookupRequests => [from |-> from, kind |-> "lookup", request |-> request] \in Message
                 /\ request \in SaveRequests => [from |-> from, kind |-> "save", request |-> request] \in Message
BY DEF Call, Started, Answered, Message, Sent

(* A call whose conversation failed is still a call.                       *)
LEMMA AfterFailureType ==
    ASSUME NEW call \in Call, call.phase # "idle"
    PROVE  AfterFailure(call) \in Call
BY CallType, CallIntro DEF AfterFailure

(* A session that starts on live snapshots, with nothing drafted, applied  *)
(* or pending, is typed.                                                   *)
THEOREM InitType == Init => TypeOK
<1> SUFFICES ASSUME Init PROVE TypeOK
  OBVIOUS
<1>1. EditorTypeOK
  BY DEF Init, EditorInit, EditorTypeOK
<1>2. calls \in [Callers -> Call]
  BY CallIntro DEF Init
<1>3. wire \subseteq Message
  BY DEF Init
<1> QED
  BY <1>1, <1>2, <1>3 DEF Init, EditorInit, TypeOK

(* An answer, or an error, keeps the calls and the wire typed.             *)
LEMMA AnswerType ==
    ASSUME TypeOK, NEW m \in wire, NEW result, Answer(m, result),
           m.kind = "save" => result \in SaveResults,
           m.kind # "save" => result \in ApplyResults
    PROVE  calls' \in [Callers -> Call] /\ wire' \subseteq Message
<1>1. m \in Message /\ calls \in [Callers -> Call] /\ wire \subseteq Message
  BY DEF TypeOK
<1>2. [phase |-> "answered", kind |-> m.kind, request |-> m.request, result |-> result] \in Call
  BY <1>1, MessageType, CallIntro
<1>3. m.from # Nobody => m.from \in Callers
  BY <1>1, MessageType
<1> QED
  BY <1>1, <1>2, <1>3 DEF Answer

(* The same for an error                                                   *)
LEMMA AnswerErrorType ==
    ASSUME TypeOK, NEW m \in wire, AnswerError(m)
    PROVE  calls' \in [Callers -> Call] /\ wire' \subseteq Message
<1>1. m \in Message /\ calls \in [Callers -> Call] /\ wire \subseteq Message
  BY DEF TypeOK
<1>2. AfterFailure(m) \in Call
  BY <1>1, MessageType, CallIntro DEF AfterFailure
<1>3. m.from # Nobody => m.from \in Callers
  BY <1>1, MessageType
<1> QED
  BY <1>1, <1>2, <1>3 DEF AnswerError

(* Messages whose sender has gone are still messages.                      *)
LEMMA AbandonType ==
    ASSUME TypeOK, NEW S, Abandon(S)
    PROVE  wire' \subseteq Message
<1>1. wire \subseteq Message
  BY DEF TypeOK
<1>2. \A m \in wire : [m EXCEPT !.from = Nobody] \in Message
  BY <1>1 DEF Message, Sent
<1> QED
  BY <1>1, <1>2 DEF Abandon

(* Every action keeps the types: one step per action of Next.              *)
LEMMA StepType == TypeOK /\ [Next]_vars => TypeOK'
<1> SUFFICES ASSUME TypeOK, [Next]_vars PROVE TypeOK'
  OBVIOUS
<1> USE DEF counters
<1>0. /\ EditorTypeOK
      /\ calls \in [Callers -> Call]
      /\ wire \subseteq Message
      /\ nextId \in Nat
  BY DEF TypeOK
<1>1. ASSUME NEW t \in Tables, NEW v \in Values, SetCell(t, v) PROVE TypeOK'
  <2>1. EditorTypeOK'
    BY <1>1, <1>0, EditorUnchanged DEF SetCell
  <2>2. [table |-> t, oldValue |-> WorkingTables[t], newValue |-> v] \in Commands
    BY PlanType DEF Commands
  <2>3. commands' \in Seq(Commands) /\ undoPointer' \in 0..Len(commands')
    <3>1. commands \in Seq(Commands) /\ undoPointer \in 0..Len(commands)
      BY DEF TypeOK
    <3>2. ActiveCommands \in Seq(Commands) /\ Len(ActiveCommands) = undoPointer
      BY <3>1, PlanType, SubSeqProperties DEF ActiveCommands
    <3> QED
      BY <1>1, <2>2, <3>1, <3>2, AppendProperties DEF SetCell
  <2> QED
    BY <1>1, <2>1, <2>3 DEF SetCell, TypeOK
<1>2. CASE Undo
  BY <1>2, <1>0, EditorUnchanged DEF Undo, TypeOK
<1>3. CASE Redo
  BY <1>3, <1>0, EditorUnchanged DEF Redo, TypeOK
<1>4. ASSUME NEW c \in Callers, PrepareApply(c) PROVE TypeOK'
  <2>1. EditorTypeOK'
    BY <1>4, <1>0, EditorUnchanged DEF PrepareApply
  <2>2. nextId' \in Nat /\ ApplyRequestFor(nextId') \in ApplyRequests
    BY <1>4, <1>0, PlanType DEF PrepareApply
  <2>3. pending' \in PendingApply
    BY <1>4, <2>2 DEF PrepareApply, PendingApply
  <2>4. calls' \in [Callers -> Call]
    BY <1>4, <1>0, <2>2, CallIntro DEF PrepareApply, Calling
  <2> QED
    BY <1>4, <2>1, <2>2, <2>3, <2>4 DEF PrepareApply, TypeOK, draft
<1>5. ASSUME NEW c \in Callers, PrepareSave(c) PROVE TypeOK'
  <2>1. EditorTypeOK'
    BY <1>5, <1>0, EditorUnchanged DEF PrepareSave
  <2>2. nextId' \in Nat /\ SaveRequestFor(nextId') \in SaveRequests
    BY <1>5, <1>0, PlanType DEF PrepareSave
  <2>3. pending' \in PendingSave
    BY <1>5, <2>2 DEF PrepareSave, PendingSave
  <2>4. calls' \in [Callers -> Call]
    BY <1>5, <1>0, <2>2, CallIntro DEF PrepareSave, Calling
  <2> QED
    BY <1>5, <2>1, <2>2, <2>3, <2>4 DEF PrepareSave, TypeOK, draft
<1>6. ASSUME NEW c \in Callers, RetrySave(c) PROVE TypeOK'
  <2>1. EditorTypeOK'
    BY <1>6, <1>0, EditorUnchanged DEF RetrySave
  <2>2. pending.request \in SaveRequests
    BY <1>6 DEF RetrySave, TypeOK, PendingSave, PendingApply, NoOperation
  <2>3. calls' \in [Callers -> Call]
    BY <1>6, <1>0, <2>2, CallIntro DEF RetrySave, Calling
  <2> QED
    BY <1>6, <2>1, <2>3 DEF RetrySave, TypeOK, document
<1>7. ASSUME NEW c \in Callers, Reconcile(c) PROVE TypeOK'
  <2>1. EditorTypeOK'
    BY <1>7, <1>0, EditorUnchanged DEF Reconcile
  <2>2. [id |-> pending.request.id] \in LookupRequests
    BY <1>7 DEF Reconcile, TypeOK, PendingSave, PendingApply, NoOperation, ApplyRequests, LookupRequests
  <2>3. calls' \in [Callers -> Call]
    BY <1>7, <1>0, <2>2, CallIntro DEF Reconcile, Calling
  <2> QED
    BY <1>7, <2>1, <2>3 DEF Reconcile, TypeOK, document
<1>8. ASSUME NEW c \in Callers, Send(c) PROVE TypeOK'
  <2>1. EditorTypeOK'
    BY <1>8, <1>0, EditorUnchanged DEF Send
  <2>2. calls[c] \in Call /\ calls[c].phase # "idle"
    BY <1>8, <1>0 DEF Send
  <2>3. calls' \in [Callers -> Call]
    BY <1>8, <1>0, <2>2, CallType, CallIntro DEF Send
  <2>4. [from |-> c, kind |-> calls[c].kind, request |-> calls[c].request] \in Message
    BY <2>2, CallType, CallIntro
  <2> QED
    BY <1>8, <1>0, <2>1, <2>3, <2>4 DEF Send, TypeOK, document
<1>9. ASSUME NEW m \in wire, ExecuteApply(m) PROVE TypeOK'
  <2>1. m \in Message /\ m.request \in ApplyRequests
    BY <1>9, <1>0, MessageType DEF ExecuteApply
  <2>2. PICK o \in Outcomes(m.request) : EditorApply(m.request, o) /\ Answer(m, o.result)
    BY <1>9 DEF ExecuteApply
  <2>3. o.live \in [Tables -> Values] /\ o.result \in ApplyResults
    BY <1>0, <2>1, OutcomeType
  <2>4. calls' \in [Callers -> Call] /\ wire' \subseteq Message
    BY <1>9, <2>2, <2>3, AnswerType DEF ExecuteApply
  <2>5. EditorTypeOK'
    <3>1. CASE m.request.id \in DOMAIN results
      BY <1>0, <2>2, <2>3, <3>1 DEF EditorApply, EditorTypeOK
    <3>2. CASE m.request.id \notin DOMAIN results
      <4> DEFINE entry == [request |-> m.request, result |-> o.result]
      <4>1. Remember(entry) /\ entry.result \in ApplyResults
        BY <2>2, <2>3, <3>2 DEF EditorApply
      <4>2. /\ resultOrder' \in Seq(Nat)
            /\ DOMAIN results' = {resultOrder'[k] : k \in DOMAIN resultOrder'}
            /\ \A id \in DOMAIN results' : results'[id].result \in ApplyResults /\ results'[id].result.id = id
        BY <1>0, <4>1, RememberType
      <4>3. applied' \in Seq([id : Nat, status : ApplyStatus])
        <5>1. [id |-> m.request.id, status |-> o.result.status] \in [id : Nat, status : ApplyStatus]
          BY <2>1, <2>3, RequestDomain DEF ApplyResults
        <5>2. applied' = Append(applied, [id |-> m.request.id, status |-> o.result.status])
          BY <2>2, <3>2 DEF EditorApply
        <5> QED
          BY <1>0, <5>1, <5>2, AppendProperties DEF EditorTypeOK
      <4>4. unsaved' \subseteq Tables
        BY <1>0, <2>1, <2>2, <3>2, RequestDomain DEF EditorApply, EditorTypeOK
      <4>5. live' \in [Tables -> Values] /\ disk' \in [Tables -> Values]
        BY <1>0, <2>2, <2>3 DEF EditorApply, EditorTypeOK
      <4> QED
        BY <4>2, <4>3, <4>4, <4>5 DEF EditorTypeOK
    <3> QED
      BY <3>1, <3>2
  <2> QED
    BY <1>9, <2>4, <2>5 DEF ExecuteApply, TypeOK, document
<1>10. ASSUME NEW m \in wire, ExecuteSave(m) PROVE TypeOK'
  <2>1. m \in Message /\ m.request \in SaveRequests
    BY <1>10, <1>0, MessageType DEF ExecuteSave
  <2>2. PICK written \in SUBSET m.request.paths :
           /\ EditorSave(m.request, written)
           /\ Answer(m, [id |-> m.request.id, saved |-> written, failed |-> m.request.paths \ written])
    BY <1>10 DEF ExecuteSave
  <2>3. [id |-> m.request.id, saved |-> written, failed |-> m.request.paths \ written] \in SaveResults
    BY <2>1, <2>2 DEF SaveRequests, SaveResults
  <2>4. calls' \in [Callers -> Call] /\ wire' \subseteq Message
    BY <1>10, <2>2, <2>3, AnswerType DEF ExecuteSave
  <2>5. EditorTypeOK'
    BY <1>0, <2>2 DEF EditorSave, EditorTypeOK
  <2> QED
    BY <1>10, <2>4, <2>5 DEF ExecuteSave, TypeOK, document
<1>11. ASSUME NEW m \in wire, RefuseSave(m) PROVE TypeOK'
  BY <1>11, <1>0, EditorUnchanged, AnswerErrorType DEF RefuseSave, TypeOK, document
<1>12. ASSUME NEW m \in wire, ExecuteLookup(m) PROVE TypeOK'
  <2>1. EditorTypeOK'
    BY <1>12, <1>0, EditorUnchanged DEF ExecuteLookup
  <2>2. calls' \in [Callers -> Call] /\ wire' \subseteq Message
    <3>1. CASE m.request.id \in DOMAIN results
      <4>1. results[m.request.id].result \in ApplyResults
        BY <1>0, <3>1 DEF EditorTypeOK
      <4>2. m.kind # "save" /\ Answer(m, results[m.request.id].result)
        BY <1>12, <3>1 DEF ExecuteLookup
      <4> QED
        BY <4>1, <4>2, AnswerType
    <3>2. CASE m.request.id \notin DOMAIN results
      BY <1>12, <3>2, AnswerErrorType DEF ExecuteLookup
    <3> QED
      BY <3>1, <3>2
  <2> QED
    BY <1>12, <2>1, <2>2 DEF ExecuteLookup, TypeOK, document
<1>13. ASSUME NEW c \in Callers, CompleteApply(c) PROVE TypeOK'
  <2> DEFINE result == calls[c].result
  <2>1. EditorTypeOK'
    BY <1>13, <1>0, EditorUnchanged DEF CompleteApply
  <2>2. calls' \in [Callers -> Call]
    BY <1>13, <1>0, CallIntro DEF CompleteApply
  <2>3. result \in ApplyResults
    BY <1>13, <1>0, CallType DEF CompleteApply
  <2>4. applyReceipts' \in Seq([id : Nat, status : ApplyStatus])
    <3>1. [id |-> result.id, status |-> result.status] \in [id : Nat, status : ApplyStatus]
      BY <2>3 DEF ApplyResults
    <3>2. applyReceipts' = Append(applyReceipts, [id |-> result.id, status |-> result.status])
      BY <1>13 DEF CompleteApply, AcceptApplyResult
    <3>3. applyReceipts \in Seq([id : Nat, status : ApplyStatus])
      BY DEF TypeOK
    <3> QED
      BY <3>1, <3>2, <3>3, AppendProperties
  <2>5. /\ base' \in [Tables -> Values]
        /\ commands' \in Seq(Commands)
        /\ undoPointer' \in 0..Len(commands')
        /\ awaitingSave' \subseteq Tables
    <3>1. CASE result.status = "committed"
      <4>1. result.snapshots \in Snapshots
        BY <2>3 DEF ApplyResults
      <4>2. \A t \in DOMAIN result.snapshots : result.snapshots[t] \in Values
        BY <4>1 DEF Snapshots
      <4>3. base' \in [Tables -> Values]
        BY <1>13, <3>1, <4>2 DEF CompleteApply, AcceptApplyResult, TypeOK
      <4>4. commands' = <<>> /\ undoPointer' = 0
        BY <1>13, <3>1 DEF CompleteApply, AcceptApplyResult
      <4>5. pending.request \in ApplyRequests
        BY <1>13 DEF CompleteApply, AcceptApplyResult, Acceptable, TypeOK, PendingApply, PendingSave, NoOperation
      <4>6. awaitingSave' \subseteq Tables
        BY <1>13, <3>1, <4>5, RequestDomain DEF CompleteApply, AcceptApplyResult, TypeOK
      <4> QED
        BY <4>3, <4>4, <4>6
    <3>2. CASE result.status # "committed"
      BY <1>13, <3>2 DEF CompleteApply, AcceptApplyResult, TypeOK
    <3> QED
      BY <3>1, <3>2
  <2>6. pending' = NoOperation /\ UNCHANGED saveReceipts
    BY <1>13 DEF CompleteApply, AcceptApplyResult
  <2> QED
    BY <1>13, <2>1, <2>2, <2>4, <2>5, <2>6 DEF CompleteApply, TypeOK
<1>14. ASSUME NEW c \in Callers, CompleteSave(c) PROVE TypeOK'
  <2>1. EditorTypeOK'
    BY <1>14, <1>0, EditorUnchanged DEF CompleteSave
  <2>2. calls' \in [Callers -> Call]
    BY <1>14, <1>0, CallIntro DEF CompleteSave
  <2>3. [id |-> calls[c].result.id, saved |-> calls[c].result.saved] \in [id : Nat, saved : SUBSET Tables]
    BY <1>14, <1>0, CallType DEF CompleteSave, SaveResults
  <2>4. saveReceipts' \in Seq([id : Nat, saved : SUBSET Tables])
    BY <1>14, <2>3, AppendProperties DEF CompleteSave, AcceptSaveResult, TypeOK
  <2>5. awaitingSave' \subseteq Tables /\ pending' = NoOperation /\ UNCHANGED <<draft, applyReceipts>>
    BY <1>14 DEF CompleteSave, AcceptSaveResult, TypeOK
  <2> QED
    BY <1>14, <2>1, <2>2, <2>4, <2>5 DEF CompleteSave, TypeOK, draft
<1>15. ASSUME NEW c \in Callers, RefuseAnswer(c) PROVE TypeOK'
  <2>1. AfterFailure(calls[c]) \in Call
    BY <1>15, <1>0, AfterFailureType DEF RefuseAnswer
  <2> QED
    BY <1>15, <1>0, <2>1, EditorUnchanged DEF RefuseAnswer, TypeOK, document
<1>16. ASSUME NEW c \in Callers, ConnectionFails(c) PROVE TypeOK'
  <2>1. AfterFailure(calls[c]) \in Call
    BY <1>16, <1>0, AfterFailureType DEF ConnectionFails
  <2> QED
    BY <1>16, <1>0, <2>1, EditorUnchanged DEF ConnectionFails, TypeOK, document
<1>17. ASSUME NEW c \in Callers, MarkIndeterminate(c) PROVE TypeOK'
  <2>1. EditorTypeOK'
    BY <1>17, <1>0, EditorUnchanged DEF MarkIndeterminate
  <2>2. calls[c].kind \in {"apply", "lookup", "save"}
    BY <1>17, <1>0, CallType DEF MarkIndeterminate
  <2>3. pending' \in {NoOperation} \cup PendingApply \cup PendingSave
    <3>1. pending \in {NoOperation} \cup PendingApply \cup PendingSave
      BY DEF TypeOK
    <3>2. CASE pending \in PendingApply \cup PendingSave
      BY <1>17, <3>2 DEF MarkIndeterminate, PendingApply, PendingSave
    <3>3. CASE pending = NoOperation
      BY <1>17, <2>2, <3>3 DEF MarkIndeterminate, NoOperation
    <3> QED
      BY <3>1, <3>2, <3>3
  <2>4. calls' \in [Callers -> Call]
    BY <1>17, <1>0, CallIntro DEF MarkIndeterminate
  <2> QED
    BY <1>17, <2>1, <2>3, <2>4 DEF MarkIndeterminate, TypeOK, draft
<1>18. ASSUME NEW m \in wire, LoseRequest(m) PROVE TypeOK'
  BY <1>18, <1>0, EditorUnchanged DEF LoseRequest, Fault, TypeOK, document
<1>19. ASSUME NEW c \in Callers, GiveUp(c) PROVE TypeOK'
  <2>1. AfterFailure(calls[c]) \in Call
    BY <1>19, <1>0, AfterFailureType DEF GiveUp
  <2>2. wire' \subseteq Message
    BY <1>19, AbandonType DEF GiveUp
  <2> QED
    BY <1>19, <1>0, <2>1, <2>2, EditorUnchanged DEF GiveUp, Fault, TypeOK, document
<1>20. ASSUME NEW c \in Callers, MarkFails(c) PROVE TypeOK'
  <2>1. calls' \in [Callers -> Call]
    BY <1>20, <1>0, CallIntro DEF MarkFails
  <2> QED
    BY <1>20, <1>0, <2>1, EditorUnchanged DEF MarkFails, Fault, TypeOK, document
<1>21. CASE ServiceRestart
  <2>1. wire' \subseteq Message
    BY <1>21, AbandonType DEF ServiceRestart
  <2>2. calls' \in [Callers -> Call]
    BY <1>21, <1>0, CallIntro DEF ServiceRestart
  <2> QED
    BY <1>21, <1>0, <2>1, <2>2, EditorUnchanged DEF ServiceRestart, TypeOK, document
<1>22. ASSUME NEW t \in Tables, NEW v \in Values, OutsideEdit(t, v) PROVE TypeOK'
  <2>1. EditorTypeOK'
    BY <1>22, <1>0 DEF OutsideEdit, PersonEdits, EditorTypeOK
  <2> QED
    BY <1>22, <2>1 DEF OutsideEdit, Outside, TypeOK, document
<1>23. ASSUME NEW t \in Tables, OutsideSave(t) PROVE TypeOK'
  <2>1. EditorTypeOK'
    BY <1>23, <1>0 DEF OutsideSave, PersonSaves, EditorTypeOK
  <2> QED
    BY <1>23, <2>1 DEF OutsideSave, Outside, TypeOK, document
<1>24. ASSUME NEW t \in Tables, NEW v \in Values, OutsideApply(t, v) PROVE TypeOK'
  <2>1. nextId' \in Nat /\ OtherClientApplies(nextId', t, v)
    BY <1>24, <1>0 DEF OutsideApply
  <2>2. live' \in [Tables -> Values]
    BY <1>0, <2>1 DEF OtherClientApplies, EditorTypeOK
  <2> DEFINE entry == [request |-> [id |-> nextId', commands |-> <<>>, expected |-> SnapshotOf(live, {t})],
                       result  |-> [id |-> nextId', status |-> "committed",
                                    snapshots |-> SnapshotOf(live', {t})]]
  <2>3. entry.result \in ApplyResults
    BY <2>1, <2>2, SnapshotType DEF ApplyResults, ApplyStatus
  <2>4. Remember(entry)
    BY <2>1 DEF OtherClientApplies
  <2>5. EditorTypeOK'
    <3> HIDE DEF entry
    <3>1. /\ resultOrder' \in Seq(Nat)
          /\ DOMAIN results' = {resultOrder'[k] : k \in DOMAIN resultOrder'}
          /\ \A id \in DOMAIN results' : results'[id].result \in ApplyResults /\ results'[id].result.id = id
      BY <1>0, <2>3, <2>4, RememberType
    <3> QED
      BY <1>0, <2>1, <2>2, <3>1 DEF OtherClientApplies, EditorTypeOK
  <2> QED
    BY <1>24, <2>1, <2>5 DEF OutsideApply, Outside, TypeOK, document
<1>25. CASE RestartEditor
  <2>1. EditorTypeOK'
    BY <1>25, <1>0 DEF RestartEditor, EditorRestart, EditorTypeOK
  <2> QED
    BY <1>25, <2>1 DEF RestartEditor, TypeOK, document
<1>26. CASE UNCHANGED vars
  BY <1>26, <1>0, EditorUnchanged DEF vars, TypeOK, document
<1> QED
  BY <1>1, <1>2, <1>3, <1>4, <1>5, <1>6, <1>7, <1>8, <1>9, <1>10, <1>11, <1>12, <1>13, <1>14,
     <1>15, <1>16, <1>17, <1>18, <1>19, <1>20, <1>21, <1>22, <1>23, <1>24, <1>25, <1>26
     DEF Next, Edits, Start, Continue, Execute, Faults, World

(* Every variable keeps its type: the editor, the document, the calls and  *)
(* the messages are what the code can hold, whatever is lost or restarted. *)
THEOREM TypeCorrect == Spec => []TypeOK
BY InitType, StepType, PTL DEF Spec

-----------------------------------------------------------------------------
(* SessionInv is inductive.  First, what leaves its parts alone.           *)

SamePending ==
    /\ pending'.kind = pending.kind
    /\ pending.kind # "none" => pending'.request = pending.request

(* What a pending operation holds, by its kind                             *)
LEMMA PendingType ==
    ASSUME TypeOK
    PROVE  /\ pending.kind \in {"none", "apply", "save"}
           /\ pending.kind = "apply" => pending.request \in ApplyRequests
           /\ pending.kind = "save" => pending.request \in SaveRequests
           /\ pending.kind # "none" => pending.request.id \in Nat
BY DEF TypeOK, NoOperation, PendingApply, PendingSave, ApplyRequests, SaveRequests

(* A step that leaves the batches run, the receipts and the pending        *)
(* request alone keeps the parts about receipts.                           *)
LEMMA KeepReceipts ==
    ASSUME SessionInv, SamePending, UNCHANGED <<applied, applyReceipts>>
    PROVE  AtMostOnce' /\ ReceiptsAreTrue' /\ CommitsAreRecorded' /\ PendingIsNotRecorded'
<1>1. AtMostOnce'
  BY DEF SessionInv, AtMostOnce
<1>2. ReceiptsAreTrue'
  BY DEF SessionInv, ReceiptsAreTrue
<1>3. CommitsAreRecorded'
  BY DEF SessionInv, CommitsAreRecorded, SamePending
<1>4. PendingIsNotRecorded'
  BY DEF SessionInv, PendingIsNotRecorded, SamePending
<1> QED
  BY <1>1, <1>2, <1>3, <1>4

(* So it does for what is unsaved and awaited.                             *)
LEMMA KeepOwed ==
    ASSUME SessionInv, SamePending, UNCHANGED <<applied, awaitingSave>>, unsaved' \subseteq unsaved
    PROVE  UnsavedIsOwed'
BY DEF SessionInv, UnsavedIsOwed, SamePending, HasRun

(* And for the request of the pending Apply, if the draft stays as well    *)
LEMMA KeepDraft ==
    ASSUME SessionInv, SamePending, UNCHANGED <<base, commands, undoPointer>>
    PROVE  PendingApplyIsTheDraft'
BY DEF SessionInv, PendingApplyIsTheDraft, SamePending, ApplyRequestFor, ActiveCommands, TouchedTables

(* A request that some caller or message carries already                   *)
Known(kind, request) ==
    \/ \E c \in Callers : calls[c].phase # "idle" /\ calls[c].kind = kind /\ calls[c].request = request
    \/ \E m \in wire : m.kind = kind /\ m.request = request

(* Calls that end or fail and messages that disappear or lose their caller *)
(* disturb nothing.                                                        *)
Quieter ==
    /\ \A c \in Callers :
          \/ calls'[c] = calls[c]
          \/ calls'[c].phase = "idle"
          \/ calls'[c].phase = "failed" /\ Known(calls'[c].kind, calls'[c].request)
    /\ \A m \in wire' : \E n \in wire : m.kind = n.kind /\ m.request = n.request
    /\ \A m, n \in AppliesOnWire' : m = n

(* With fewer calls and messages about Apply, at most one of them is       *)
(* still unrun.                                                            *)
LEMMA QuieterKeeps ==
    ASSUME TypeOK, SessionInv, SamePending, Quieter, UNCHANGED <<applied, nextId>>,
           unsaved' \subseteq unsaved,
           \A id \in DOMAIN results' : id \in DOMAIN results /\ results'[id] = results[id]
    PROVE  OneUnrunApply' /\ IdsAreGenerated' /\ AnswersAreTrue' /\ SaveAnswersAreTrue'
<1>1. OneUnrunApply'
  <2>1. \A c \in Callers : AboutToApply(c)' => AboutToApply(c) /\ calls'[c] = calls[c]
    BY DEF Quieter, AboutToApply
  <2>2. \A m \in AppliesOnWire' : \E n \in AppliesOnWire : m.request = n.request
    BY DEF Quieter, AppliesOnWire
  <2>3. \A request : IsUnrun(request) => IsUnrun(request)'
    BY DEF IsUnrun, SamePending
  <2> QED
    BY <2>1, <2>2, <2>3 DEF SessionInv, OneUnrunApply, Quieter
<1>2. IdsAreGenerated'
  BY DEF SessionInv, IdsAreGenerated, SamePending, Quieter, Known
<1>3. AnswersAreTrue'
  <2>1. \A id : Asked(id)' => Asked(id)
    BY DEF Asked, IsPendingApply, SamePending, Quieter, Known
  <2> QED
    BY <2>1 DEF SessionInv, AnswersAreTrue, HasRun, Quieter
<1>4. SaveAnswersAreTrue'
  BY DEF SessionInv, SaveAnswersAreTrue, IsPendingSave, SamePending, Quieter
<1> QED
  BY <1>1, <1>2, <1>3, <1>4

(* A quiet step keeps the whole invariant.                                 *)
LEMMA QuietStep ==
    ASSUME TypeOK, SessionInv, SamePending, Quieter,
           UNCHANGED <<applied, nextId, applyReceipts, awaitingSave, base, commands, undoPointer>>,
           unsaved' \subseteq unsaved,
           \A id \in DOMAIN results' : id \in DOMAIN results /\ results'[id] = results[id]
    PROVE  SessionInv'
BY KeepReceipts, KeepOwed, KeepDraft, QuieterKeeps DEF SessionInv

(* Abandoning the messages of some callers makes nothing new.              *)
LEMMA QuieterAbandon ==
    ASSUME TypeOK, SessionInv, NEW S, Abandon(S)
    PROVE  /\ \A m \in wire' : \E n \in wire : m.kind = n.kind /\ m.request = n.request
           /\ \A m, n \in AppliesOnWire' : m = n
<1> DEFINE F(m) == IF m.from \in S THEN [m EXCEPT !.from = Nobody] ELSE m
<1>1. wire \subseteq Message
  BY DEF TypeOK
<1>2. \A n \in wire : F(n).kind = n.kind /\ F(n).request = n.request
  BY <1>1, MessageType
<1>3. \A m \in wire' : \E n \in wire : m = F(n)
  BY DEF Abandon
<1>4. \A m, n \in AppliesOnWire : m = n
  BY DEF SessionInv, OneUnrunApply
<1> HIDE DEF F
<1>5. \A m \in AppliesOnWire' : \E n \in AppliesOnWire : m = F(n)
  BY <1>2, <1>3 DEF AppliesOnWire
<1> QED
  BY <1>2, <1>3, <1>4, <1>5

(* Neither does taking a message off the wire,                             *)
LEMMA QuieterWire ==
    ASSUME SessionInv, wire' \subseteq wire
    PROVE  /\ \A m \in wire' : \E n \in wire : m.kind = n.kind /\ m.request = n.request
           /\ \A m, n \in AppliesOnWire' : m = n
BY DEF SessionInv, OneUnrunApply, AppliesOnWire

(* nor the failure of a call,                                              *)
LEMMA QuieterFailure ==
    ASSUME TypeOK, NEW c \in Callers, calls[c].phase # "idle",
           \/ calls' = [calls EXCEPT ![c] = AfterFailure(calls[c])]
           \/ calls' = [calls EXCEPT ![c] = IdleCall]
    PROVE  \A d \in Callers :
              \/ calls'[d] = calls[d]
              \/ calls'[d].phase = "idle"
              \/ calls'[d].phase = "failed" /\ Known(calls'[d].kind, calls'[d].request)
<1>1. calls \in [Callers -> Call]
  BY DEF TypeOK
<1>2. Known(calls[c].kind, calls[c].request)
  BY DEF Known
<1>3. \/ AfterFailure(calls[c]).phase = "idle"
      \/ /\ AfterFailure(calls[c]).phase = "failed"
         /\ AfterFailure(calls[c]).kind = calls[c].kind
         /\ AfterFailure(calls[c]).request = calls[c].request
  BY DEF AfterFailure, IdleCall
<1> QED
  BY <1>1, <1>2, <1>3 DEF IdleCall

(* nor an error as the answer to a message.                                *)
LEMMA QuieterError ==
    ASSUME TypeOK, SessionInv, NEW m \in wire, AnswerError(m)
    PROVE  Quieter
<1>1. calls \in [Callers -> Call] /\ m \in Message
  BY DEF TypeOK
<1>2. m.from # Nobody => m.from \in Callers
  BY <1>1, MessageType
<1>3. \A d \in Callers :
         \/ calls'[d] = calls[d]
         \/ calls'[d].phase = "idle"
         \/ calls'[d].phase = "failed" /\ Known(calls'[d].kind, calls'[d].request)
  BY <1>1, <1>2 DEF AnswerError, AfterFailure, IdleCall, Known
<1> QED
  BY <1>3, QuieterWire DEF AnswerError, Quieter

(* The actions that are quiet                                              *)
LEMMA QuietActions ==
    ASSUME TypeOK, SessionInv,
           \/ \E m \in wire : RefuseSave(m) \/ LoseRequest(m)
           \/ \E m \in wire : ExecuteLookup(m) /\ m.request.id \notin DOMAIN results
           \/ \E c \in Callers : RefuseAnswer(c) \/ ConnectionFails(c) \/ MarkIndeterminate(c)
           \/ \E c \in Callers : GiveUp(c) \/ MarkFails(c)
           \/ ServiceRestart
           \/ \E t \in Tables, v \in Values : OutsideEdit(t, v)
           \/ \E t \in Tables : OutsideSave(t)
           \/ RestartEditor
           \/ UNCHANGED vars
    PROVE  SessionInv'
<1> USE DEF document, draft, editorVars
<1>1. ASSUME NEW m \in wire, RefuseSave(m) PROVE SessionInv'
  BY <1>1, QuieterError, QuietStep DEF RefuseSave, SamePending
<1>2. ASSUME NEW m \in wire, LoseRequest(m) PROVE SessionInv'
  BY <1>2, QuieterWire, QuietStep DEF LoseRequest, SamePending, Quieter
<1>3. ASSUME NEW m \in wire, ExecuteLookup(m), m.request.id \notin DOMAIN results PROVE SessionInv'
  BY <1>3, QuieterError, QuietStep DEF ExecuteLookup, SamePending
<1>4. ASSUME NEW c \in Callers, RefuseAnswer(c) PROVE SessionInv'
  BY <1>4, QuieterWire, QuieterFailure, QuietStep DEF RefuseAnswer, SamePending, Quieter
<1>5. ASSUME NEW c \in Callers, ConnectionFails(c) PROVE SessionInv'
  BY <1>5, QuieterWire, QuieterFailure, QuietStep DEF ConnectionFails, SamePending, Quieter
<1>6. ASSUME NEW c \in Callers, MarkIndeterminate(c) PROVE SessionInv'
  <2>1. SamePending
    BY <1>6, CallType DEF MarkIndeterminate, SamePending, TypeOK, NoOperation, PendingApply, PendingSave
  <2> QED
    BY <1>6, <2>1, QuieterWire, QuieterFailure, QuietStep DEF MarkIndeterminate, Quieter
<1>7. ASSUME NEW c \in Callers, GiveUp(c) PROVE SessionInv'
  BY <1>7, QuieterAbandon, QuieterFailure, QuietStep DEF GiveUp, SamePending, Quieter
<1>8. ASSUME NEW c \in Callers, MarkFails(c) PROVE SessionInv'
  BY <1>8, QuieterWire, QuieterFailure, QuietStep DEF MarkFails, SamePending, Quieter
<1>9. CASE ServiceRestart
  BY <1>9, QuieterAbandon, QuietStep DEF ServiceRestart, SamePending, Quieter, IdleCall
<1>10. ASSUME NEW t \in Tables, NEW v \in Values, OutsideEdit(t, v) PROVE SessionInv'
  BY <1>10, QuieterWire, QuietStep DEF OutsideEdit, PersonEdits, SamePending, Quieter
<1>11. ASSUME NEW t \in Tables, OutsideSave(t) PROVE SessionInv'
  BY <1>11, QuieterWire, QuietStep DEF OutsideSave, PersonSaves, SamePending, Quieter
<1>12. CASE RestartEditor
  BY <1>12, QuieterWire, QuietStep DEF RestartEditor, EditorRestart, SamePending, Quieter
<1>13. CASE UNCHANGED vars
  BY <1>13, QuieterWire, QuietStep DEF vars, SamePending, Quieter
<1> QED
  BY <1>1, <1>2, <1>3, <1>4, <1>5, <1>6, <1>7, <1>8, <1>9, <1>10, <1>11, <1>12, <1>13

(* Drafting needs an idle session, where nothing depends on the draft.     *)
LEMMA EditsKeep ==
    ASSUME TypeOK, SessionInv, Edits
    PROVE  SessionInv'
<1>1. /\ Idle /\ UNCHANGED <<editorVars, awaitingSave, pending, applyReceipts, calls, wire, nextId>>
  BY DEF Edits, SetCell, Undo, Redo
<1>2. SamePending /\ Quieter
  BY <1>1, QuieterWire DEF SamePending, Quieter
<1>3. PendingApplyIsTheDraft'
  BY <1>1 DEF PendingApplyIsTheDraft, Idle
<1> QED
  BY <1>1, <1>2, <1>3, KeepReceipts, KeepOwed, QuieterKeeps DEF editorVars, SessionInv

(* Preparing an operation takes a new id.                                  *)
LEMMA PrepareKeeps ==
    ASSUME TypeOK, SessionInv, NEW c \in Callers, PrepareApply(c) \/ PrepareSave(c)
    PROVE  SessionInv'
<1>0. calls \in [Callers -> Call] /\ nextId \in Nat
  BY DEF TypeOK
<1>1. PICK kind \in {"apply", "save"},
          request \in {ApplyRequestFor(nextId + 1), SaveRequestFor(nextId + 1)} :
         /\ Idle /\ nextId' = nextId + 1 /\ request.id = nextId + 1
         /\ kind = "apply" => request = ApplyRequestFor(nextId + 1)
         /\ pending' = [kind |-> kind, request |-> request, status |-> "dispatching"]
         /\ calls' = [calls EXCEPT ![c] = [phase |-> "dispatch", kind |-> kind, request |-> request]]
         /\ UNCHANGED <<editorVars, draft, awaitingSave, applyReceipts, wire>>
  BY DEF PrepareApply, PrepareSave, Calling, ApplyRequestFor, SaveRequestFor
<1>3. \A d \in Callers : ~AboutToApply(d)
  BY <1>1 DEF SessionInv, OneUnrunApply, IsUnrun, Idle
<1>4. AppliesOnWire = {} /\ AppliesOnWire' = {}
  BY <1>1 DEF SessionInv, OneUnrunApply, IsUnrun, Idle, AppliesOnWire
<1>5. OneUnrunApply'
  <2>1. \A i \in DOMAIN applied : applied[i].id # nextId + 1
    BY <1>0 DEF SessionInv, IdsAreGenerated
  <2>2. \A d \in Callers : AboutToApply(d)' => d = c /\ kind = "apply"
    BY <1>0, <1>1, <1>3 DEF AboutToApply
  <2>3. kind = "apply" => IsUnrun(request)'
    BY <1>1, <2>1 DEF IsUnrun, editorVars
  <2> QED
    BY <1>0, <1>1, <1>4, <2>2, <2>3 DEF OneUnrunApply
<1>6. IdsAreGenerated'
  BY <1>0, <1>1 DEF SessionInv, IdsAreGenerated, editorVars
<1>7. AnswersAreTrue'
  <2>1. \A id \in DOMAIN results : Asked(id)' => Asked(id)
    <3>1. nextId + 1 \notin DOMAIN results
      BY <1>0 DEF SessionInv, IdsAreGenerated
    <3> QED
      BY <1>0, <1>1, <3>1 DEF Asked, IsPendingApply
  <2> QED
    BY <1>0, <1>1, <2>1 DEF SessionInv, AnswersAreTrue, HasRun, editorVars
<1>8. SaveAnswersAreTrue'
  BY <1>0, <1>1 DEF SessionInv, SaveAnswersAreTrue, IsPendingSave, IdsAreGenerated
<1>9. UnsavedIsOwed'
  BY <1>1 DEF SessionInv, UnsavedIsOwed, Idle, editorVars
<1>10. AtMostOnce' /\ ReceiptsAreTrue' /\ CommitsAreRecorded'
  BY <1>1 DEF SessionInv, AtMostOnce, ReceiptsAreTrue, CommitsAreRecorded, Idle, editorVars
<1>11. PendingIsNotRecorded'
  BY <1>0, <1>1 DEF SessionInv, PendingIsNotRecorded, ReceiptsAreTrue, IdsAreGenerated
<1>12. PendingApplyIsTheDraft'
  BY <1>1 DEF PendingApplyIsTheDraft, ApplyRequestFor, ActiveCommands, TouchedTables, draft
<1> QED
  BY <1>5, <1>6, <1>7, <1>8, <1>9, <1>10, <1>11, <1>12 DEF SessionInv

(* Saving again and reconciling ask about the pending operation.           *)
LEMMA RetryKeeps ==
    ASSUME TypeOK, SessionInv, NEW c \in Callers, RetrySave(c) \/ Reconcile(c)
    PROVE  SessionInv'
<1> DEFINE request == IF RetrySave(c) THEN pending.request ELSE [id |-> pending.request.id]
           kind    == IF RetrySave(c) THEN "save" ELSE "lookup"
<1>0. calls \in [Callers -> Call] /\ calls[c] = IdleCall
  BY DEF TypeOK, RetrySave, Reconcile
<1>1. /\ request.id = pending.request.id /\ pending.kind # "none"
      /\ kind = "lookup" => pending.kind = "apply"
      /\ kind \in {"lookup", "save"}
      /\ calls' = [calls EXCEPT ![c] = [phase |-> "dispatch", kind |-> kind, request |-> request]]
      /\ UNCHANGED <<editorVars, document, wire, nextId>>
  BY DEF RetrySave, Reconcile, Calling
<1> HIDE DEF request, kind
<1>2. SamePending
  BY <1>1 DEF SamePending, document
<1>3. OneUnrunApply'
  <2>1. \A d \in Callers : AboutToApply(d)' => AboutToApply(d) /\ calls'[d] = calls[d]
    BY <1>0, <1>1 DEF AboutToApply
  <2>2. \A r : IsUnrun(r)' = IsUnrun(r)
    BY <1>1 DEF IsUnrun, document, editorVars
  <2>3. AppliesOnWire' = AppliesOnWire
    BY <1>1 DEF AppliesOnWire
  <2> QED
    BY <2>1, <2>2, <2>3 DEF SessionInv, OneUnrunApply
<1>4. IdsAreGenerated'
  BY <1>0, <1>1 DEF SessionInv, IdsAreGenerated, editorVars, document
<1>5. AnswersAreTrue'
  <2>1. \A id : Asked(id)' => Asked(id)
    BY <1>0, <1>1 DEF Asked, IsPendingApply, document
  <2> QED
    BY <1>0, <1>1, <2>1 DEF SessionInv, AnswersAreTrue, HasRun, editorVars
<1>6. SaveAnswersAreTrue'
  BY <1>0, <1>1 DEF SessionInv, SaveAnswersAreTrue, IsPendingSave, editorVars, document
<1> QED
  BY <1>1, <1>2, <1>3, <1>4, <1>5, <1>6, KeepReceipts, KeepOwed, KeepDraft
     DEF SessionInv, editorVars, document, draft

(* Sending moves the request from the caller to the wire.                  *)
LEMMA SendKeeps ==
    ASSUME TypeOK, SessionInv, NEW c \in Callers, Send(c)
    PROVE  SessionInv'
<1> DEFINE m == [from |-> c, kind |-> calls[c].kind, request |-> calls[c].request]
<1>0. calls \in [Callers -> Call] /\ calls[c].phase = "dispatch"
  BY DEF TypeOK, Send
<1>1. /\ calls' = [calls EXCEPT ![c] = [phase |-> "waiting", kind |-> calls[c].kind, request |-> calls[c].request]]
      /\ wire' = wire \cup {m}
      /\ UNCHANGED <<editorVars, document, nextId>>
  BY DEF Send
<1>2. m.kind = calls[c].kind /\ m.request = calls[c].request
  OBVIOUS
<1> HIDE DEF m
<1>3. SamePending
  BY <1>1 DEF SamePending, document
<1>4. OneUnrunApply'
  <2>1. \A d \in Callers : AboutToApply(d)' => d # c /\ AboutToApply(d) /\ calls'[d] = calls[d]
    BY <1>0, <1>1 DEF AboutToApply
  <2>2. \A r : IsUnrun(r)' = IsUnrun(r)
    BY <1>1 DEF IsUnrun, document, editorVars
  <2>3. CASE AboutToApply(c)
    <3>1. AppliesOnWire' = {m} /\ IsUnrun(m.request)
      BY <1>1, <1>2, <2>3 DEF SessionInv, OneUnrunApply, AppliesOnWire, AboutToApply
    <3>2. \A d \in Callers : ~AboutToApply(d)'
      BY <2>1, <2>3 DEF SessionInv, OneUnrunApply
    <3> QED
      BY <2>2, <3>1, <3>2 DEF OneUnrunApply
  <2>4. CASE ~AboutToApply(c)
    <3>1. AppliesOnWire' = AppliesOnWire
      BY <1>0, <1>1, <1>2, <2>4 DEF AppliesOnWire, AboutToApply
    <3> QED
      BY <2>1, <2>2, <3>1 DEF SessionInv, OneUnrunApply
  <2> QED
    BY <2>3, <2>4
<1>5. IdsAreGenerated'
  BY <1>0, <1>1, <1>2 DEF SessionInv, IdsAreGenerated, editorVars, document
<1>6. AnswersAreTrue'
  <2>1. \A id : Asked(id)' => Asked(id)
    BY <1>0, <1>1, <1>2 DEF Asked, IsPendingApply, document
  <2> QED
    BY <1>0, <1>1, <2>1 DEF SessionInv, AnswersAreTrue, HasRun, editorVars
<1>7. SaveAnswersAreTrue'
  BY <1>0, <1>1 DEF SessionInv, SaveAnswersAreTrue, IsPendingSave, editorVars, document
<1> QED
  BY <1>1, <1>3, <1>4, <1>5, <1>6, <1>7, KeepReceipts, KeepOwed, KeepDraft
     DEF SessionInv, editorVars, document, draft

(* The editor runs a batch for the first time, even if late: the cache     *)
(* cannot know its id.                                                     *)
LEMMA ExecuteApplyIsFirst ==
    ASSUME TypeOK, SessionInv, NEW m \in wire, m.kind = "apply"
    PROVE  IsUnrun(m.request) /\ m.request.id \notin DOMAIN results
<1>1. IsUnrun(m.request)
  BY DEF SessionInv, OneUnrunApply, AppliesOnWire
<1>2. Asked(m.request.id)
  BY DEF Asked
<1> QED
  BY <1>1, <1>2 DEF SessionInv, AnswersAreTrue, HasRun, IsUnrun

(* Running a batch keeps the invariant: what it commits is owed by the     *)
(* pending Apply.                                                          *)
LEMMA ExecuteApplyKeeps ==
    ASSUME TypeOK, SessionInv, NEW m \in wire, ExecuteApply(m)
    PROVE  SessionInv'
<1>0. /\ m.kind = "apply" /\ m \in Message /\ m.request \in ApplyRequests
      /\ calls \in [Callers -> Call] /\ nextId \in Nat
      /\ EditorTypeOK
      /\ m.from # Nobody => m.from \in Callers
  BY MessageType DEF ExecuteApply, TypeOK
<1>1. IsUnrun(m.request) /\ m.request.id \notin DOMAIN results
  BY <1>0, ExecuteApplyIsFirst
<1>2. PICK o \in Outcomes(m.request) : EditorApply(m.request, o) /\ Answer(m, o.result)
  BY DEF ExecuteApply
<1>3. o.result \in ApplyResults /\ o.result.id = m.request.id
  BY <1>0, OutcomeType
<1> DEFINE entry == [request |-> m.request, result |-> o.result]
           run   == [id |-> m.request.id, status |-> o.result.status]
<1>4. /\ applied' = Append(applied, run)
      /\ unsaved' = IF o.result.status = "committed"
                    THEN unsaved \cup DOMAIN m.request.expected ELSE unsaved
      /\ UNCHANGED <<document, nextId>>
  BY <1>1, <1>2 DEF EditorApply, ExecuteApply
<1>5. /\ applied' \in Seq([id : Nat, status : ApplyStatus])
      /\ DOMAIN applied' = DOMAIN applied \cup {Len(applied) + 1}
      /\ Len(applied) + 1 \notin DOMAIN applied
      /\ \A i \in DOMAIN applied : applied'[i] = applied[i]
      /\ applied'[Len(applied) + 1] = run
  <2>1. run \in [id : Nat, status : ApplyStatus]
    BY <1>0, <1>3, RequestDomain DEF ApplyResults
  <2>2. applied \in Seq([id : Nat, status : ApplyStatus])
    BY <1>0 DEF EditorTypeOK
  <2> HIDE DEF run
  <2> QED
    BY <1>4, <2>1, <2>2, AppendProperties
<1>6. /\ \A id \in DOMAIN results' : id = m.request.id \/ (id \in DOMAIN results /\ results'[id] = results[id])
      /\ m.request.id \in DOMAIN results' => results'[m.request.id].result = o.result
  <2>1. Remember(entry) /\ entry.result = o.result /\ entry.result \in ApplyResults
    BY <1>1, <1>2, <1>3 DEF EditorApply
  <2>2. entry.result.id = m.request.id
    BY <1>3
  <2> HIDE DEF entry
  <2>3. /\ \A id \in DOMAIN results' :
              results'[id] = IF id = entry.result.id THEN entry ELSE results[id]
        /\ DOMAIN results' \subseteq DOMAIN results \cup {entry.result.id}
    BY <1>0, <2>1, RememberType
  <2>4. /\ \A id \in DOMAIN results' :
              results'[id] = IF id = m.request.id THEN entry ELSE results[id]
        /\ DOMAIN results' \subseteq DOMAIN results \cup {m.request.id}
    BY <2>2, <2>3
  <2> QED
    BY <2>1, <2>4
<1>7. /\ wire' = wire \ {m}
      /\ \A d \in Callers :
            \/ calls'[d] = calls[d]
            \/ calls'[d] = [phase |-> "answered", kind |-> "apply", request |-> m.request, result |-> o.result]
  BY <1>0, <1>2 DEF Answer
<1>8. /\ pending.kind = "apply" /\ pending.request = m.request
      /\ \A i \in DOMAIN applied : applied[i].id # m.request.id
      /\ UNCHANGED <<pending, awaitingSave, applyReceipts, base, commands, undoPointer>>
  BY <1>1, <1>4 DEF IsUnrun, document
<1>9. /\ \A id, status : HasRun(id, status) => HasRun(id, status)'
      /\ HasRun(m.request.id, o.result.status)'
  BY <1>5 DEF HasRun
<1> HIDE DEF entry
<1>10. OneUnrunApply'
  <2>1. AppliesOnWire' = {}
    BY <1>0, <1>7 DEF SessionInv, OneUnrunApply, AppliesOnWire
  <2>2. \A d \in Callers : ~AboutToApply(d)
    BY <1>0 DEF SessionInv, OneUnrunApply, AppliesOnWire
  <2>3. \A d \in Callers : ~AboutToApply(d)'
    BY <1>7, <2>2 DEF AboutToApply
  <2> QED
    BY <2>1, <2>3 DEF OneUnrunApply
<1>11. m.request.id \in 1..nextId
  BY DEF SessionInv, IdsAreGenerated
<1>12. IdsAreGenerated'
  BY <1>3, <1>4, <1>5, <1>6, <1>7, <1>8, <1>11 DEF SessionInv, IdsAreGenerated
<1>13. AnswersAreTrue'
  <2>1. \A id : Asked(id)' => Asked(id)
    BY <1>0, <1>7, <1>8 DEF Asked, IsPendingApply
  <2>2. \A d \in Callers : calls'[d].phase = "answered" /\ calls'[d].kind # "save" =>
           \E i \in DOMAIN applied' :
              applied'[i] = [id |-> calls'[d].result.id, status |-> calls'[d].result.status]
    <3> TAKE d \in Callers
    <3>1. CASE calls'[d] = calls[d]
      BY <1>5, <3>1 DEF SessionInv, AnswersAreTrue, HasRun
    <3>2. CASE calls'[d] = [phase |-> "answered", kind |-> "apply", request |-> m.request, result |-> o.result]
      BY <1>3, <1>5, <3>2
    <3> QED
      BY <1>7, <3>1, <3>2
  <2> QED
    BY <1>6, <1>9, <2>1, <2>2 DEF SessionInv, AnswersAreTrue, HasRun
<1>14. SaveAnswersAreTrue'
  BY <1>8 DEF SaveAnswersAreTrue, IsPendingSave
<1>15. UnsavedIsOwed'
  BY <1>4, <1>8, <1>9 DEF SessionInv, UnsavedIsOwed, HasRun
<1>16. AtMostOnce'
  BY <1>5, <1>8 DEF SessionInv, AtMostOnce
<1>17. ReceiptsAreTrue' /\ PendingIsNotRecorded'
  BY <1>5, <1>8 DEF SessionInv, ReceiptsAreTrue, PendingIsNotRecorded
<1>18. CommitsAreRecorded'
  BY <1>5, <1>8 DEF SessionInv, CommitsAreRecorded
<1>19. PendingApplyIsTheDraft'
  BY <1>8, KeepDraft DEF SamePending
<1> QED
  BY <1>10, <1>12, <1>13, <1>14, <1>15, <1>16, <1>17, <1>18, <1>19 DEF SessionInv

(* What else a message can be answered with, and the calls it leaves       *)
LEMMA AnswerKeeps ==
    ASSUME TypeOK, SessionInv, NEW m \in wire, NEW result, Answer(m, result), m.kind # "apply",
           result.id = m.request.id,
           m.kind = "lookup" => HasRun(result.id, result.status),
           m.kind = "save" => result.saved \cap unsaved' = {},
           UNCHANGED <<document, nextId, applied, results>>,
           unsaved' \subseteq unsaved
    PROVE  SessionInv'
<1>0. m \in Message /\ (m.from # Nobody => m.from \in Callers) /\ calls \in [Callers -> Call]
  BY MessageType DEF TypeOK
<1>1. /\ wire' = wire \ {m}
      /\ \A d \in Callers :
            \/ calls'[d] = calls[d]
            \/ calls'[d] = [phase |-> "answered", kind |-> m.kind, request |-> m.request, result |-> result]
  BY <1>0 DEF Answer
<1>2. SamePending /\ UNCHANGED <<pending, applyReceipts, awaitingSave, base, commands, undoPointer>>
  BY DEF SamePending, document
<1>3. OneUnrunApply'
  <2>1. \A d \in Callers : AboutToApply(d)' => AboutToApply(d) /\ calls'[d] = calls[d]
    BY <1>1 DEF AboutToApply
  <2>2. \A request : IsUnrun(request)' = IsUnrun(request)
    BY <1>2 DEF IsUnrun
  <2>3. AppliesOnWire' = AppliesOnWire
    BY <1>1 DEF AppliesOnWire
  <2> QED
    BY <2>1, <2>2, <2>3 DEF SessionInv, OneUnrunApply
<1>4. IdsAreGenerated'
  BY <1>1, <1>2 DEF SessionInv, IdsAreGenerated
<1>5. AnswersAreTrue'
  <2>1. \A id : Asked(id)' => Asked(id)
    BY <1>1, <1>2 DEF Asked, IsPendingApply
  <2>2. \A d \in Callers : calls'[d].phase = "answered" /\ calls'[d].kind # "save" =>
           HasRun(calls'[d].result.id, calls'[d].result.status)
    BY <1>0, <1>1, MessageType DEF SessionInv, AnswersAreTrue
  <2> QED
    BY <2>1, <2>2 DEF SessionInv, AnswersAreTrue, HasRun
<1>6. SaveAnswersAreTrue'
  BY <1>1, <1>2 DEF SessionInv, SaveAnswersAreTrue, IsPendingSave
<1> QED
  BY <1>2, <1>3, <1>4, <1>5, <1>6, KeepReceipts, KeepOwed, KeepDraft DEF SessionInv

(* A Save answers with tables that are on disk now.                        *)
LEMMA ExecuteSaveKeeps ==
    ASSUME TypeOK, SessionInv, NEW m \in wire, ExecuteSave(m)
    PROVE  SessionInv'
<1>1. PICK written \in SUBSET m.request.paths :
         /\ EditorSave(m.request, written)
         /\ Answer(m, [id |-> m.request.id, saved |-> written, failed |-> m.request.paths \ written])
  BY DEF ExecuteSave
<1>2. /\ m.kind = "save" /\ UNCHANGED <<document, nextId, applied, results>>
      /\ unsaved' = unsaved \ written
  BY <1>1 DEF ExecuteSave, EditorSave
<1> QED
  BY <1>1, <1>2, AnswerKeeps

(* A lookup answers with what the cache holds, which is what the editor    *)
(* did.                                                                    *)
LEMMA LookupKeeps ==
    ASSUME TypeOK, SessionInv, NEW m \in wire, ExecuteLookup(m), m.request.id \in DOMAIN results
    PROVE  SessionInv'
<1> DEFINE result == results[m.request.id].result
<1>1. m.kind = "lookup" /\ Answer(m, result) /\ UNCHANGED <<editorVars, document, nextId>>
  BY DEF ExecuteLookup
<1>2. result.id = m.request.id
  BY DEF TypeOK, EditorTypeOK
<1>3. Asked(m.request.id)
  BY <1>1 DEF Asked
<1>4. HasRun(result.id, result.status)
  BY <1>2, <1>3 DEF SessionInv, AnswersAreTrue
<1> HIDE DEF result
<1> QED
  BY <1>1, <1>2, <1>4, AnswerKeeps DEF editorVars

(* Recording the answer to an Apply ends the operation; nothing of it can  *)
(* still be on its way.                                                    *)
LEMMA CompleteApplyKeeps ==
    ASSUME TypeOK, SessionInv, NEW c \in Callers, CompleteApply(c)
    PROVE  SessionInv'
<1> DEFINE result == calls[c].result
           entry  == [id |-> result.id, status |-> result.status]
<1>0. calls \in [Callers -> Call] /\ result \in ApplyResults
  BY CallType DEF TypeOK, CompleteApply
<1>1. /\ IsPendingApply(result.id) /\ HasRun(result.id, result.status)
      /\ pending' = NoOperation
      /\ applyReceipts' = Append(applyReceipts, entry)
      /\ awaitingSave' = IF result.status = "committed"
                         THEN awaitingSave \cup DOMAIN pending.request.expected ELSE awaitingSave
      /\ calls' = [calls EXCEPT ![c] = IdleCall]
      /\ UNCHANGED <<editorVars, wire, nextId>>
  BY DEF CompleteApply, AcceptApplyResult, Acceptable, IsPendingApply, SessionInv, AnswersAreTrue
<1>2. PICK k \in DOMAIN applied : applied[k] = entry
  BY <1>1 DEF HasRun
<1>3. /\ DOMAIN applyReceipts' = DOMAIN applyReceipts \cup {Len(applyReceipts) + 1}
      /\ Len(applyReceipts) + 1 \notin DOMAIN applyReceipts
      /\ \A r \in DOMAIN applyReceipts : applyReceipts'[r] = applyReceipts[r]
      /\ applyReceipts'[Len(applyReceipts) + 1] = entry
  <2>1. applyReceipts \in Seq([id : Nat, status : ApplyStatus]) /\ entry \in [id : Nat, status : ApplyStatus]
    BY <1>0 DEF TypeOK, ApplyResults
  <2> HIDE DEF entry
  <2> QED
    BY <1>1, <2>1, AppendProperties
<1>4. entry.id = result.id /\ entry.status = result.status /\ pending.kind = "apply" /\ pending.request.id = result.id
  BY <1>1 DEF IsPendingApply
<1> HIDE DEF entry, result
<1>5. \A request : ~IsUnrun(request)
  BY <1>2, <1>4 DEF IsUnrun
<1>6. OneUnrunApply'
  BY <1>0, <1>1, <1>5 DEF SessionInv, OneUnrunApply, AppliesOnWire, AboutToApply, IdleCall
<1>7. IdsAreGenerated'
  BY <1>0, <1>1 DEF SessionInv, IdsAreGenerated, editorVars, NoOperation, IdleCall
<1>8. AnswersAreTrue'
  <2>1. \A id : Asked(id)' => Asked(id)
    BY <1>0, <1>1 DEF Asked, IsPendingApply, NoOperation, IdleCall
  <2> QED
    BY <1>0, <1>1, <2>1 DEF SessionInv, AnswersAreTrue, HasRun, editorVars, IdleCall
<1>9. SaveAnswersAreTrue' /\ PendingApplyIsTheDraft' /\ PendingIsNotRecorded'
  BY <1>1 DEF SaveAnswersAreTrue, IsPendingSave, PendingApplyIsTheDraft, PendingIsNotRecorded, NoOperation
<1>10. UnsavedIsOwed'
  <2>1. \A i \in DOMAIN applied : applied[i].id = result.id => applied[i].status = result.status
    BY <1>2, <1>4 DEF SessionInv, AtMostOnce
  <2>2. HasRun(result.id, "committed") => result.status = "committed"
    BY <2>1 DEF HasRun
  <2> QED
    BY <1>1, <1>4, <2>2 DEF SessionInv, UnsavedIsOwed, editorVars
<1>11. AtMostOnce'
  BY <1>1 DEF SessionInv, AtMostOnce, editorVars
<1>12. ReceiptsAreTrue'
  BY <1>1, <1>2, <1>3, <1>4 DEF SessionInv, ReceiptsAreTrue, PendingIsNotRecorded, editorVars
<1>13. CommitsAreRecorded'
  <2>1. ASSUME NEW i \in DOMAIN applied
        PROVE  \E r \in DOMAIN applyReceipts' : applyReceipts'[r] = applied[i]
    <3>1. CASE applied[i].id = result.id
      BY <1>2, <1>3, <1>4, <3>1 DEF SessionInv, AtMostOnce
    <3>2. CASE applied[i].id # result.id
      BY <1>3, <1>4, <3>2 DEF SessionInv, CommitsAreRecorded
    <3> QED
      BY <3>1, <3>2
  <2> QED
    BY <1>1, <2>1 DEF CommitsAreRecorded, editorVars
<1> QED
  BY <1>6, <1>7, <1>8, <1>9, <1>10, <1>11, <1>12, <1>13 DEF SessionInv

(* Recording the answer to a Save settles only tables with nothing left    *)
(* to lose.                                                                *)
LEMMA CompleteSaveKeeps ==
    ASSUME TypeOK, SessionInv, NEW c \in Callers, CompleteSave(c)
    PROVE  SessionInv'
<1>0. calls \in [Callers -> Call]
  BY DEF TypeOK
<1>1. /\ calls[c].phase = "answered" /\ calls[c].kind = "save" /\ IsPendingSave(calls[c].result.id)
      /\ pending' = NoOperation
      /\ awaitingSave' = awaitingSave \ calls[c].result.saved
      /\ calls' = [calls EXCEPT ![c] = IdleCall]
      /\ UNCHANGED <<editorVars, draft, applyReceipts, wire, nextId>>
  BY DEF CompleteSave, AcceptSaveResult, AcceptableSave, IsPendingSave
<1>2. \A request : ~IsUnrun(request)
  BY <1>1 DEF IsUnrun, IsPendingSave
<1>3. OneUnrunApply'
  BY <1>0, <1>1, <1>2 DEF SessionInv, OneUnrunApply, AppliesOnWire, AboutToApply, IdleCall
<1>4. IdsAreGenerated'
  BY <1>0, <1>1 DEF SessionInv, IdsAreGenerated, editorVars, NoOperation, IdleCall
<1>5. AnswersAreTrue'
  <2>1. \A id : Asked(id)' => Asked(id)
    BY <1>0, <1>1 DEF Asked, IsPendingApply, NoOperation, IdleCall
  <2> QED
    BY <1>0, <1>1, <2>1 DEF SessionInv, AnswersAreTrue, HasRun, editorVars, IdleCall
<1>6. SaveAnswersAreTrue' /\ PendingApplyIsTheDraft' /\ PendingIsNotRecorded'
  BY <1>1 DEF SaveAnswersAreTrue, IsPendingSave, PendingApplyIsTheDraft, PendingIsNotRecorded, NoOperation
<1>7. UnsavedIsOwed'
  BY <1>1 DEF SessionInv, UnsavedIsOwed, SaveAnswersAreTrue, IsPendingSave, editorVars
<1>8. AtMostOnce' /\ ReceiptsAreTrue' /\ CommitsAreRecorded'
  BY <1>1 DEF SessionInv, AtMostOnce, ReceiptsAreTrue, CommitsAreRecorded, IsPendingSave, editorVars
<1> QED
  BY <1>3, <1>4, <1>5, <1>6, <1>7, <1>8 DEF SessionInv

(* Another client's batch has an id the session never asks for.            *)
LEMMA OutsideApplyKeeps ==
    ASSUME TypeOK, SessionInv, NEW t \in Tables, NEW v \in Values, OutsideApply(t, v)
    PROVE  SessionInv'
<1>0. nextId \in Nat /\ EditorTypeOK
  BY DEF TypeOK
<1>1. nextId' = nextId + 1 /\ OtherClientApplies(nextId', t, v) /\ UNCHANGED <<document, calls, wire>>
  BY DEF OutsideApply
<1>2. SamePending /\ UNCHANGED <<pending, applied, unsaved, applyReceipts, awaitingSave, base, commands, undoPointer>>
  BY <1>1 DEF SamePending, document, OtherClientApplies
<1>3. /\ DOMAIN results' \subseteq DOMAIN results \cup {nextId + 1}
      /\ \A id \in DOMAIN results' : id # nextId + 1 => results'[id] = results[id]
  <2>1. PICK entry :
           /\ entry.result = [id |-> nextId', status |-> "committed", snapshots |-> SnapshotOf(live', {t})]
           /\ Remember(entry)
    BY <1>1 DEF OtherClientApplies
  <2>2. live' \in [Tables -> Values]
    BY <1>0, <1>1 DEF OtherClientApplies, EditorTypeOK
  <2>3. entry.result \in ApplyResults
    BY <1>0, <1>1, <2>1, <2>2, SnapshotType DEF ApplyResults, ApplyStatus
  <2>4. entry.result.id = nextId + 1
    BY <1>1, <2>1
  <2>5. /\ \A id \in DOMAIN results' :
              results'[id] = IF id = entry.result.id THEN entry ELSE results[id]
        /\ DOMAIN results' \subseteq DOMAIN results \cup {entry.result.id}
    BY <1>0, <2>1, <2>3, RememberType
  <2> QED
    BY <2>4, <2>5
<1>4. OneUnrunApply'
  BY <1>1, <1>2 DEF SessionInv, OneUnrunApply, AppliesOnWire, AboutToApply, IsUnrun
<1>5. IdsAreGenerated'
  BY <1>0, <1>1, <1>2, <1>3 DEF SessionInv, IdsAreGenerated
<1>6. AnswersAreTrue'
  <2>1. \A id : Asked(id)' => Asked(id) /\ id # nextId + 1
    BY <1>0, <1>1, <1>2 DEF SessionInv, IdsAreGenerated, Asked, IsPendingApply
  <2> QED
    BY <1>1, <1>2, <1>3, <2>1 DEF SessionInv, AnswersAreTrue, HasRun
<1>7. SaveAnswersAreTrue'
  BY <1>1, <1>2 DEF SessionInv, SaveAnswersAreTrue, IsPendingSave
<1> QED
  BY <1>2, <1>4, <1>5, <1>6, <1>7, KeepReceipts, KeepOwed, KeepDraft DEF SessionInv

(* Nothing has been run, recorded or sent at the start.                    *)
LEMMA InitInv == Init => SessionInv
<1> SUFFICES ASSUME Init PROVE SessionInv
  OBVIOUS
<1> USE DEF Init, EditorInit, NoOperation, IdleCall
<1>1. OneUnrunApply
  BY DEF OneUnrunApply, AboutToApply, AppliesOnWire
<1>2. IdsAreGenerated
  BY DEF IdsAreGenerated
<1>3. AnswersAreTrue /\ SaveAnswersAreTrue /\ UnsavedIsOwed
  BY DEF AnswersAreTrue, SaveAnswersAreTrue, UnsavedIsOwed
<1>4. AtMostOnce /\ ReceiptsAreTrue /\ CommitsAreRecorded
  BY DEF AtMostOnce, ReceiptsAreTrue, CommitsAreRecorded
<1>5. PendingIsNotRecorded /\ PendingApplyIsTheDraft
  BY DEF PendingIsNotRecorded, PendingApplyIsTheDraft
<1> QED
  BY <1>1, <1>2, <1>3, <1>4, <1>5 DEF SessionInv

(* Every action keeps the invariant.                                       *)
LEMMA StepInv == TypeOK /\ SessionInv /\ [Next]_vars => SessionInv'
<1> SUFFICES ASSUME TypeOK, SessionInv, [Next]_vars PROVE SessionInv'
  OBVIOUS
<1>1. CASE Edits
  BY <1>1, EditsKeep
<1>2. ASSUME NEW c \in Callers, Start(c) PROVE SessionInv'
  BY <1>2, PrepareKeeps, RetryKeeps DEF Start
<1>3. ASSUME NEW c \in Callers, Continue(c) PROVE SessionInv'
  BY <1>3, SendKeeps, CompleteApplyKeeps, CompleteSaveKeeps, QuietActions DEF Continue
<1>4. ASSUME NEW m \in wire, Execute(m) PROVE SessionInv'
  BY <1>4, ExecuteApplyKeeps, ExecuteSaveKeeps, LookupKeeps, QuietActions DEF Execute
<1>5. CASE Faults
  BY <1>5, QuietActions DEF Faults
<1>6. CASE World
  BY <1>6, OutsideApplyKeeps, QuietActions DEF World
<1>7. CASE UNCHANGED vars
  BY <1>7, QuietActions
<1> QED
  BY <1>1, <1>2, <1>3, <1>4, <1>5, <1>6, <1>7 DEF Next

(* The inductive invariant, on which the theorems below rest               *)
THEOREM InvariantCorrect == Spec => [](TypeOK /\ SessionInv)
<1>1. Init => TypeOK /\ SessionInv
  BY InitType, InitInv
<1>2. TypeOK /\ SessionInv /\ [Next]_vars => (TypeOK /\ SessionInv)'
  BY StepType, StepInv
<1> QED
  BY <1>1, <1>2, PTL DEF Spec

(* No batch of the session runs twice in the editor, for any number of     *)
(* callers, losses, restarts and retries.                                  *)
THEOREM AtMostOnceCorrect == Spec => []AtMostOnce
<1>1. SessionInv => AtMostOnce
  BY DEF SessionInv
<1> QED
  BY <1>1, InvariantCorrect, PTL

(* What the receipts say of a batch is what the editor did with it, and    *)
(* what the editor did is in the receipts or can be asked for.             *)
THEOREM ReceiptsCorrect == Spec => [](ReceiptsAreTrue /\ CommitsAreRecorded)
<1>1. SessionInv => ReceiptsAreTrue /\ CommitsAreRecorded
  BY DEF SessionInv
<1> QED
  BY <1>1, InvariantCorrect, PTL

(* A commit is never forgotten: its receipt is there, or its operation is  *)
(* still pending.                                                          *)
THEOREM CommitsCorrect == Spec => []CommitsAreRecorded
<1>1. SessionInv => CommitsAreRecorded
  BY DEF SessionInv
<1> QED
  BY <1>1, InvariantCorrect, PTL

(* A table with a committed batch that is not on disk is on the list of    *)
(* what to save, or in the plan of the pending Apply.                      *)
THEOREM UnsavedIsTrackedCorrect == Spec => []UnsavedIsTracked
<1>1. SessionInv => UnsavedIsTracked
  BY DEF SessionInv, UnsavedIsOwed, UnsavedIsTracked
<1> QED
  BY <1>1, InvariantCorrect, PTL

(* The pending Apply stays the draft that the session shows.               *)
THEOREM PendingApplyIsTheDraftCorrect == Spec => []PendingApplyIsTheDraft
<1>1. SessionInv => PendingApplyIsTheDraft
  BY DEF SessionInv
<1> QED
  BY <1>1, InvariantCorrect, PTL

-----------------------------------------------------------------------------
(* A batch that the editor runs is the draft, whole or not at all.         *)

(* A table that no command names is left as it is.                         *)
LEMMA AfterUntouched ==
    ASSUME NEW tables \in [Tables -> Values], NEW log \in Seq(Commands), NEW t \in Tables,
           \A k \in DOMAIN log : log[k].table # t
    PROVE  After(tables, log)[t] = tables[t]
<1>1. LastOn(log, Len(log), t) = {}
  BY DEF LastOn
<1> QED
  BY <1>1 DEF After, ValueAt

(* Restoring the tables of the plan undoes any prefix of its commands.     *)
LEMMA RestoreUndoes ==
    ASSUME NEW tables \in [Tables -> Values], NEW log \in Seq(Commands),
           NEW k \in 0..(Len(log) - 1), NEW plan \in SUBSET Tables,
           \A j \in DOMAIN log : log[j].table \in plan
    PROVE  RestoreTables(After(tables, SubSeq(log, 1, k)), SnapshotOf(tables, plan)) = tables
<1> DEFINE prefix == SubSeq(log, 1, k)
<1>1. prefix \in Seq(Commands) /\ \A j \in DOMAIN prefix : prefix[j] = log[j] /\ j \in DOMAIN log
  BY SubSeqProperties
<1> HIDE DEF prefix
<1>2. \A t \in Tables \ plan : After(tables, prefix)[t] = tables[t]
  BY <1>1, AfterUntouched
<1>3. \A t \in Tables :
         RestoreTables(After(tables, prefix), SnapshotOf(tables, plan))[t] = tables[t]
  BY <1>2 DEF RestoreTables, SnapshotOf
<1>4. RestoreTables(After(tables, prefix), SnapshotOf(tables, plan))
         = [t \in Tables |-> RestoreTables(After(tables, prefix), SnapshotOf(tables, plan))[t]]
  BY DEF RestoreTables
<1> QED
  BY <1>3, <1>4 DEF prefix

AdoptsWholeDraft ==
    \/ live' = live
    \/ \A t \in Tables :
          /\ live'[t] = IF t \in TouchedTables THEN WorkingTables[t] ELSE live[t]
          /\ t \in TouchedTables => live[t] = base[t]

(* A run of a batch changes nothing, or makes every table of the draft     *)
(* what the session shows.                                                 *)
LEMMA ExecuteApplyAdopts ==
    ASSUME TypeOK, SessionInv, NEW m \in wire, ExecuteApply(m)
    PROVE  AdoptsWholeDraft
<1>0. /\ m.kind = "apply" /\ m.request \in ApplyRequests
      /\ live \in [Tables -> Values] /\ base \in [Tables -> Values]
      /\ ActiveCommands \in Seq(Commands) /\ TouchedTables \in SUBSET Tables
  BY MessageType, PlanType DEF ExecuteApply, TypeOK, EditorTypeOK
<1>1. IsUnrun(m.request) /\ m.request.id \notin DOMAIN results
  BY <1>0, ExecuteApplyIsFirst
<1>2. m.request.commands = ActiveCommands /\ m.request.expected = SnapshotOf(base, TouchedTables)
  BY <1>1 DEF IsUnrun, SessionInv, PendingApplyIsTheDraft, ApplyRequestFor
<1>3. DOMAIN m.request.expected = TouchedTables
  BY <1>2 DEF SnapshotOf
<1>4. PICK o \in Outcomes(m.request) : live' = o.live
  BY DEF ExecuteApply, EditorApply
<1>5. \A k \in DOMAIN ActiveCommands : ActiveCommands[k].table \in TouchedTables
  BY DEF TouchedTables
<1>6. CASE \E t \in TouchedTables : live[t] # m.request.expected[t]
  BY <1>1, <1>3, <1>4, <1>6 DEF Outcomes, Outcome, AdoptsWholeDraft
<1>7. CASE \A t \in TouchedTables : live[t] = m.request.expected[t]
  <2>1. \A t \in TouchedTables : live[t] = base[t]
    BY <1>2, <1>7 DEF SnapshotOf
  <2>2. CASE o.live = After(live, ActiveCommands)
    <3>1. ASSUME NEW t \in Tables
          PROVE  o.live[t] = IF t \in TouchedTables THEN WorkingTables[t] ELSE live[t]
      <4>1. CASE t \in TouchedTables
        BY <1>0, <2>1, <2>2, <4>1 DEF WorkingTables, After, ValueAt
      <4>2. CASE t \notin TouchedTables
        BY <1>0, <1>5, <2>2, <4>2, AfterUntouched
      <4> QED
        BY <4>1, <4>2
    <3> QED
      BY <1>4, <2>1, <3>1 DEF AdoptsWholeDraft
  <2>3. ASSUME NEW k \in 0..(Len(ActiveCommands) - 1),
               o.live = RestoreTables(After(live, SubSeq(ActiveCommands, 1, k)), SnapshotOf(live, TouchedTables))
        PROVE  AdoptsWholeDraft
    <3>1. RestoreTables(After(live, SubSeq(ActiveCommands, 1, k)), SnapshotOf(live, TouchedTables)) = live
      BY <1>0, <1>5, RestoreUndoes
    <3> QED
      BY <1>4, <2>3, <3>1 DEF AdoptsWholeDraft
  <2>4. \/ o.live = live
        \/ o.live = After(live, ActiveCommands)
        \/ \E k \in 0..(Len(ActiveCommands) - 1) :
              o.live = RestoreTables(After(live, SubSeq(ActiveCommands, 1, k)), SnapshotOf(live, TouchedTables))
    BY <1>1, <1>2, <1>3, <1>7 DEF Outcomes, Outcome
  <2>5. CASE o.live = live
    BY <1>4, <2>5 DEF AdoptsWholeDraft
  <2> QED
    BY <2>2, <2>3, <2>4, <2>5
<1> QED
  BY <1>3, <1>6, <1>7

(* No other action adds to the batches the editor has run.                 *)
LEMMA OnlyApplyRuns ==
    ASSUME TypeOK, [Next]_vars, applied' # applied
    PROVE  \E m \in wire : ExecuteApply(m)
<1> USE DEF document, draft, editorVars
<1>1. CASE Edits
  BY <1>1 DEF Edits, SetCell, Undo, Redo
<1>2. ASSUME NEW c \in Callers, Start(c) PROVE FALSE
  BY <1>2 DEF Start, PrepareApply, PrepareSave, RetrySave, Reconcile
<1>3. ASSUME NEW c \in Callers, Continue(c) PROVE FALSE
  BY <1>3 DEF Continue, Send, CompleteApply, CompleteSave, RefuseAnswer, ConnectionFails, MarkIndeterminate
<1>4. ASSUME NEW m \in wire, ExecuteSave(m) \/ RefuseSave(m) \/ ExecuteLookup(m) PROVE FALSE
  BY <1>4 DEF ExecuteSave, EditorSave, RefuseSave, ExecuteLookup
<1>5. CASE Faults
  BY <1>5 DEF Faults, LoseRequest, GiveUp, MarkFails, ServiceRestart
<1>6. CASE World
  BY <1>6 DEF World, OutsideEdit, PersonEdits, OutsideSave, PersonSaves, OutsideApply, OtherClientApplies,
              RestartEditor, EditorRestart
<1>7. CASE UNCHANGED vars
  BY <1>7 DEF vars
<1> QED
  BY <1>1, <1>2, <1>3, <1>4, <1>5, <1>6, <1>7 DEF Next, Execute

(* Whenever the editor runs a batch, however late, either nothing changes  *)
(* or all the tables of the draft become what the session shows, from the  *)
(* values the session was drafted on.                                      *)
THEOREM AdoptionCorrect == Spec => EditorAdoptsWholeDraft
<1>1. TypeOK /\ SessionInv /\ [Next]_vars => [applied' # applied => AdoptsWholeDraft]_vars
  BY OnlyApplyRuns, ExecuteApplyAdopts
<1>2. Spec => [][applied' # applied => AdoptsWholeDraft]_vars
  BY <1>1, InvariantCorrect, PTL DEF Spec
<1> QED
  BY <1>2 DEF EditorAdoptsWholeDraft, AdoptsWholeDraft

-----------------------------------------------------------------------------
(* What is on disk when nobody else works in the editor.                   *)

PendingHasCommitted == pending.kind = "apply" /\ HasRun(pending.request.id, "committed")

(* Live tables are the base of the session, or its working state between a *)
(* commit and the receipt of it; and a table is on disk as it is in the    *)
(* editor unless a batch is still to save.                                 *)
DiskFollows ==
    /\ live = IF PendingHasCommitted THEN WorkingTables ELSE base
    /\ \A t \in Tables \ unsaved : disk[t] = live[t]

Undisturbed == outside = 0 /\ restarts = 0

DiskInv == Undisturbed => DiskFollows

LEMMA SameFollows ==
    ASSUME DiskFollows, SamePending,
           UNCHANGED <<live, disk, applied, unsaved, base, commands, undoPointer>>
    PROVE  DiskFollows'
<1>1. PendingHasCommitted' = PendingHasCommitted
  BY DEF PendingHasCommitted, HasRun, SamePending
<1>2. WorkingTables' = WorkingTables
  BY DEF WorkingTables, ActiveCommands
<1> QED
  BY <1>1, <1>2 DEF DiskFollows

(* Editing changes neither the base nor a table.                           *)
LEMMA EditsFollow ==
    ASSUME DiskFollows, Edits
    PROVE  DiskFollows'
<1>1. pending.kind = "none" /\ UNCHANGED <<live, disk, applied, unsaved, base, pending>>
  BY DEF Edits, SetCell, Undo, Redo, Idle, editorVars
<1>2. ~PendingHasCommitted /\ ~PendingHasCommitted'
  BY <1>1 DEF PendingHasCommitted
<1> QED
  BY <1>1, <1>2 DEF DiskFollows

(* A new Apply has an id the editor has not seen.                          *)
LEMMA StartFollows ==
    ASSUME TypeOK, SessionInv, DiskFollows, NEW c \in Callers, Start(c)
    PROVE  DiskFollows'
<1> USE DEF document, draft, editorVars
<1>1. CASE RetrySave(c) \/ Reconcile(c)
  BY <1>1, SameFollows DEF RetrySave, Reconcile, SamePending
<1>2. CASE PrepareApply(c) \/ PrepareSave(c)
  <2>1. pending.kind = "none" /\ UNCHANGED <<live, disk, applied, unsaved, base>>
    BY <1>2 DEF PrepareApply, PrepareSave, Idle
  <2>2. pending'.kind = "apply" => pending'.request.id = nextId + 1
    BY <1>2 DEF PrepareApply, PrepareSave, ApplyRequestFor
  <2>3. nextId \in Nat /\ \A i \in DOMAIN applied : applied[i].id \in 1..nextId
    BY DEF TypeOK, SessionInv, IdsAreGenerated
  <2>4. ~PendingHasCommitted /\ ~PendingHasCommitted'
    BY <2>1, <2>2, <2>3 DEF PendingHasCommitted, HasRun
  <2> QED
    BY <2>1, <2>4 DEF DiskFollows
<1> QED
  BY <1>1, <1>2 DEF Start

(* What an Apply does to the tables and leaves to save                     *)
LEMMA ExecuteApplyFollows ==
    ASSUME TypeOK, SessionInv, DiskFollows, NEW m \in wire, ExecuteApply(m)
    PROVE  DiskFollows'
<1>0. /\ m.kind = "apply" /\ m.request \in ApplyRequests
      /\ live \in [Tables -> Values] /\ base \in [Tables -> Values]
      /\ ActiveCommands \in Seq(Commands) /\ TouchedTables \in SUBSET Tables
  BY MessageType, PlanType DEF ExecuteApply, TypeOK, EditorTypeOK
<1>1. IsUnrun(m.request) /\ m.request.id \notin DOMAIN results
  BY <1>0, ExecuteApplyIsFirst
<1>2. m.request.commands = ActiveCommands /\ m.request.expected = SnapshotOf(base, TouchedTables)
  BY <1>1 DEF IsUnrun, SessionInv, PendingApplyIsTheDraft, ApplyRequestFor
<1>3. DOMAIN m.request.expected = TouchedTables
  BY <1>2 DEF SnapshotOf
<1>4. PICK o \in Outcomes(m.request) : EditorApply(m.request, o)
  BY DEF ExecuteApply
<1>5. /\ live' = o.live
      /\ applied' = Append(applied, [id |-> m.request.id, status |-> o.result.status])
      /\ unsaved' = IF o.result.status = "committed" THEN unsaved \cup TouchedTables ELSE unsaved
      /\ UNCHANGED <<disk, document>>
  BY <1>1, <1>3, <1>4 DEF EditorApply, ExecuteApply
<1>6. ~PendingHasCommitted /\ live = base
  BY <1>1 DEF IsUnrun, PendingHasCommitted, HasRun, DiskFollows
<1>7. \A k \in DOMAIN ActiveCommands : ActiveCommands[k].table \in TouchedTables
  BY DEF TouchedTables
<1>8. o.result.status \in ApplyStatus
  BY <1>0, <1>1, <1>4, OutcomeType DEF TypeOK, ApplyResults
<1>9. PendingHasCommitted' <=> o.result.status = "committed"
  <2>1. /\ DOMAIN applied' = DOMAIN applied \cup {Len(applied) + 1}
        /\ \A i \in DOMAIN applied : applied'[i] = applied[i]
        /\ applied'[Len(applied) + 1] = [id |-> m.request.id, status |-> o.result.status]
    <3>1. applied \in Seq([id : Nat, status : ApplyStatus])
      BY DEF TypeOK, EditorTypeOK
    <3> QED
      BY <1>0, <1>5, <1>8, <3>1, AppendProperties DEF ApplyRequests
  <2> QED
    BY <1>1, <1>5, <2>1 DEF PendingHasCommitted, HasRun, IsUnrun, document
<1>10. WorkingTables' = WorkingTables /\ base' = base
  BY <1>5 DEF WorkingTables, ActiveCommands, document
<1>11. \/ o.result.status # "committed" /\ o.live = live
       \/ o.result.status = "committed" /\ o.live = After(live, ActiveCommands)
       \/ /\ o.result.status # "committed"
          /\ \E k \in 0..(Len(ActiveCommands) - 1) :
                o.live = RestoreTables(After(live, SubSeq(ActiveCommands, 1, k)), SnapshotOf(live, TouchedTables))
  BY <1>1, <1>2, <1>3, <1>4 DEF Outcomes, Outcome
<1>12. CASE o.result.status = "committed"
  <2>1. live' = WorkingTables /\ live' = After(live, ActiveCommands)
    BY <1>5, <1>6, <1>11, <1>12 DEF WorkingTables
  <2>2. \A t \in Tables \ TouchedTables : live'[t] = live[t]
    BY <1>0, <1>7, <2>1, AfterUntouched
  <2> QED
    BY <1>5, <1>9, <1>10, <1>12, <2>1, <2>2 DEF DiskFollows
<1>13. CASE o.result.status # "committed"
  <2>1. ASSUME NEW k \in 0..(Len(ActiveCommands) - 1)
        PROVE  RestoreTables(After(live, SubSeq(ActiveCommands, 1, k)), SnapshotOf(live, TouchedTables)) = live
    BY <1>0, <1>7, RestoreUndoes
  <2>2. live' = live
    BY <1>5, <1>11, <1>13, <2>1
  <2> QED
    BY <1>5, <1>6, <1>9, <1>10, <1>13, <2>2 DEF DiskFollows
<1> QED
  BY <1>12, <1>13

(* Recording a commit makes the base what the editor has.                  *)
LEMMA CompleteApplyFollows ==
    ASSUME TypeOK, SessionInv, DiskFollows, NEW c \in Callers, CompleteApply(c)
    PROVE  DiskFollows'
<1> DEFINE result == calls[c].result
<1>0. /\ base \in [Tables -> Values] /\ ActiveCommands \in Seq(Commands)
      /\ TouchedTables \in SUBSET Tables /\ WorkingTables \in [Tables -> Values]
  BY PlanType DEF TypeOK
<1>1. /\ pending.kind = "apply" /\ result.id = pending.request.id
      /\ HasRun(result.id, result.status)
      /\ pending' = NoOperation
      /\ UNCHANGED <<live, disk, applied, unsaved>>
  BY DEF CompleteApply, AcceptApplyResult, Acceptable, SessionInv, AnswersAreTrue, editorVars
<1>2. DOMAIN pending.request.expected = TouchedTables
  BY <1>1 DEF SessionInv, PendingApplyIsTheDraft, ApplyRequestFor, SnapshotOf
<1>3. ~PendingHasCommitted'
  BY <1>1 DEF PendingHasCommitted, NoOperation
<1>4. PendingHasCommitted <=> result.status = "committed"
  BY <1>1 DEF PendingHasCommitted, HasRun, SessionInv, AtMostOnce
<1>5. CASE result.status = "committed"
  <2>1. /\ DOMAIN result.snapshots = TouchedTables
        /\ \A t \in TouchedTables : result.snapshots[t] = WorkingTables[t]
        /\ base' = [t \in Tables |-> IF t \in DOMAIN result.snapshots THEN result.snapshots[t] ELSE base[t]]
    BY <1>2, <1>5 DEF CompleteApply, AcceptApplyResult, Acceptable
  <2>2. \A t \in Tables \ TouchedTables : WorkingTables[t] = base[t]
    BY <1>0, AfterUntouched DEF WorkingTables, TouchedTables
  <2>3. base' = WorkingTables
    BY <1>0, <2>1, <2>2
  <2> QED
    BY <1>1, <1>3, <1>4, <1>5, <2>3 DEF DiskFollows
<1>6. CASE result.status # "committed"
  <2>1. base' = base
    BY <1>6 DEF CompleteApply, AcceptApplyResult
  <2> QED
    BY <1>1, <1>3, <1>4, <1>6, <2>1 DEF DiskFollows
<1> QED
  BY <1>5, <1>6

(* The rest of the calls, and everything that can go wrong with them       *)
LEMMA OthersFollow ==
    ASSUME TypeOK, DiskFollows,
           \/ \E c \in Callers : \/ Send(c) \/ CompleteSave(c) \/ RefuseAnswer(c)
                                 \/ ConnectionFails(c) \/ MarkIndeterminate(c)
           \/ \E m \in wire : ExecuteSave(m) \/ RefuseSave(m) \/ ExecuteLookup(m)
           \/ Faults
           \/ UNCHANGED vars
    PROVE  DiskFollows'
<1> USE DEF document, draft, editorVars
<1>1. ASSUME NEW c \in Callers, Send(c) \/ RefuseAnswer(c) \/ ConnectionFails(c) PROVE DiskFollows'
  BY <1>1, SameFollows DEF Send, RefuseAnswer, ConnectionFails, SamePending
<1>2. ASSUME NEW c \in Callers, MarkIndeterminate(c) PROVE DiskFollows'
  <2>1. SamePending
    BY <1>2 DEF MarkIndeterminate, SamePending, TypeOK, NoOperation, PendingApply, PendingSave
  <2> QED
    BY <1>2, <2>1, SameFollows DEF MarkIndeterminate
<1>3. ASSUME NEW c \in Callers, CompleteSave(c) PROVE DiskFollows'
  <2>1. pending.kind = "save" /\ pending' = NoOperation /\ UNCHANGED <<live, disk, applied, unsaved, base>>
    BY <1>3 DEF CompleteSave, AcceptSaveResult, AcceptableSave
  <2> QED
    BY <2>1 DEF DiskFollows, PendingHasCommitted, NoOperation
<1>4. ASSUME NEW m \in wire, ExecuteSave(m) PROVE DiskFollows'
  <2>1. PICK written \in SUBSET m.request.paths : EditorSave(m.request, written) /\ UNCHANGED document
    BY <1>4 DEF ExecuteSave
  <2>2. /\ disk' = [t \in Tables |-> IF t \in written THEN live[t] ELSE disk[t]]
        /\ unsaved' = unsaved \ written
        /\ UNCHANGED <<live, applied, base, commands, undoPointer, pending>>
    BY <2>1 DEF EditorSave
  <2>3. PendingHasCommitted' = PendingHasCommitted /\ WorkingTables' = WorkingTables
    BY <2>2 DEF PendingHasCommitted, HasRun, WorkingTables, ActiveCommands
  <2> QED
    BY <2>2, <2>3 DEF DiskFollows
<1>5. ASSUME NEW m \in wire, RefuseSave(m) \/ ExecuteLookup(m) PROVE DiskFollows'
  BY <1>5, SameFollows DEF RefuseSave, ExecuteLookup, SamePending
<1>6. CASE Faults
  BY <1>6, SameFollows DEF Faults, LoseRequest, GiveUp, MarkFails, ServiceRestart, SamePending
<1>7. CASE UNCHANGED vars
  BY <1>7, SameFollows DEF vars, SamePending
<1> QED
  BY <1>1, <1>2, <1>3, <1>4, <1>5, <1>6, <1>7

(* Nothing but the world's own actions counts others and restarts.         *)
LEMMA StaysUndisturbed ==
    ASSUME TypeOK, [Next]_vars, Undisturbed'
    PROVE  Undisturbed /\ ~World
<1> USE DEF Undisturbed, counters, Outside
<1>0. outside \in Nat /\ restarts \in Nat
  BY DEF TypeOK
<1>1. ~World
  BY <1>0 DEF World, OutsideEdit, OutsideSave, OutsideApply, RestartEditor
<1>2. CASE Edits
  BY <1>1, <1>2 DEF Edits, SetCell, Undo, Redo
<1>3. ASSUME NEW c \in Callers, Start(c) PROVE Undisturbed
  BY <1>3 DEF Start, PrepareApply, PrepareSave, RetrySave, Reconcile
<1>4. ASSUME NEW c \in Callers, Continue(c) PROVE Undisturbed
  BY <1>4 DEF Continue, Send, CompleteApply, CompleteSave, RefuseAnswer, ConnectionFails, MarkIndeterminate
<1>5. ASSUME NEW m \in wire, Execute(m) PROVE Undisturbed
  BY <1>5 DEF Execute, ExecuteApply, ExecuteSave, RefuseSave, ExecuteLookup
<1>6. CASE Faults
  BY <1>1, <1>6 DEF Faults, LoseRequest, GiveUp, MarkFails, ServiceRestart, Fault
<1>7. CASE UNCHANGED vars
  BY <1>1, <1>7 DEF vars
<1> QED
  BY <1>1, <1>2, <1>3, <1>4, <1>5, <1>6, <1>7 DEF Next

LEMMA StepDisk == TypeOK /\ SessionInv /\ DiskInv /\ [Next]_vars => DiskInv'
<1> SUFFICES ASSUME TypeOK, SessionInv, DiskInv, [Next]_vars, Undisturbed' PROVE DiskFollows'
  BY DEF DiskInv
<1>0. DiskFollows /\ ~World
  BY StaysUndisturbed DEF DiskInv
<1>1. CASE Edits
  BY <1>0, <1>1, EditsFollow
<1>2. ASSUME NEW c \in Callers, Start(c) PROVE DiskFollows'
  BY <1>0, <1>2, StartFollows
<1>3. ASSUME NEW c \in Callers, Continue(c) PROVE DiskFollows'
  BY <1>0, <1>3, CompleteApplyFollows, OthersFollow DEF Continue
<1>4. ASSUME NEW m \in wire, Execute(m) PROVE DiskFollows'
  BY <1>0, <1>4, ExecuteApplyFollows, OthersFollow DEF Execute
<1>5. CASE Faults \/ UNCHANGED vars
  BY <1>0, <1>5, OthersFollow
<1> QED
  BY <1>0, <1>1, <1>2, <1>3, <1>4, <1>5 DEF Next

(* As long as the editor is not restarted and nobody else works in it, a   *)
(* table the session does not list for Save is on disk as the session      *)
(* shows it, whatever was lost, refused or written in part.                *)
THEOREM SavedTablesCorrect == Spec => []SavedTablesAreOnDiskUnlessRestarted
<1>1. Init => DiskInv
  BY DEF Init, EditorInit, DiskInv, DiskFollows, PendingHasCommitted, NoOperation
<1>2. TypeOK /\ SessionInv /\ DiskInv => SavedTablesAreOnDiskUnlessRestarted
  <2> SUFFICES ASSUME TypeOK, SessionInv, DiskInv, restarts = 0, outside = 0, Idle,
                      NEW t \in Tables \ awaitingSave
               PROVE  disk[t] = base[t]
    BY DEF SavedTablesAreOnDiskUnlessRestarted, SavedTablesAreOnDisk
  <2>1. DiskFollows /\ ~PendingHasCommitted
    BY DEF DiskInv, Undisturbed, PendingHasCommitted, Idle
  <2>2. t \notin unsaved
    BY DEF SessionInv, UnsavedIsOwed, Idle
  <2> QED
    BY <2>1, <2>2 DEF DiskFollows
<1> QED
  BY <1>1, <1>2, StepDisk, InvariantCorrect, PTL DEF Spec
=============================================================================
