-------------------- MODULE AuthoringSessionStoreProofs --------------------
(***************************************************************************)
(* Proofs about AuthoringSessionStore: for any number of calls, processes  *)
(* and crashes, and every orderly setup.                                   *)
(***************************************************************************)
EXTENDS AuthoringSessionStore, TLAPS

(* What the variables promise beside the file and the two histories        *)
CallInv == StoreTypeOK /\ Staged /\ RemoverHasPermit

LEMMA NoDocument ==
    /\ Malformed \notin Document /\ Absent \notin Document /\ Malformed # Absent
    /\ Malformed.edits = {} /\ Absent.edits = {} /\ Malformed.schema # 1 /\ Absent.schema # 1
    /\ \A d \in Document : d.schema \in {1, 2} /\ d.edits \in SUBSET Tasks
    /\ \A e \in SUBSET Tasks : [schema |-> 2, edits |-> e] \in Document
BY DEF Document, Malformed, Absent

(* Where a call of each kind can be, and what a place says of the kind     *)
LEMMA StepsAre ==
    /\ StepsOf("edit") = {"start", "load", "quarantine", "migrate", "loaded", "write", "rename"}
    /\ StepsOf("review") = {"start", "quarantine", "loaded"}
    /\ StepsOf("begin") = {"start", "quarantine", "loaded", "inert", "remove"}
    /\ StepsOf("discard") = {"start", "remove"}
    /\ StepsOf("none") = {}
BY DEF StepsOf

LEMMA PlacesTell ==
    ASSUME NEW kind \in TaskKinds, NEW step, step \in StepsOf(kind) \cup {"done", "failed"}
    PROVE  /\ step \in {"load", "migrate", "write", "rename"} => kind = "edit"
           /\ step = "inert" => kind = "begin"
           /\ step = "remove" => kind \in {"begin", "discard"}
           /\ step = "loaded" => kind \in {"edit", "review", "begin"}
           /\ step = "quarantine" => kind \in {"edit", "review", "begin"}
<1>1. CASE kind = "edit"
  BY <1>1, StepsAre
<1>2. CASE kind = "review"
  BY <1>2, StepsAre
<1>3. CASE kind = "begin"
  BY <1>3, StepsAre
<1>4. CASE kind = "discard"
  BY <1>4, StepsAre
<1>5. CASE kind = "none"
  BY <1>5, StepsAre
<1> QED
  BY <1>1, <1>2, <1>3, <1>4, <1>5 DEF TaskKinds

LEMMA SetupIsTyped ==
    ASSUME StoreTypeOK
    PROVE  /\ Kind \in [Tasks -> TaskKinds] /\ ProcessOf \in [Tasks -> Processes]
           /\ setup.file \in Document \cup {Malformed}
BY SetupsAssumption DEF StoreTypeOK, Kind, ProcessOf

(* Two calls that both have the permit of a process are one call.          *)
LEMMA PermitExcludes ==
    ASSUME CallInv, Orderly(setup), NEW t \in Tasks, NEW u \in Tasks,
           Kind[t] = "edit", pc[t] \notin {"start", "done", "failed"},
           \/ Kind[u] = "edit" /\ pc[u] \notin {"start", "done", "failed"}
           \/ Kind[u] = "discard" /\ pc[u] = "remove"
    PROVE  t = u
<1>1. mutex[ProcessOf[t]] = {t} /\ mutex[ProcessOf[u]] = {u}
  BY DEF CallInv, StoreTypeOK, RemoverHasPermit
<1>2. ProcessOf[t] = ProcessOf[u]
  BY DEF Orderly, Kind, ProcessOf
<1> QED
  BY <1>1, <1>2

-----------------------------------------------------------------------------
LEMMA InitHolds ==
    ASSUME OrderlySetups, Init
    PROVE  FileInv
<1>1. /\ setup \in Setups /\ Kind \in [Tasks -> TaskKinds] /\ ProcessOf \in [Tasks -> Processes]
      /\ setup.file \in Document \cup {Malformed}
  BY SetupsAssumption DEF Init, Kind, ProcessOf
<1>2. \A t \in Tasks : pc[t] = IF Kind[t] = "none" THEN "done" ELSE "start"
  BY DEF Init
<1>3. StoreTypeOK
  <2>1. confirmed \subseteq Tasks /\ file \in Document \cup {Malformed, Absent}
    BY <1>1, NoDocument DEF Init
  <2>2. copy \in [Tasks -> Document \cup {Absent}] /\ mutex \in [Processes -> SUBSET Tasks]
    BY DEF Init
  <2>3. pc \in [Tasks -> Steps]
    BY DEF Init, Steps
  <2>4. crashes \in 0..MaxCrashes
    BY CrashesAssumption DEF Init
  <2>5. discarded \in BOOLEAN
    BY Zenon DEF Init
  <2> QED
    BY <1>1, <1>2, <2>1, <2>2, <2>3, <2>4, <2>5 DEF StoreTypeOK
<1>4. Staged /\ RemoverHasPermit /\ CopiesAreCurrent
  BY <1>1, <1>2 DEF Staged, StepsOf, TaskKinds, RemoverHasPermit, CopiesAreCurrent
<1>5. FileComesFromSetup /\ ConfirmedEditsSurvive /\ DiscardIsFinal
  BY <1>1, NoDocument DEF Init, FileComesFromSetup, ConfirmedEditsSurvive, DiscardIsFinal
<1> QED
  BY <1>3, <1>4, <1>5 DEF FileInv

(* A step of one call keeps types, places and permits.                     *)
LEMMA StepKeepsCalls ==
    ASSUME CallInv, CopiesAreCurrent, FileComesFromSetup, Orderly(setup),
           NEW t \in Tasks, Step(t), UNCHANGED setup
    PROVE  CallInv'
<1>1. /\ Kind \in [Tasks -> TaskKinds] /\ ProcessOf \in [Tasks -> Processes]
      /\ Kind' = Kind /\ ProcessOf' = ProcessOf
  BY SetupIsTyped DEF CallInv, Kind, ProcessOf
<1>2. /\ pc \in [Tasks -> Steps] /\ mutex \in [Processes -> SUBSET Tasks]
      /\ copy \in [Tasks -> Document \cup {Absent}] /\ confirmed \subseteq Tasks
      /\ file \in Document \cup {Malformed, Absent} /\ setup \in Setups
      /\ discarded \in BOOLEAN /\ crashes \in 0..MaxCrashes
  BY DEF CallInv, StoreTypeOK
<1>3. /\ \A u \in Tasks : pc[u] \in StepsOf(Kind[u]) \cup {"done", "failed"}
      /\ \A u \in Tasks : Kind[u] = "edit" /\ pc[u] \notin {"start", "done", "failed"} => mutex[ProcessOf[u]] = {u}
      /\ \A u \in Tasks : pc[u] = "remove" => mutex[ProcessOf[u]] = {u}
  BY DEF CallInv, StoreTypeOK, Staged, RemoverHasPermit
<1>4. /\ pc[t] \in {"load", "migrate", "write", "rename"} => Kind[t] = "edit"
      /\ pc[t] = "inert" => Kind[t] = "begin"
      /\ pc[t] = "loaded" => Kind[t] \in {"edit", "review", "begin"}
  BY <1>1, <1>3, PlacesTell
<1> DEFINE Data == copy' \in [Tasks -> Document \cup {Absent}] /\ confirmed' \subseteq Tasks
                   /\ file' \in Document \cup {Malformed, Absent} /\ discarded' \in BOOLEAN
                   /\ crashes' = crashes
           Keeps == \A u \in Tasks \ {t} : mutex[ProcessOf[u]] = {u} => mutex'[ProcessOf[u]] = {u}
           Leaves == mutex' \in [Processes -> SUBSET Tasks] /\ Keeps
           Mine(step) == Kind[t] = "edit" \/ step = "remove" => mutex'[ProcessOf[t]] = {t}
<1>5. ASSUME NEW step \in Steps, Go(t, step), Data, Leaves,
             step \in StepsOf(Kind[t]) \cup {"done", "failed"},
             step \notin {"done", "failed"} => Mine(step)
      PROVE  CallInv'
  <2>1. /\ pc' \in [Tasks -> Steps] /\ pc'[t] = step
        /\ \A u \in Tasks \ {t} : pc'[u] = pc[u]
    BY <1>2, <1>5 DEF Go
  <2>2. Staged'
    BY <1>1, <1>3, <1>5, <2>1 DEF Staged
  <2>3. RemoverHasPermit'
    BY <1>1, <1>3, <1>5, <2>1 DEF RemoverHasPermit
  <2>4. \A u \in Tasks : Kind[u] = "edit" /\ pc'[u] \notin {"start", "done", "failed"} => mutex'[ProcessOf[u]] = {u}
    BY <1>1, <1>3, <1>5, <2>1
  <2>5. StoreTypeOK'
    BY <1>1, <1>2, <1>5, <2>1, <2>4 DEF StoreTypeOK
  <2> QED
    BY <2>2, <2>3, <2>5 DEF CallInv
<1>6. ASSUME Release(t) PROVE Leaves
  BY <1>1, <1>2, <1>6 DEF Release
<1>7. ASSUME UNCHANGED mutex PROVE Leaves /\ mutex'[ProcessOf[t]] = mutex[ProcessOf[t]]
  BY <1>2, <1>7
<1>8. ASSUME UNCHANGED <<file, copy, confirmed, discarded, crashes>> PROVE Data
  BY <1>2, <1>8
<1>9. CASE Acquire(t)
  <2>1. Leaves /\ mutex'[ProcessOf[t]] = {t}
    BY <1>1, <1>2, <1>9 DEF Acquire
  <2>2. CASE Kind[t] = "edit"
    BY <1>5, <1>8, <1>9, <2>1, <2>2, StepsAre DEF Acquire, Steps
  <2>3. CASE Kind[t] # "edit"
    BY <1>4, <1>5, <1>8, <1>9, <2>1, <2>3, StepsAre DEF Acquire, Steps
  <2> QED
    BY <2>2, <2>3
<1>10. CASE Load(t)
  <2>1. copy' \in [Tasks -> Document \cup {Absent}]
    BY <1>2, <1>10, NoDocument DEF Load
  <2>2. Data /\ Leaves /\ Mine("loaded") /\ Mine("migrate")
    BY <1>2, <1>3, <1>7, <1>10, <2>1 DEF Load, Loading
  <2>3. CASE pc[t] = "load"
    BY <1>4, <1>5, <1>10, <2>2, <2>3, StepsAre DEF Load, Steps
  <2>4. CASE pc[t] = "start" /\ Kind[t] \in {"review", "begin"}
    <3>1. file.schema # 1
      BY <2>4 DEF Orderly, FileComesFromSetup, Kind
    <3> QED
      BY <1>5, <1>10, <2>2, <2>4, <3>1, StepsAre DEF Load, Steps
  <2> QED
    BY <1>10, <2>3, <2>4 DEF Load, Loading
<1>11. CASE LoadNothing(t) \/ Quarantine(t)
  <2>1. Data /\ Leaves /\ Go(t, "failed")
    BY <1>2, <1>6, <1>11 DEF LoadNothing, Quarantine, Fail
  <2> QED
    BY <1>5, <2>1 DEF Steps
<1>12. CASE LoadMalformed(t)
  <2>1. Data /\ Leaves /\ Go(t, "quarantine") /\ Mine("quarantine")
    BY <1>3, <1>7, <1>8, <1>12 DEF LoadMalformed, Loading
  <2>2. Kind[t] \in {"edit", "review", "begin"}
    BY <1>4, <1>12 DEF LoadMalformed, Loading
  <2> QED
    BY <1>5, <2>1, <2>2, StepsAre DEF Steps
<1>13. CASE PersistMigrated(t)
  <2>1. Kind[t] = "edit" /\ pc[t] = "migrate"
    BY <1>4, <1>13 DEF PersistMigrated
  <2>2. Data /\ Leaves /\ Go(t, "loaded") /\ Mine("loaded")
    BY <1>2, <1>3, <1>7, <1>13, <2>1 DEF PersistMigrated
  <2> QED
    BY <1>5, <2>1, <2>2, StepsAre DEF Steps
<1>14. CASE Transition(t)
  <2>1. copy' \in [Tasks -> Document \cup {Absent}]
    BY <1>2, <1>14, NoDocument DEF Transition, CopiesAreCurrent
  <2>2. Data /\ Leaves /\ Go(t, "write") /\ Mine("write") /\ Kind[t] = "edit"
    BY <1>2, <1>3, <1>7, <1>14, <2>1 DEF Transition
  <2> QED
    BY <1>5, <2>2, StepsAre DEF Steps
<1>15. CASE WriteTemporary(t)
  <2>1. Data /\ Leaves /\ Go(t, "rename") /\ Mine("rename") /\ Kind[t] = "edit"
    BY <1>3, <1>4, <1>7, <1>8, <1>15 DEF WriteTemporary
  <2> QED
    BY <1>5, <2>1, StepsAre DEF Steps
<1>16. CASE Rename(t)
  <2>1. Data /\ Leaves /\ Go(t, "done")
    BY <1>2, <1>6, <1>16 DEF Rename
  <2> QED
    BY <1>5, <2>1 DEF Steps
<1>17. CASE UseLoaded(t)
  <2>1. Data /\ Leaves
    BY <1>7, <1>8, <1>17 DEF UseLoaded
  <2>2. CASE Kind[t] = "begin" /\ copy[t].edits = {}
    BY <1>5, <1>17, <2>1, <2>2, StepsAre DEF UseLoaded, Steps
  <2>3. CASE ~(Kind[t] = "begin" /\ copy[t].edits = {})
    BY <1>5, <1>17, <2>1, <2>3 DEF UseLoaded, Steps
  <2> QED
    BY <2>2, <2>3
<1>18. CASE Remove(t)
  <2>1. Data /\ Leaves
    BY <1>2, <1>6, <1>18 DEF Remove, Fail
  <2>2. Go(t, "failed") \/ Go(t, "done")
    BY <1>18 DEF Remove, Fail
  <2> QED
    BY <1>5, <2>1, <2>2 DEF Steps
<1> QED
  BY <1>9, <1>10, <1>11, <1>12, <1>13, <1>14, <1>15, <1>16, <1>17, <1>18 DEF Step

-----------------------------------------------------------------------------
(* What CopiesAreCurrent says of one call                                  *)
Current(u) ==
    /\ Kind[u] = "edit" /\ pc[u] \in {"migrate", "loaded"} =>
          file \in Document /\ copy[u] = [schema |-> 2, edits |-> file.edits]
    /\ pc[u] \in {"write", "rename"} =>
          file \in Document /\ copy[u] = [schema |-> 2, edits |-> file.edits \cup {u}]
    /\ Kind[u] = "begin" /\ pc[u] = "loaded" => setup.file.edits \subseteq copy[u].edits
    /\ Kind[u] = "begin" /\ pc[u] \in {"inert", "remove"} => setup.file.edits = {}
    /\ pc[u] = "quarantine" => setup.file = Malformed

(* A call that leaves the file alone                                       *)
LEMMA FileUnchangedKeeps ==
    ASSUME FileInv, NEW t \in Tasks, NEW step, Go(t, step),
           UNCHANGED <<setup, file, confirmed, discarded>>,
           \A u \in Tasks \ {t} : copy'[u] = copy[u], Current(t)'
    PROVE  /\ CopiesAreCurrent' /\ FileComesFromSetup'
           /\ ConfirmedEditsSurvive' /\ DiscardIsFinal'
<1>1. \A u \in Tasks \ {t} : pc'[u] = pc[u]
  BY DEF FileInv, StoreTypeOK, Go
<1>2. \A u \in Tasks \ {t} : Current(u)'
  BY <1>1 DEF FileInv, CopiesAreCurrent, Current, Kind
<1>3. CopiesAreCurrent'
  BY <1>2 DEF CopiesAreCurrent, Current, Kind
<1> QED
  BY <1>3 DEF FileInv, FileComesFromSetup, ConfirmedEditsSurvive, DiscardIsFinal, Kind

(* A call t that replaces or removes the file, when no other call is in    *)
(* the middle of an edit                                                   *)
LEMMA OthersStayCurrent ==
    ASSUME FileInv, NEW t \in Tasks, NEW step, Go(t, step), UNCHANGED <<setup, copy>>,
           \A u \in Tasks \ {t} :
              Kind[u] = "edit" => pc[u] \notin {"migrate", "loaded", "write", "rename"},
           Current(t)'
    PROVE  CopiesAreCurrent'
<1>1. \A u \in Tasks \ {t} : pc'[u] = pc[u]
  BY DEF FileInv, StoreTypeOK, Go
<1>2. \A u \in Tasks : pc[u] \in {"write", "rename"} => Kind[u] = "edit"
  BY SetupIsTyped, PlacesTell DEF FileInv, Staged
<1>3. ASSUME NEW u \in Tasks \ {t} PROVE Current(u)'
  <2>1. Current(u)
    BY DEF FileInv, CopiesAreCurrent, Current
  <2>2. ~(Kind[u] = "edit" /\ pc[u] \in {"migrate", "loaded"}) /\ pc[u] \notin {"write", "rename"}
    BY <1>2
  <2> QED
    BY <1>1, <2>1, <2>2 DEF Current, Kind
<1> QED
  BY <1>3 DEF CopiesAreCurrent, Current, Kind

LEMMA LoadKeepsFile ==
    ASSUME FileInv, NEW t \in Tasks, UNCHANGED setup,
           Acquire(t) \/ Load(t) \/ LoadNothing(t) \/ LoadMalformed(t)
    PROVE  /\ CopiesAreCurrent' /\ FileComesFromSetup'
           /\ ConfirmedEditsSurvive' /\ DiscardIsFinal'
<1>1. /\ Kind \in [Tasks -> TaskKinds] /\ Kind' = Kind /\ pc \in [Tasks -> Steps]
      /\ copy \in [Tasks -> Document \cup {Absent}]
  BY SetupIsTyped DEF FileInv, StoreTypeOK, Kind
<1>2. pc[t] = "inert" => Kind[t] = "begin"
  BY <1>1, PlacesTell DEF FileInv, Staged
<1>3. CASE Acquire(t)
  <2>1. PICK step \in {"load", "remove"} : Go(t, step) /\ (step = "remove" <=> Kind[t] # "edit")
    BY <1>3 DEF Acquire
  <2>2. pc'[t] = step
    BY <1>1, <2>1 DEF Go
  <2>3. Kind[t] = "begin" => setup.file.edits = {}
    BY <1>1, <1>3 DEF Acquire, FileInv, CopiesAreCurrent
  <2>4. Current(t)'
    BY <1>1, <2>1, <2>2, <2>3 DEF Current
  <2> QED
    BY <1>3, <2>1, <2>4, FileUnchangedKeeps DEF Acquire
<1>4. CASE Load(t)
  <2>1. PICK step \in {"migrate", "loaded"} : Go(t, step)
    BY <1>4 DEF Load
  <2>2. /\ pc'[t] = step /\ copy'[t] = [schema |-> 2, edits |-> file.edits] /\ file \in Document
        /\ \A u \in Tasks \ {t} : copy'[u] = copy[u]
    BY <1>1, <1>4, <2>1 DEF Load, Go
  <2>3. Current(t)'
    BY <1>1, <1>4, <2>2 DEF Load, Current, FileInv, FileComesFromSetup
  <2> QED
    BY <1>4, <2>1, <2>2, <2>3, FileUnchangedKeeps DEF Load
<1>5. CASE LoadNothing(t)
  <2>1. pc'[t] = "failed" /\ Go(t, "failed")
    BY <1>1, <1>5 DEF LoadNothing, Fail, Go
  <2>2. Current(t)'
    BY <2>1 DEF Current
  <2> QED
    BY <1>5, <2>1, <2>2, FileUnchangedKeeps DEF LoadNothing
<1>6. CASE LoadMalformed(t)
  <2>1. pc'[t] = "quarantine" /\ Go(t, "quarantine")
    BY <1>1, <1>6 DEF LoadMalformed, Go
  <2>2. Current(t)'
    BY <1>6, <2>1 DEF LoadMalformed, Current, FileInv, FileComesFromSetup
  <2> QED
    BY <1>6, <2>1, <2>2, FileUnchangedKeeps DEF LoadMalformed
<1> QED
  BY <1>3, <1>4, <1>5, <1>6

LEMMA PrepareKeepsFile ==
    ASSUME FileInv, NEW t \in Tasks, UNCHANGED setup, Orderly(setup),
           Transition(t) \/ WriteTemporary(t) \/ UseLoaded(t)
    PROVE  /\ CopiesAreCurrent' /\ FileComesFromSetup'
           /\ ConfirmedEditsSurvive' /\ DiscardIsFinal'
<1>1. /\ Kind \in [Tasks -> TaskKinds] /\ Kind' = Kind /\ pc \in [Tasks -> Steps]
      /\ copy \in [Tasks -> Document \cup {Absent}]
  BY SetupIsTyped DEF FileInv, StoreTypeOK, Kind
<1>2. CASE Transition(t)
  <2>1. /\ pc'[t] = "write" /\ Go(t, "write") /\ file \in Document
        /\ copy[t] = [schema |-> 2, edits |-> file.edits]
        /\ \A u \in Tasks \ {t} : copy'[u] = copy[u]
    BY <1>1, <1>2 DEF Transition, Go, FileInv, CopiesAreCurrent
  <2>2. copy'[t] = [copy[t] EXCEPT !.edits = @ \cup {t}]
    BY <1>1, <1>2 DEF Transition
  <2>3. copy'[t] = [schema |-> 2, edits |-> file.edits \cup {t}]
    BY <2>1, <2>2
  <2>4. Current(t)'
    BY <1>2, <2>1, <2>3 DEF Transition, Current
  <2> QED
    BY <1>2, <2>1, <2>4, FileUnchangedKeeps DEF Transition
<1>3. CASE WriteTemporary(t)
  <2>1. pc'[t] = "rename" /\ Go(t, "rename")
    BY <1>1, <1>3 DEF WriteTemporary, Go
  <2>2. Current(t)'
    BY <1>3, <2>1 DEF WriteTemporary, Current, FileInv, CopiesAreCurrent
  <2> QED
    BY <1>3, <2>1, <2>2, FileUnchangedKeeps DEF WriteTemporary
<1>4. CASE UseLoaded(t)
  <2>1. PICK step \in {"inert", "done"} :
           Go(t, step) /\ (step = "inert" => Kind[t] = "begin" /\ copy[t].edits = {})
    BY <1>4 DEF UseLoaded
  <2>2. pc'[t] = step
    BY <1>1, <2>1 DEF Go
  <2>3. step = "inert" => setup.file.edits = {}
    BY <1>4, <2>1 DEF UseLoaded, FileInv, CopiesAreCurrent
  <2>4. Current(t)'
    BY <1>4, <2>1, <2>2, <2>3 DEF UseLoaded, Current
  <2> QED
    BY <1>4, <2>1, <2>4, FileUnchangedKeeps DEF UseLoaded
<1> QED
  BY <1>2, <1>3, <1>4

(* Nobody is in the middle of an edit but t, if t edits or discards.       *)
LEMMA NobodyElseEdits ==
    ASSUME FileInv, Orderly(setup), NEW t \in Tasks,
           \/ Kind[t] = "edit" /\ pc[t] \notin {"start", "done", "failed"}
           \/ Kind[t] = "discard" /\ pc[t] = "remove"
    PROVE  \A u \in Tasks \ {t} :
              Kind[u] = "edit" => pc[u] \notin {"migrate", "loaded", "write", "rename"}
BY PermitExcludes DEF FileInv, CallInv

LEMMA WriteKeepsFile ==
    ASSUME FileInv, NEW t \in Tasks, UNCHANGED setup, Orderly(setup),
           PersistMigrated(t) \/ Rename(t)
    PROVE  /\ CopiesAreCurrent' /\ FileComesFromSetup'
           /\ ConfirmedEditsSurvive' /\ DiscardIsFinal'
<1>1. /\ Kind \in [Tasks -> TaskKinds] /\ Kind' = Kind /\ pc \in [Tasks -> Steps]
      /\ file \in Document \cup {Malformed, Absent} /\ confirmed \subseteq Tasks
  BY SetupIsTyped DEF FileInv, StoreTypeOK, Kind
<1>2. Kind[t] = "edit" /\ pc[t] \in {"migrate", "rename"}
  BY <1>1, PlacesTell DEF FileInv, Staged, PersistMigrated, Rename
<1>3. PICK new \in {{}, {t}} :
         /\ file \in Document /\ copy[t] = [schema |-> 2, edits |-> file.edits \cup new]
         /\ file' = copy[t] /\ confirmed' = confirmed \cup new
  BY <1>2 DEF PersistMigrated, Rename, FileInv, CopiesAreCurrent
<1>4. file' \in Document /\ file'.edits = file.edits \cup new /\ file'.schema = 2
  BY <1>3, NoDocument
<1>5. PICK step \in {"loaded", "done"} :
         Go(t, step) /\ (step = "loaded" => file' = [schema |-> 2, edits |-> file'.edits] /\ copy'[t] = file')
  BY <1>3, <1>4 DEF PersistMigrated, Rename
<1>6. pc'[t] = step /\ UNCHANGED <<copy, discarded>>
  BY <1>1, <1>5 DEF Go, PersistMigrated, Rename
<1>7. Current(t)'
  BY <1>1, <1>2, <1>4, <1>5, <1>6 DEF Current
<1>8. CopiesAreCurrent'
  BY <1>2, <1>5, <1>6, <1>7, NobodyElseEdits, OthersStayCurrent
<1>9. FileComesFromSetup'
  BY <1>1, <1>2, <1>3, <1>4, NoDocument DEF FileInv, FileComesFromSetup
<1>10. ConfirmedEditsSurvive' /\ DiscardIsFinal'
  BY <1>3, <1>4, <1>6, NoDocument DEF FileInv, ConfirmedEditsSurvive, DiscardIsFinal
<1> QED
  BY <1>8, <1>9, <1>10

LEMMA RemoveKeepsFile ==
    ASSUME FileInv, NEW t \in Tasks, UNCHANGED setup, Orderly(setup),
           Quarantine(t) \/ Remove(t)
    PROVE  /\ CopiesAreCurrent' /\ FileComesFromSetup'
           /\ ConfirmedEditsSurvive' /\ DiscardIsFinal'
<1>1. /\ Kind \in [Tasks -> TaskKinds] /\ Kind' = Kind /\ pc \in [Tasks -> Steps]
      /\ file \in Document \cup {Malformed, Absent}
      /\ setup.file \in Document \cup {Malformed}
  BY SetupIsTyped DEF FileInv, StoreTypeOK, Kind
<1>2. file' = Absent /\ UNCHANGED <<setup, copy, confirmed>>
  BY DEF Quarantine, Remove
<1>3. PICK step \in {"failed", "done"} : Go(t, step)
  BY DEF Quarantine, Remove, Fail
<1>4. pc'[t] = step
  BY <1>1, <1>3 DEF Go
<1>5. Current(t)'
  BY <1>4 DEF Current
<1>6. /\ pc[t] = "quarantine" => setup.file = Malformed
      /\ pc[t] = "remove" => Kind[t] = "discard" \/ (Kind[t] = "begin" /\ setup.file.edits = {})
      /\ pc[t] \in {"quarantine", "remove"}
  BY <1>1, PlacesTell DEF FileInv, Staged, CopiesAreCurrent, Quarantine, Remove
<1>7. \A u \in Tasks \ {t} :
         Kind[u] = "edit" => pc[u] \notin {"migrate", "loaded", "write", "rename"}
  <2>1. CASE setup.file = Malformed
    <3>1. file \notin Document
      BY <2>1, NoDocument DEF FileInv, FileComesFromSetup
    <3> QED
      BY <3>1 DEF FileInv, CopiesAreCurrent
  <2>2. CASE Kind[t] = "begin" /\ setup.file.edits = {}
    BY <2>2 DEF Orderly, Kind
  <2>3. CASE Kind[t] = "discard" /\ pc[t] = "remove"
    BY <2>3, NobodyElseEdits
  <2> QED
    BY <1>6, <2>1, <2>2, <2>3
<1>8. CopiesAreCurrent'
  BY <1>2, <1>3, <1>5, <1>7, OthersStayCurrent
<1>9. FileComesFromSetup'
  BY <1>1, <1>2, NoDocument DEF FileInv, FileComesFromSetup, Kind
<1>10. DiscardIsFinal'
  BY <1>2 DEF DiscardIsFinal
<1>11. ConfirmedEditsSurvive'
  <2>1. CASE setup.file = Malformed
    <3>1. file \in {Malformed, Absent}
      BY <2>1 DEF FileInv, FileComesFromSetup
    <3>2. ~discarded => confirmed = {}
      BY <3>1, NoDocument DEF FileInv, ConfirmedEditsSurvive
    <3> QED
      BY <1>2, <3>2, NoDocument DEF ConfirmedEditsSurvive, Quarantine, Remove
  <2>2. CASE Kind[t] = "begin" /\ setup.file.edits = {}
    <3>1. confirmed = {}
      BY <2>2 DEF Orderly, Kind, FileInv, FileComesFromSetup
    <3> QED
      BY <1>2, <3>1, NoDocument DEF ConfirmedEditsSurvive
  <2>3. CASE Kind[t] = "discard" /\ pc[t] = "remove"
    <3>1. file # Absent => discarded'
      BY <2>3 DEF Quarantine, Remove
    <3>2. file = Absent => UNCHANGED <<file, discarded>>
      BY <2>3 DEF Quarantine, Remove
    <3> QED
      BY <1>2, <3>1, <3>2 DEF FileInv, ConfirmedEditsSurvive
  <2> QED
    BY <1>6, <2>1, <2>2, <2>3
<1> QED
  BY <1>8, <1>9, <1>10, <1>11

(* A crash takes calls, copies and permits of one process away.            *)
LEMMA CrashKeeps ==
    ASSUME FileInv, NEW p \in Processes, Crash(p), UNCHANGED setup
    PROVE  FileInv'
<1>1. /\ Kind \in [Tasks -> TaskKinds] /\ ProcessOf \in [Tasks -> Processes]
      /\ Kind' = Kind /\ ProcessOf' = ProcessOf
  BY SetupIsTyped DEF FileInv, Kind, ProcessOf
<1>2. /\ pc' \in [Tasks -> Steps] /\ mutex' \in [Processes -> SUBSET Tasks]
      /\ crashes' \in 0..MaxCrashes
  BY CrashesAssumption DEF FileInv, StoreTypeOK, Crash, Steps
<1>3. \A u \in Tasks :
         \/ pc'[u] \in {"start", "done", "failed"} /\ pc'[u] \in {pc[u], "failed"}
         \/ pc'[u] = pc[u] /\ mutex'[ProcessOf[u]] = mutex[ProcessOf[u]]
  BY <1>1 DEF FileInv, StoreTypeOK, Crash
<1>4. StoreTypeOK'
  BY <1>1, <1>2, <1>3 DEF FileInv, StoreTypeOK, Crash
<1>5. Staged' /\ RemoverHasPermit'
  BY <1>1, <1>3 DEF FileInv, Staged, RemoverHasPermit
<1>6. CopiesAreCurrent'
  BY <1>1, <1>3 DEF FileInv, CopiesAreCurrent, Crash
<1>7. FileComesFromSetup' /\ ConfirmedEditsSurvive' /\ DiscardIsFinal'
  BY <1>1 DEF FileInv, FileComesFromSetup, ConfirmedEditsSurvive, DiscardIsFinal, Crash
<1> QED
  BY <1>4, <1>5, <1>6, <1>7 DEF FileInv

LEMMA StepKeeps ==
    ASSUME OrderlySetups, FileInv, [Next]_vars
    PROVE  FileInv'
<1>1. Orderly(setup)
  BY DEF OrderlySetups, FileInv, StoreTypeOK
<1>2. ASSUME NEW t \in Tasks, Step(t), UNCHANGED setup PROVE FileInv'
  <2>1. CallInv'
    BY <1>1, <1>2, StepKeepsCalls DEF FileInv, CallInv
  <2>2. /\ CopiesAreCurrent' /\ FileComesFromSetup'
        /\ ConfirmedEditsSurvive' /\ DiscardIsFinal'
    BY <1>1, <1>2, LoadKeepsFile, PrepareKeepsFile, WriteKeepsFile, RemoveKeepsFile DEF Step
  <2> QED
    BY <2>1, <2>2 DEF FileInv, CallInv
<1>3. CASE UNCHANGED vars
  BY <1>3 DEF vars, FileInv, StoreTypeOK, Staged, RemoverHasPermit, CopiesAreCurrent,
     FileComesFromSetup, ConfirmedEditsSurvive, DiscardIsFinal, Kind, ProcessOf
<1> QED
  BY <1>2, <1>3, CrashKeeps DEF Next, Rest

-----------------------------------------------------------------------------
(* The inductive invariant, whatever the calls, processes and crashes      *)
THEOREM InvariantCorrect ==
    ASSUME OrderlySetups
    PROVE  Spec => []FileInv
<1>1. Init => FileInv
  BY InitHolds
<1>2. FileInv /\ [Next]_vars => FileInv'
  BY StepKeeps
<1> QED
  BY <1>1, <1>2, PTL DEF Spec

(* Every variable keeps its type, and an edit under way has the permit.    *)
THEOREM StoreTypeCorrect ==
    ASSUME OrderlySetups
    PROVE  Spec => []StoreTypeOK
<1>1. FileInv => StoreTypeOK
  BY DEF FileInv
<1> QED
  BY <1>1, InvariantCorrect, PTL

(* An edit whose caller was told it is stored stays until the session is   *)
(* discarded.                                                              *)
THEOREM ConfirmedCorrect ==
    ASSUME OrderlySetups
    PROVE  Spec => []ConfirmedEditsSurvive
<1>1. FileInv => ConfirmedEditsSurvive
  BY DEF FileInv
<1> QED
  BY <1>1, InvariantCorrect, PTL

(* A discarded session does not come back.                                 *)
THEOREM DiscardCorrect ==
    ASSUME OrderlySetups
    PROVE  Spec => []DiscardIsFinal
<1>1. FileInv => DiscardIsFinal
  BY DEF FileInv
<1> QED
  BY <1>1, InvariantCorrect, PTL

StaysReadable ==
    file \in Document =>
       \/ file' \in Document /\ file.edits \subseteq file'.edits
       \/ file' = Absent /\ \E t \in Tasks : pc[t] = "remove"

(* No step leaves a document that cannot be read, or an edit less, where   *)
(* there was a readable one.                                               *)
THEOREM ReadableCorrect ==
    ASSUME OrderlySetups
    PROVE  Spec => ReadableStaysReadable
<1>1. ASSUME FileInv, [Next]_vars, file \in Document
      PROVE  \/ file' \in Document /\ file.edits \subseteq file'.edits
             \/ file' = Absent /\ \E t \in Tasks : pc[t] = "remove"
  <2>1. ASSUME NEW t \in Tasks, PersistMigrated(t) \/ Rename(t)
        PROVE  file' \in Document /\ file.edits \subseteq file'.edits
    <3>1. Kind[t] = "edit"
      BY <1>1, <2>1, SetupIsTyped, PlacesTell DEF FileInv, Staged, PersistMigrated, Rename
    <3>2. PICK new \in {{}, {t}} : file' = [schema |-> 2, edits |-> file.edits \cup new]
      BY <1>1, <2>1, <3>1 DEF FileInv, CopiesAreCurrent, PersistMigrated, Rename
    <3> QED
      BY <1>1, <3>2, NoDocument
  <2>2. ASSUME NEW t \in Tasks, Quarantine(t) PROVE FALSE
    BY <1>1, <2>2, NoDocument DEF FileInv, CopiesAreCurrent, FileComesFromSetup, Quarantine
  <2>3. ASSUME NEW t \in Tasks, Step(t)
        PROVE  \/ UNCHANGED file \/ PersistMigrated(t) \/ Rename(t) \/ Quarantine(t)
               \/ file' = Absent /\ pc[t] = "remove"
    BY <2>3 DEF Step, Acquire, Load, LoadNothing, LoadMalformed, Transition, WriteTemporary,
       UseLoaded, Remove
  <2> QED
    BY <1>1, <2>1, <2>2, <2>3 DEF Next, Crash, Rest, vars
<1>2. FileInv /\ [Next]_vars => [StaysReadable]_vars
  BY <1>1 DEF StaysReadable
<1>3. Spec => [][StaysReadable]_vars
  BY <1>2, InvariantCorrect, PTL DEF Spec
<1> QED
  BY <1>3 DEF StaysReadable, ReadableStaysReadable
=============================================================================
