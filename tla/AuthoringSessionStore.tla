----------------------- MODULE AuthoringSessionStore -----------------------
(***************************************************************************)
(* The session file of packages/authoring/src/session-service.ts, at the   *)
(* grain of its file operations.  AuthoringSession takes one transition of *)
(* the document as one step; this module shows when that is sound: update  *)
(* loads, changes and replaces the file under a mutex of the process, but  *)
(* load also runs outside it (open, list, review, save, reconcile), and it *)
(* writes when it finds a document of the older schema.                    *)
(*                                                                         *)
(* A document is its schema and the set of the edits it contains.  Only    *)
(* one session is modelled: sessions share nothing but the permit.  Which  *)
(* calls run, where, and on what document is the setup, fixed at the start. *)
(***************************************************************************)
EXTENDS FiniteSets, Naturals

CONSTANTS
    Tasks,        \* calls into the service
    Processes,    \* processes that have the storage root open
    Setups,       \* [process, kind, file]: see SetupsAssumption
    MaxCrashes    \* bound: process crashes

TaskKinds == {"edit", "review", "begin", "discard", "none"}
Document == [schema : {1, 2}, edits : SUBSET Tasks]
Malformed == [schema |-> 0, edits |-> {}]
Absent == [schema |-> 3, edits |-> {}]

ASSUME SetupsAssumption ==
    Setups \subseteq [process : [Tasks -> Processes], kind : [Tasks -> TaskKinds],
                      file : Document \cup {Malformed}]

ASSUME CrashesAssumption == MaxCrashes \in Nat

VARIABLES
    setup,       \* the setup of this behaviour
    file,        \* what is stored under the name of the session
    copy,        \* [Tasks -> document]: what the task has in memory
    pc,          \* [Tasks -> Steps]
    mutex,       \* [Processes -> SUBSET Tasks]: holder of the permit
    confirmed,   \* edits whose caller was told they are stored
    discarded,   \* history: a discard a user asked for is done
    crashes

vars == <<setup, file, copy, pc, mutex, confirmed, discarded, crashes>>

Kind == setup.kind
ProcessOf == setup.process

Steps == {"start", "load", "quarantine", "migrate", "loaded", "write", "rename",
          "inert", "remove", "done", "failed"}

Go(t, step) == pc' = [pc EXCEPT ![t] = step]
Release(t) == mutex' = [mutex EXCEPT ![ProcessOf[t]] = @ \ {t}]
Fail(t) == Go(t, "failed") /\ Release(t)

-----------------------------------------------------------------------------
(* Mutant of Acquire: nobody waits for the permit.                         *)
AcquireWithoutWaiting(t) ==
    /\ \/ pc[t] = "start" /\ Kind[t] \in {"edit", "discard"}
       \/ pc[t] = "inert"
    /\ mutex' = [mutex EXCEPT ![ProcessOf[t]] = {t}]
    /\ Go(t, IF Kind[t] = "edit" THEN "load" ELSE "remove")
    /\ UNCHANGED <<file, copy, confirmed, discarded, crashes>>

(* Mutant of Acquire: a discard goes ahead without the permit.             *)
AcquireForEditsOnly(t) ==
    /\ \/ pc[t] = "start" /\ Kind[t] \in {"edit", "discard"}
       \/ pc[t] = "inert"
    /\ IF Kind[t] = "edit"
       THEN mutex[ProcessOf[t]] = {} /\ mutex' = [mutex EXCEPT ![ProcessOf[t]] = {t}]
       ELSE UNCHANGED mutex
    /\ Go(t, IF Kind[t] = "edit" THEN "load" ELSE "remove")
    /\ UNCHANGED <<file, copy, confirmed, discarded, crashes>>

(* The permit of the process: taken before update and discard              *)
Acquire(t) ==
    /\ \/ pc[t] = "start" /\ Kind[t] \in {"edit", "discard"}
       \/ pc[t] = "inert"
    /\ mutex[ProcessOf[t]] = {}
    /\ mutex' = [mutex EXCEPT ![ProcessOf[t]] = {t}]
    /\ Go(t, IF Kind[t] = "edit" THEN "load" ELSE "remove")
    /\ UNCHANGED <<file, copy, confirmed, discarded, crashes>>

(* open, review and list load without the permit.                          *)
Loading(t) ==
    \/ pc[t] = "load"
    \/ pc[t] = "start" /\ Kind[t] \in {"review", "begin"}

(* repository.read and the decoder                                         *)
Load(t) ==
    /\ Loading(t)
    /\ file \in Document
    /\ copy' = [copy EXCEPT ![t] = [schema |-> 2, edits |-> file.edits]]
    /\ Go(t, IF file.schema = 1 THEN "migrate" ELSE "loaded")
    /\ UNCHANGED <<file, mutex, confirmed, discarded, crashes>>

LoadNothing(t) ==
    /\ Loading(t)
    /\ file = Absent
    /\ Fail(t)
    /\ UNCHANGED <<file, copy, confirmed, discarded, crashes>>

LoadMalformed(t) ==
    /\ Loading(t)
    /\ file = Malformed
    /\ Go(t, "quarantine")
    /\ UNCHANGED <<file, copy, mutex, confirmed, discarded, crashes>>

(* Moves aside whatever has the name by now; the call fails either way.    *)
Quarantine(t) ==
    /\ pc[t] = "quarantine"
    /\ file' = Absent
    /\ Fail(t)
    /\ UNCHANGED <<copy, confirmed, discarded, crashes>>

(* A document of the older schema is written back by whoever loads it.     *)
PersistMigrated(t) ==
    /\ pc[t] = "migrate"
    /\ file' = copy[t]
    /\ Go(t, "loaded")
    /\ UNCHANGED <<copy, mutex, confirmed, discarded, crashes>>

(* The transition of update, on the loaded copy                            *)
Transition(t) ==
    /\ pc[t] = "loaded"
    /\ Kind[t] = "edit"
    /\ copy' = [copy EXCEPT ![t].edits = @ \cup {t}]
    /\ Go(t, "write")
    /\ UNCHANGED <<file, mutex, confirmed, discarded, crashes>>

(* Mutant of WriteTemporary: the session file itself is opened and         *)
(* truncated.                                                              *)
WriteInPlace(t) ==
    /\ pc[t] = "write"
    /\ file' = Malformed
    /\ Go(t, "rename")
    /\ UNCHANGED <<copy, mutex, confirmed, discarded, crashes>>

(* Mutant of WriteTemporary: the caller is told before the rename.         *)
ConfirmBeforeRename(t) ==
    /\ pc[t] = "write"
    /\ confirmed' = confirmed \cup {t}
    /\ Go(t, "rename")
    /\ UNCHANGED <<file, copy, mutex, discarded, crashes>>

(* repository.persist: the new document is written and synced under a name *)
(* of its own, then takes the name of the session.                         *)
WriteTemporary(t) ==
    /\ pc[t] = "write"
    /\ Go(t, "rename")
    /\ UNCHANGED <<file, copy, mutex, confirmed, discarded, crashes>>

Rename(t) ==
    /\ pc[t] = "rename"
    /\ file' = copy[t]
    /\ confirmed' = confirmed \cup {t}
    /\ Go(t, "done")
    /\ Release(t)
    /\ UNCHANGED <<copy, discarded, crashes>>

(* A review ends with what it loaded.  beginSession goes on to discard a   *)
(* session without edits, and keeps one that has some.                     *)
UseLoaded(t) ==
    /\ pc[t] = "loaded"
    /\ Kind[t] # "edit"
    /\ Go(t, IF Kind[t] = "begin" /\ copy[t].edits = {} THEN "inert" ELSE "done")
    /\ UNCHANGED <<file, copy, mutex, confirmed, discarded, crashes>>

(* repository.discard: removes whatever has the name by now                *)
Remove(t) ==
    /\ pc[t] = "remove"
    /\ IF file = Absent
       THEN Fail(t) /\ UNCHANGED <<file, discarded>>
       ELSE /\ file' = Absent
            /\ discarded' = (discarded \/ Kind[t] = "discard")
            /\ Go(t, "done")
            /\ Release(t)
    /\ UNCHANGED <<copy, confirmed, crashes>>

(* A process stops: its calls end where they are and its permit is gone.   *)
Crash(p) ==
    /\ crashes < MaxCrashes
    /\ crashes' = crashes + 1
    /\ mutex' = [mutex EXCEPT ![p] = {}]
    /\ pc' = [t \in Tasks |->
                 IF ProcessOf[t] = p /\ pc[t] \notin {"start", "done"} THEN "failed" ELSE pc[t]]
    /\ UNCHANGED <<file, copy, confirmed, discarded>>

-----------------------------------------------------------------------------
Init ==
    /\ setup \in Setups
    /\ file = setup.file
    /\ copy = [t \in Tasks |-> Absent]
    /\ pc = [t \in Tasks |-> IF Kind[t] = "none" THEN "done" ELSE "start"]
    /\ mutex = [p \in Processes |-> {}]
    /\ confirmed = file.edits
    /\ discarded = FALSE
    /\ crashes = 0

Step(t) ==
    \/ Acquire(t)
    \/ Load(t) \/ LoadNothing(t) \/ LoadMalformed(t) \/ Quarantine(t) \/ PersistMigrated(t)
    \/ Transition(t) \/ WriteTemporary(t) \/ Rename(t)
    \/ UseLoaded(t) \/ Remove(t)

Finished == \A t \in Tasks : pc[t] \in {"done", "failed"}

(* Nothing more happens once every call has ended; a call that waits for a *)
(* permit nobody gives back would be a deadlock.                           *)
Rest == Finished /\ UNCHANGED vars

Next ==
    \/ \E t \in Tasks : Step(t) /\ UNCHANGED setup
    \/ \E p \in Processes : Crash(p) /\ UNCHANGED setup
    \/ Rest

Spec == Init /\ [][Next]_vars

-----------------------------------------------------------------------------
(* Properties                                                              *)

(* The permit of a process is held by one of its calls, between its        *)
(* acquisition and its end, and every edit past that point holds it.       *)
StoreTypeOK ==
    /\ setup \in Setups
    /\ file \in Document \cup {Malformed, Absent}
    /\ copy \in [Tasks -> Document \cup {Absent}]
    /\ pc \in [Tasks -> Steps]
    /\ mutex \in [Processes -> SUBSET Tasks]
    /\ \A t \in Tasks :
          (Kind[t] = "edit" /\ pc[t] \notin {"start", "done", "failed"}) => mutex[ProcessOf[t]] = {t}
    /\ confirmed \subseteq Tasks
    /\ discarded \in BOOLEAN
    /\ crashes \in 0..MaxCrashes

(* An edit whose caller was told it is stored is in the document for good, *)
(* whatever runs beside it and whenever the process stops, unless a user   *)
(* discards the session ("serializes transitions, fsyncs atomic            *)
(* replacements", packages/authoring/README.md:40).                        *)
ConfirmedEditsSurvive ==
    ~discarded => confirmed \subseteq file.edits

(* A session a user has discarded does not come back.                      *)
DiscardIsFinal ==
    discarded => file = Absent

(* A readable document is only ever followed by a readable one, with no    *)
(* edit less, or is removed by discard: no reader ever finds half a        *)
(* document, and none is moved aside that was whole.                       *)
ReadableStaysReadable ==
    [][(file \in Document) =>
          \/ file' \in Document /\ file.edits \subseteq file'.edits
          \/ file' = Absent /\ \E t \in Tasks : pc[t] = "remove"]_vars

-----------------------------------------------------------------------------
(* What the theorems assume of the setups: edits and discards are of one   *)
(* process, only edits find a document of the older schema, and            *)
(* beginSession is not beside the first edit of a session.  The             *)
(* disagreement about migration and the last two hazards of this module    *)
(* are the behaviours this leaves out.                                     *)
Orderly(s) ==
    /\ \A t, u \in Tasks :
          {s.kind[t], s.kind[u]} \subseteq {"edit", "discard"} => s.process[t] = s.process[u]
    /\ s.file.schema = 1 => \A t \in Tasks : s.kind[t] \notin {"review", "begin"}
    /\ (\E t \in Tasks : s.kind[t] = "begin") =>
          s.file.edits # {} \/ \A t \in Tasks : s.kind[t] # "edit"

OrderlySetups == \A s \in Setups : Orderly(s)

(* Parts of the inductive invariant: where a call of each kind can be, who *)
(* has the permit, what is in memory, and what has the name.               *)
StepsOf(kind) ==
    CASE kind = "edit"    -> {"start", "load", "quarantine", "migrate", "loaded", "write", "rename"}
      [] kind = "review"  -> {"start", "quarantine", "loaded"}
      [] kind = "begin"   -> {"start", "quarantine", "loaded", "inert", "remove"}
      [] kind = "discard" -> {"start", "remove"}
      [] kind = "none"    -> {}

Staged == \A t \in Tasks : pc[t] \in StepsOf(Kind[t]) \cup {"done", "failed"}

RemoverHasPermit == \A t \in Tasks : pc[t] = "remove" => mutex[ProcessOf[t]] = {t}

CopiesAreCurrent ==
    \A t \in Tasks :
       /\ Kind[t] = "edit" /\ pc[t] \in {"migrate", "loaded"} =>
             file \in Document /\ copy[t] = [schema |-> 2, edits |-> file.edits]
       /\ pc[t] \in {"write", "rename"} =>
             file \in Document /\ copy[t] = [schema |-> 2, edits |-> file.edits \cup {t}]
       /\ Kind[t] = "begin" /\ pc[t] = "loaded" => setup.file.edits \subseteq copy[t].edits
       /\ Kind[t] = "begin" /\ pc[t] \in {"inert", "remove"} => setup.file.edits = {}
       /\ pc[t] = "quarantine" => setup.file = Malformed

FileComesFromSetup ==
    /\ setup.file = Malformed => file \in {Malformed, Absent}
    /\ setup.file # Malformed => file # Malformed
    /\ setup.file.schema # 1 => file.schema # 1
    /\ file \in Document => setup.file.edits \subseteq file.edits
    /\ (\A t \in Tasks : Kind[t] # "edit") => confirmed = setup.file.edits

(* The inductive invariant, of orderly setups                              *)
FileInv ==
    /\ StoreTypeOK /\ Staged /\ RemoverHasPermit /\ CopiesAreCurrent /\ FileComesFromSetup
    /\ ConfirmedEditsSurvive /\ DiscardIsFinal
=============================================================================
