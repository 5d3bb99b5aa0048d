------------------------ MODULE UEShedAuthoringEditor ------------------------
(***************************************************************************)
(* The editor side of table authoring (UEShedAuthoringLibrary.cpp).  Every *)
(* call runs to its end on the game thread, so each is one step.  The      *)
(* tables live in editor memory; Save copies them to disk; an exit loses   *)
(* everything that was not saved, the Apply result cache included.         *)
(*                                                                         *)
(* A table is reduced to one cell, so its semantic fingerprint is its      *)
(* value.  How the five command kinds act on rows is AuthoringReplay.      *)
(***************************************************************************)
EXTENDS Integers, Sequences, FiniteSets

CONSTANTS
    Tables,           \* object paths
    Values,           \* cell values
    MaxApplyResults,  \* capacity of the Apply result cache (128 in the code)
    MaxSavePaths      \* most tables one Save may name (64 in the code)

ASSUME CapacityAssumption == MaxApplyResults \in Nat \ {0} /\ MaxSavePaths \in Nat

VARIABLES
    live,             \* [Tables -> Values]: DataTables in editor memory
    disk,             \* [Tables -> Values]: the saved packages
    results,          \* ApplyResultCache: operation id -> [request, result]
    resultOrder,      \* ApplyResultOrder: ids in the order they were cached
    applied,          \* history: the batches the editor has run, in order
    unsaved           \* history: tables with a committed batch still to lose

editorVars == <<live, disk, results, resultOrder, applied, unsaved>>

ApplyStatus == {"committed", "rolled_back", "rejected"}
Commands == [table : Tables, oldValue : Values, newValue : Values]
Snapshots == UNION {[S -> Values] : S \in SUBSET Tables}
ApplyRequests == [id : Nat, commands : Seq(Commands), expected : Snapshots]
ApplyResults == [id : Nat, status : ApplyStatus, snapshots : Snapshots]
SaveRequests == [id : Nat, paths : SUBSET Tables]
SaveResults == [id : Nat, saved : SUBSET Tables, failed : SUBSET Tables]

SnapshotOf(tables, S) == [t \in S |-> tables[t]]

-----------------------------------------------------------------------------
(* Apply                                                                   *)

(* The last of the first k commands that changes table t (at most one)     *)
LastOn(log, k, t) ==
    {j \in 1..k : log[j].table = t /\ \A i \in (j + 1)..k : log[i].table # t}

(* What the first k commands make of table t                               *)
ValueAt(tables, log, k, t) ==
    IF LastOn(log, k, t) = {} THEN tables[t]
    ELSE log[CHOOSE j \in LastOn(log, k, t) : TRUE].newValue

After(tables, log) == [t \in Tables |-> ValueAt(tables, log, Len(log), t)]

(* The command loop fails at the first command whose old value is stale.   *)
Runs(tables, log) ==
    \A k \in DOMAIN log : ValueAt(tables, log, k - 1, log[k].table) = log[k].oldValue

(* Mutant of RestoreTables: a failed batch is left half done.              *)
RestoreNothing(tables, backups) == tables

(* RestoreTable for every table of the plan.                               *)
RestoreTables(tables, backups) ==
    [t \in Tables |-> IF t \in DOMAIN backups THEN backups[t] ELSE tables[t]]

(* The answer to a request whose id the cache knows: the remembered result *)
(* of the same request, or a refusal when the id was used for another.     *)
CachedResult(request) ==
    IF results[request.id].request = request
    THEN results[request.id].result
    ELSE [id |-> request.id, status |-> "rejected", snapshots |-> SnapshotOf(live, {})]

Outcome(request, status, tables, S) ==
    [live |-> tables,
     result |-> [id |-> request.id, status |-> status, snapshots |-> SnapshotOf(tables, S)]]

(* What one Apply can do to the live tables: reject the plan, when a table *)
(* cannot be loaded and always when one has another fingerprint than the   *)
(* plan expects; run all the commands; or stop at any one of them and      *)
(* restore the backups.                                                    *)
Outcomes(request) ==
    LET plan == DOMAIN request.expected
        Prefix(k) == SubSeq(request.commands, 1, k)
    IN  IF request.id \in DOMAIN results
        THEN {[live |-> live, result |-> CachedResult(request)]}
        ELSE {Outcome(request, "rejected", live, {})}
             \cup
             (IF /\ \A t \in plan : live[t] = request.expected[t]
                 /\ Runs(live, request.commands)
              THEN {Outcome(request, "committed", After(live, request.commands), plan)}
              ELSE {})
             \cup
             (IF \A t \in plan : live[t] = request.expected[t]
              THEN {Outcome(request, "rolled_back",
                            RestoreTables(After(live, Prefix(k)), SnapshotOf(live, plan)), plan) :
                       k \in {j \in 0..(Len(request.commands) - 1) : Runs(live, Prefix(j))}}
              ELSE {})

(* CacheApplyResult: first in, first out beyond the capacity.              *)
Remember(entry) ==
    LET order == Append(resultOrder, entry.result.id)
        kept  == IF Len(order) > MaxApplyResults THEN Tail(order) ELSE order
    IN  /\ resultOrder' = kept
        /\ results' = [id \in {kept[k] : k \in DOMAIN kept} |->
                          IF id = entry.result.id THEN entry ELSE results[id]]

EditorApply(request, o) ==
    /\ o \in Outcomes(request)
    /\ live' = o.live
    /\ IF request.id \in DOMAIN results
       THEN UNCHANGED <<results, resultOrder, applied, unsaved>>
       ELSE /\ Remember([request |-> request, result |-> o.result])
            /\ applied' = Append(applied, [id |-> request.id, status |-> o.result.status])
            /\ unsaved' = IF o.result.status = "committed"
                          THEN unsaved \cup DOMAIN request.expected ELSE unsaved
    /\ UNCHANGED disk

-----------------------------------------------------------------------------
(* Save: each package is written or fails on its own.  A request that names *)
(* too many is an error, and nothing is written.                           *)
SaveAllowed(request) == Cardinality(request.paths) <= MaxSavePaths

EditorSave(request, written) ==
    /\ SaveAllowed(request)
    /\ written \subseteq request.paths
    /\ disk' = [t \in Tables |-> IF t \in written THEN live[t] ELSE disk[t]]
    /\ unsaved' = unsaved \ written
    /\ UNCHANGED <<live, results, resultOrder, applied>>

-----------------------------------------------------------------------------
(* The rest of the editor, which the session does not control.             *)

(* A person edits a table in the editor.                                   *)
PersonEdits(t, v) ==
    /\ live' = [live EXCEPT ![t] = v]
    /\ UNCHANGED <<disk, results, resultOrder, applied, unsaved>>

(* A person saves a table from the editor's own menu.                      *)
PersonSaves(t) ==
    /\ disk' = [disk EXCEPT ![t] = live[t]]
    /\ unsaved' = unsaved \ {t}
    /\ UNCHANGED <<live, results, resultOrder, applied>>

(* Another client's batch commits: it changes a table and takes a place in *)
(* the result cache.                                                       *)
OtherClientApplies(id, t, v) ==
    /\ live' = [live EXCEPT ![t] = v]
    /\ Remember([request |-> [id |-> id, commands |-> <<>>, expected |-> SnapshotOf(live, {t})],
                 result  |-> [id |-> id, status |-> "committed",
                              snapshots |-> SnapshotOf(live', {t})]])
    /\ UNCHANGED <<disk, applied, unsaved>>

(* The editor exits and starts again: memory is read back from disk, and   *)
(* no batch is left to lose.                                               *)
EditorRestart ==
    /\ live' = disk
    /\ results' = <<>>
    /\ resultOrder' = <<>>
    /\ unsaved' = {}
    /\ UNCHANGED <<disk, applied>>

EditorInit ==
    /\ live \in [Tables -> Values]
    /\ disk = live
    /\ results = <<>>
    /\ resultOrder = <<>>
    /\ applied = <<>>
    /\ unsaved = {}

EditorTypeOK ==
    /\ live \in [Tables -> Values]
    /\ disk \in [Tables -> Values]
    /\ resultOrder \in Seq(Nat)
    /\ DOMAIN results = {resultOrder[k] : k \in DOMAIN resultOrder}
    /\ \A id \in DOMAIN results : results[id].result \in ApplyResults /\ results[id].result.id = id
    /\ applied \in Seq([id : Nat, status : ApplyStatus])
    /\ unsaved \subseteq Tables
=============================================================================
