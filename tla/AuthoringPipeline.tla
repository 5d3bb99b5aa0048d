------------------------- MODULE AuthoringPipeline -------------------------
(***************************************************************************)
(* What a session promises of its Draft to Applied to Saved pipeline       *)
(* (docs/products/data-authoring.md:83-95): the editor decides a batch     *)
(* once, the session records that decision and no other, and a table       *)
(* leaves the list of what to Save only when nothing of it can be lost.    *)
(* No messages, callers, retries or restarts: AuthoringSession has them    *)
(* and implements this.                                                    *)
(***************************************************************************)
EXTENDS Naturals

CONSTANTS Tables

VARIABLES
    batch,     \* the batch sent to the editor and not recorded, or NoBatch
    decided,   \* [ids -> Decision]: what the editor has made of a batch
    recorded,  \* [ids -> Decision]: the receipts of the session
    unsaved,   \* tables the editor has in memory only
    owed       \* tables the session says are still to be saved

vars == <<batch, decided, recorded, unsaved, owed>>

Decision == {"committed", "rolled_back", "rejected"}
NoBatch == [id |-> 0, tables |-> {}]

With(f, id, value) == [i \in DOMAIN f \cup {id} |-> IF i = id THEN value ELSE f[i]]
TablesOf(decision) == IF decision = "committed" THEN batch.tables ELSE {}

(* One batch at a time, never under an id that was used before             *)
Prepare ==
    /\ batch = NoBatch
    /\ batch' \in [id : Nat \ {0}, tables : SUBSET Tables]
    /\ batch'.id \notin DOMAIN decided
    /\ UNCHANGED <<decided, recorded, unsaved, owed>>

(* The editor decides; it may do so long after it was asked.               *)
Decide(decision) ==
    /\ batch # NoBatch
    /\ batch.id \notin DOMAIN decided
    /\ decided' = With(decided, batch.id, decision)
    /\ unsaved' = unsaved \cup TablesOf(decision)
    /\ UNCHANGED <<batch, recorded, owed>>

(* The session records the decision.                                       *)
Record ==
    /\ batch # NoBatch
    /\ batch.id \in DOMAIN decided
    /\ recorded' = With(recorded, batch.id, decided[batch.id])
    /\ owed' = owed \cup TablesOf(decided[batch.id])
    /\ batch' = NoBatch
    /\ UNCHANGED <<decided, unsaved>>

(* Tables are written to disk, or lost with the editor.                    *)
Write(tables) ==
    /\ unsaved' = unsaved \ tables
    /\ UNCHANGED <<batch, decided, recorded, owed>>

(* The session learns that tables are saved.                               *)
Settle(tables) ==
    /\ tables \cap unsaved = {}
    /\ owed' = owed \ tables
    /\ UNCHANGED <<batch, decided, recorded, unsaved>>

Init ==
    /\ batch = NoBatch
    /\ decided = [i \in {} |-> "rejected"]
    /\ recorded = [i \in {} |-> "rejected"]
    /\ unsaved = {}
    /\ owed = {}

Next ==
    \/ Prepare
    \/ \E decision \in Decision : Decide(decision)
    \/ Record
    \/ \E tables \in SUBSET Tables : Write(tables) \/ Settle(tables)

Spec == Init /\ [][Next]_vars
=============================================================================
