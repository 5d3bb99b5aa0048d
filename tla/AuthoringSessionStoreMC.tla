---------------------- MODULE AuthoringSessionStoreMC ----------------------
(* The setups the runs of AuthoringSessionStore start from.                *)
EXTENDS AuthoringSessionStore

CONSTANTS e1, e2, r1, b1, d1, workbench, cli

(* e: an edit, r: a review or a list, b: beginSession, d: discard *)
KindOf(t) == CASE t \in {e1, e2} -> "edit"
               [] t = r1 -> "review"
               [] t = b1 -> "begin"
               [] t = d1 -> "discard"

(* The calls that run, the document they find, and the process that reads  *)
(* beside the workbench that edits.                                        *)
Setup(calls, document, reader) ==
    [process |-> [t \in Tasks |-> IF t = r1 THEN reader ELSE workbench],
     kind    |-> [t \in Tasks |-> IF t \in calls THEN KindOf(t) ELSE "none"],
     file    |-> document]

Empty(schema) == [schema |-> schema, edits |-> {}]

(* A current or malformed document under every kind of call; a document of *)
(* the older schema while nobody only reads; a document with an edit when  *)
(* beginSession resumes it.                                                *)
SafeSetups ==
    {Setup({e1, e2, r1, d1}, Empty(2), cli),
     Setup({e1, e2, r1, d1}, Malformed, cli),
     Setup({e1, e2, d1}, Empty(1), cli),
     Setup({r1, b1, d1}, Empty(2), cli),
     Setup({e1, r1, b1, d1}, [schema |-> 2, edits |-> {e2}], cli)}

ASSUME SafeSetupsAreOrderly == \A s \in SafeSetups : Orderly(s)

(* A review of a document of the older schema, beside an edit.             *)
MigrationSetups == {Setup({e1, r1}, Empty(1), workbench)}
=============================================================================
