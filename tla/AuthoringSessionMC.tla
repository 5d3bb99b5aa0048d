------------------------- MODULE AuthoringSessionMC -------------------------
(* Callers are alike, and so are values: nothing in the specification or   *)
(* in the invariants of the run tells one from another.                    *)
EXTENDS AuthoringSession, TLC

Alike == Permutations(Callers) \cup Permutations(Values)
=============================================================================
