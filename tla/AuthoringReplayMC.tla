------------------------- MODULE AuthoringReplayMC -------------------------
(* Names that differ only in case, and values for each way an assignment   *)
(* can go: p and q differ in text identity only and read back as written;  *)
(* typed is a struct typed by hand, its integer spelt otherwise and its    *)
(* text without a key, which reads back as q; generated is text that can   *)
(* be read but not written.                                                *)
EXTENDS AuthoringReplay

MCTables == {"T"}
MCNames == {"a", "A", "b"}
MCFNameOf == [n \in MCNames |-> IF n = "A" THEN "a" ELSE n]

p == [text |-> "x", key |-> "k1"]
q == [text |-> "x", key |-> "k2"]
typed == [text |-> "0x", key |-> "none"]
generated == [text |-> "g", key |-> "generated"]

MCValues == {p, q, typed, generated}
MCStored == {p, q, generated}
MCDefault == p
MCAssigned ==
    [held \in MCStored |-> [v \in MCValues |->
        CASE v = typed -> {q} [] v = generated -> {} [] OTHER -> {v}]]
MCBaseTables == {<<[name |-> "b", val |-> p], [name |-> "A", val |-> generated]>>}
=============================================================================
