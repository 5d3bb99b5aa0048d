------------------------ MODULE AuthoringDraftProofs ------------------------
(***************************************************************************)
(* Proofs about AuthoringDraft, for any tables, names, values, snapshots   *)
(* and bounds.                                                             *)
(*                                                                         *)
(* foldTable is a recursion over the log.  The provers cannot use the      *)
(* library's induction theorems, which take a predicate; here induction is *)
(* stated for a SET of naturals, which is first-order, and follows from    *)
(* the well-foundedness of the order.  With it the intermediate results of *)
(* the recursion exist, FoldTable is the last of them, and each of them    *)
(* comes from the one before (FoldOfPrefix): all later lemmas rest on that.*)
(***************************************************************************)
EXTENDS AuthoringDraft, SequenceTheorems, FunctionTheorems, FiniteSetTheorems, TLAPS

(* The library's order relation on the naturals, as a set of pairs.        *)
LEMMA LessRelation == OpToRel(<, Nat) = {ss \in Nat \X Nat : ss[1] < ss[2]}
BY DEF OpToRel

(* A nonempty set of naturals has a least element.                         *)
LEMMA Smallest ==
    ASSUME NEW S, S \subseteq Nat, S # {}
    PROVE  \E m \in S : \A k \in S : m <= k
<1> DEFINE Less == {ss \in Nat \X Nat : ss[1] < ss[2]}
<1>1. PICK m \in S : \A k \in S : ~(<<k, m>> \in Less)
  <2>1. IsWellFoundedOn(Less, Nat)
    BY NatLessThanWellFounded, LessRelation
  <2> HIDE DEF Less
  <2> QED BY <2>1, WFMin
<1>2. \A k \in S : m <= k
  <2> SUFFICES ASSUME NEW k \in S, ~(m <= k) PROVE FALSE
    OBVIOUS
  <2>1. k \in Nat /\ m \in Nat /\ k < m
    OBVIOUS
  <2>2. <<k, m>> \in Less
    BY <2>1
  <2> QED BY <1>1, <2>2
<1> QED BY <1>1, <1>2

(* Induction over the naturals, for a set instead of a predicate.          *)
LEMMA NatSetInduction ==
    ASSUME NEW S, 0 \in S, \A n \in Nat : n \in S => n + 1 \in S
    PROVE  Nat \subseteq S
<1> DEFINE Miss == Nat \ S
<1>1. SUFFICES ASSUME Miss # {} PROVE FALSE
  OBVIOUS
<1>2. PICK m \in Miss : \A k \in Miss : m <= k
  BY <1>1, Smallest
<1>3. m \in Nat /\ m # 0 /\ m - 1 \in Nat /\ m - 1 \notin Miss
  BY <1>2
<1>4. (m - 1) + 1 = m
  BY <1>3
<1> QED BY <1>2, <1>3, <1>4

(* One command of a log, folded into a set of tables.                      *)
FoldOne(t, tables, c) ==
    IF c.table # t THEN tables ELSE UNION {FoldCommand(r, c.body) : r \in tables}

(* f is the function of intermediate results foldTable computes.           *)
IsFold(t, rows, log, n, f) ==
    f = [k \in 0..n |-> IF k = 0 THEN {rows} ELSE FoldOne(t, f[k - 1], log[k])]

(* By induction over the length, the intermediate results exist.           *)
LEMMA FoldExists ==
    ASSUME NEW t, NEW rows, NEW log
    PROVE  \A n \in Nat : \E f : IsFold(t, rows, log, n, f)
<1> DEFINE S == {n \in Nat : \E f : IsFold(t, rows, log, n, f)}
<1>1. 0 \in S
  <2> DEFINE f == [k \in 0..0 |-> {rows}]
  <2>1. IsFold(t, rows, log, 0, f)
    BY DEF IsFold
  <2> QED BY <2>1
<1>2. ASSUME NEW n \in Nat, n \in S PROVE n + 1 \in S
  <2>1. PICK f : IsFold(t, rows, log, n, f)
    BY <1>2
  <2> DEFINE g == [k \in 0..(n + 1) |-> IF k = n + 1 THEN FoldOne(t, f[n], log[n + 1]) ELSE f[k]]
  <2>2. ASSUME NEW k \in 0..(n + 1)
        PROVE  g[k] = IF k = 0 THEN {rows} ELSE FoldOne(t, g[k - 1], log[k])
    <3>1. CASE k = 0 BY <3>1, <2>1 DEF IsFold
    <3>2. CASE k \in 1..n
      <4>1. k - 1 \in 0..n /\ k \in 0..n /\ k # 0 /\ k # n + 1 /\ k - 1 # n + 1 /\ k - 1 \in 0..(n+1) BY <3>2
      <4>2. g[k] = f[k] /\ g[k - 1] = f[k - 1] BY <4>1
      <4>3. f[k] = FoldOne(t, f[k - 1], log[k]) BY <4>1, <2>1 DEF IsFold
      <4> QED BY <4>1, <4>2, <4>3
    <3>3. CASE k = n + 1
      <4>1. k - 1 = n /\ g[k - 1] = f[n] /\ k # 0 BY <3>3
      <4> QED BY <3>3, <4>1
    <3> QED BY <3>1, <3>2, <3>3
  <2>3. IsFold(t, rows, log, n + 1, g)
    BY <2>2 DEF IsFold
  <2> QED BY <2>3
<1>3. Nat \subseteq S
  <2> HIDE DEF S
  <2> QED BY <1>1, <1>2, NatSetInduction
<1> QED BY <1>3

(* foldTable returns the last of the intermediate results.                 *)
LEMMA FoldTableIsFold ==
    ASSUME NEW t, NEW rows, NEW log, Len(log) \in Nat
    PROVE  \E f : IsFold(t, rows, log, Len(log), f) /\ FoldTable(t, rows, log) = f[Len(log)]
<1>1. PICK f0 : IsFold(t, rows, log, Len(log), f0)
  BY FoldExists
<1> DEFINE f == CHOOSE f : IsFold(t, rows, log, Len(log), f)
<1>2. IsFold(t, rows, log, Len(log), f)
  BY <1>1
<1>3. FoldTable(t, rows, log) = f[Len(log)]
  BY DEF FoldTable, IsFold, FoldOne
<1> QED BY <1>2, <1>3

(* What it means that u is s with e inserted at i.                         *)
Inserted(u, s, i, e, S) ==
    /\ u \in Seq(S) /\ Len(u) = Len(s) + 1
    /\ \A j \in 1..(Len(s) + 1) : u[j] = IF j < i THEN s[j] ELSE IF j = i THEN e ELSE s[j - 1]

(* What it means that u is s without its i-th element.                     *)
Removed(u, s, i, S) ==
    /\ u \in Seq(S) /\ Len(u) = Len(s) - 1
    /\ \A j \in 1..(Len(s) - 1) : u[j] = IF j < i THEN s[j] ELSE s[j + 1]

(* What InsertAt returns.                                                  *)
LEMMA InsertAtIs ==
    ASSUME NEW S, NEW s \in Seq(S), NEW i \in 1..(Len(s) + 1), NEW e \in S
    PROVE  Inserted(InsertAt(s, i, e), s, i, e, S)
<1> DEFINE a == SubSeq(s, 1, i - 1)
           b == <<e>>
           c == SubSeq(s, i, Len(s))
           ab == a \o b
<1>0. Len(s) \in Nat /\ DOMAIN s = 1..Len(s)
  BY LenProperties
<1>1. /\ a \in Seq(S) /\ Len(a) = i - 1
      /\ \A j \in 1..(i - 1) : a[j] = s[j]
  <2>1. \A j \in 1..(i - 1) : s[j] \in S
    BY <1>0, ElementOfSeq
  <2>2. \A j \in 1..(i - 1) : a[j] = s[1 + j - 1] /\ 1 + j - 1 = j
    BY <2>1, <1>0, SubSeqProperties
  <2>3. a \in Seq(S) /\ Len(a) = IF 1 <= i - 1 THEN i - 1 - 1 + 1 ELSE 0
    BY <2>1, <1>0, SubSeqProperties
  <2> QED BY <2>2, <2>3, <1>0
<1>2. b \in Seq(S) /\ Len(b) = 1 /\ b[1] = e
  OBVIOUS
<1>3. /\ c \in Seq(S) /\ Len(c) = Len(s) - i + 1
      /\ \A j \in 1..(Len(s) - i + 1) : c[j] = s[i + j - 1]
  <2>1. \A j \in i..Len(s) : s[j] \in S
    BY <1>0, ElementOfSeq
  <2> HIDE DEF b
  <2> QED BY <2>1, <1>0, SubSeqProperties
<1> HIDE DEF a, b, c
<1>4. /\ ab \in Seq(S) /\ Len(ab) = i
      /\ \A j \in 1..i : ab[j] = IF j < i THEN s[j] ELSE e
  <2>1. /\ ab \in Seq(S) /\ Len(ab) = Len(a) + Len(b)
        /\ \A j \in 1..(Len(a) + Len(b)) : ab[j] = IF j <= Len(a) THEN a[j] ELSE b[j - Len(a)]
    BY <1>1, <1>2, ConcatProperties
  <2> HIDE DEF ab
  <2> QED BY <1>0, <1>1, <1>2, <2>1
<1> HIDE DEF ab
<1>5. /\ ab \o c \in Seq(S) /\ Len(ab \o c) = Len(ab) + Len(c)
      /\ \A j \in 1..(Len(ab) + Len(c)) :
            (ab \o c)[j] = IF j <= Len(ab) THEN ab[j] ELSE c[j - Len(ab)]
  BY <1>3, <1>4, ConcatProperties
<1>6. InsertAt(s, i, e) = ab \o c
  BY DEF InsertAt, ab, a, b, c
<1> QED BY <1>0, <1>3, <1>4, <1>5, <1>6 DEF Inserted

(* What RemoveAt returns.                                                  *)
LEMMA RemoveAtIs ==
    ASSUME NEW S, NEW s \in Seq(S), NEW i \in 1..Len(s)
    PROVE  Removed(RemoveAt(s, i), s, i, S)
<1> DEFINE a == SubSeq(s, 1, i - 1)
           c == SubSeq(s, i + 1, Len(s))
<1>0. Len(s) \in Nat /\ DOMAIN s = 1..Len(s)
  BY LenProperties
<1>1. /\ a \in Seq(S) /\ Len(a) = i - 1
      /\ \A j \in 1..(i - 1) : a[j] = s[j]
  <2>1. \A j \in 1..(i - 1) : s[j] \in S
    BY <1>0, ElementOfSeq
  <2>2. \A j \in 1..(i - 1) : a[j] = s[1 + j - 1] /\ 1 + j - 1 = j
    BY <2>1, <1>0, SubSeqProperties
  <2>3. a \in Seq(S) /\ Len(a) = IF 1 <= i - 1 THEN i - 1 - 1 + 1 ELSE 0
    BY <2>1, <1>0, SubSeqProperties
  <2> QED BY <2>2, <2>3, <1>0
<1>2. /\ c \in Seq(S) /\ Len(c) = Len(s) - i
      /\ \A j \in 1..(Len(s) - i) : c[j] = s[i + j]
  <2>1. \A j \in (i + 1)..Len(s) : s[j] \in S
    BY <1>0, ElementOfSeq
  <2>2. \A j \in 1..(Len(s) - (i + 1) + 1) : c[j] = s[(i + 1) + j - 1] /\ (i + 1) + j - 1 = i + j
    BY <2>1, <1>0, SubSeqProperties
  <2>3. c \in Seq(S) /\ Len(c) = IF i + 1 <= Len(s) THEN Len(s) - (i + 1) + 1 ELSE 0
    BY <2>1, <1>0, SubSeqProperties
  <2>4. Len(s) - (i + 1) + 1 = Len(s) - i
    BY <1>0
  <2>5. Len(c) = Len(s) - i
    <3>1. Len(c) = IF i + 1 <= Len(s) THEN Len(s) - i ELSE 0
      BY <2>3, <2>4
    <3> HIDE DEF c
    <3>2. CASE i + 1 <= Len(s) BY <3>1, <3>2
    <3>3. CASE ~(i + 1 <= Len(s))
      <4>1. \A n \in Nat : \A k \in 1..n : ~(k + 1 <= n) => n - k = 0
        OBVIOUS
      <4>2. Len(s) - i = 0
        BY <3>3, <4>1, <1>0
      <4> QED BY <3>1, <3>3, <4>2
    <3> QED BY <3>2, <3>3
  <2>6. ASSUME NEW j \in 1..(Len(s) - i) PROVE c[j] = s[i + j]
    BY <2>2, <2>4
  <2> QED BY <2>3, <2>5, <2>6
<1> HIDE DEF a, c
<1>3. /\ a \o c \in Seq(S) /\ Len(a \o c) = Len(a) + Len(c)
      /\ \A j \in 1..(Len(a) + Len(c)) :
            (a \o c)[j] = IF j <= Len(a) THEN a[j] ELSE c[j - Len(a)]
  BY <1>1, <1>2, ConcatProperties
<1>4. RemoveAt(s, i) = a \o c
  BY DEF RemoveAt, a, c
<1>5. \A j \in 1..(Len(s) - 1) : (a \o c)[j] = IF j < i THEN s[j] ELSE s[j + 1]
  <2> TAKE j \in 1..(Len(s) - 1)
  <2>1. (a \o c)[j] = IF j <= i - 1 THEN a[j] ELSE c[j - (i - 1)]
    BY <1>0, <1>1, <1>2, <1>3
  <2>2. CASE j < i BY <2>1, <2>2, <1>0, <1>1
  <2>3. CASE ~(j < i)
    <3>1. j - (i - 1) \in 1..(Len(s) - i) /\ i + (j - (i - 1)) = j + 1 BY <2>3, <1>0
    <3>2. c[j - (i - 1)] = s[i + (j - (i - 1))] BY <3>1, <1>2
    <3>3. ~(j <= i - 1) BY <2>3, <1>0
    <3>4. (a \o c)[j] = c[j - (i - 1)] BY <2>1, <3>3
    <3> QED BY <2>3, <3>1, <3>2, <3>4
  <2> QED BY <2>2, <2>3
<1>6. Len(a) + Len(c) = Len(s) - 1
  BY <1>0, <1>1, <1>2
<1> QED BY <1>3, <1>4, <1>5, <1>6 DEF Removed

(* Removing an inserted element gives the sequence back.                   *)
LEMMA RemoveInserted ==
    ASSUME NEW S, NEW s \in Seq(S), NEW i \in 1..(Len(s) + 1), NEW e \in S
    PROVE  RemoveAt(InsertAt(s, i, e), i) = s
<1> DEFINE r == InsertAt(s, i, e)
           u == RemoveAt(r, i)
<1>0. Len(s) \in Nat
  BY LenProperties
<1>1. /\ r \in Seq(S) /\ Len(r) = Len(s) + 1
      /\ \A j \in 1..(Len(s) + 1) : r[j] = IF j < i THEN s[j] ELSE IF j = i THEN e ELSE s[j - 1]
  <2>1. Inserted(r, s, i, e, S)
    BY InsertAtIs
  <2> HIDE DEF r
  <2> QED BY <2>1 DEF Inserted
<1>2. /\ u \in Seq(S) /\ Len(u) = Len(r) - 1
      /\ \A j \in 1..(Len(r) - 1) : u[j] = IF j < i THEN r[j] ELSE r[j + 1]
  <2> HIDE DEF r
  <2>1. i \in 1..Len(r) BY <1>1
  <2> QED BY <1>1, <2>1, RemoveAtIs DEF Removed
<1> HIDE DEF r, u
<1>3. ASSUME NEW j \in 1..Len(s) PROVE u[j] = s[j]
  <2>1. j \in 1..(Len(s) + 1) /\ j \in Nat /\ i \in Nat
    BY <1>0
  <2>2. j < i => u[j] = r[j] /\ r[j] = s[j]
    BY <2>1, <1>0, <1>1, <1>2
  <2>3. ~(j < i) => u[j] = r[j + 1] /\ j + 1 \in 1..(Len(s) + 1) /\ j + 1 # i /\ ~(j + 1 < i) /\ (j + 1) - 1 = j
    BY <2>1, <1>0, <1>1, <1>2
  <2> QED BY <2>2, <2>3, <1>1
<1>4. Len(u) = Len(s) BY <1>1, <1>2
<1> QED BY <1>2, <1>3, <1>4, SeqEqual DEF r, u

(* Inserting a removed element at its place gives the sequence back.       *)
LEMMA InsertRemoved ==
    ASSUME NEW S, NEW s \in Seq(S), NEW i \in 1..Len(s)
    PROVE  InsertAt(RemoveAt(s, i), i, s[i]) = s
<1> DEFINE r == RemoveAt(s, i)
           e == s[i]
           u == InsertAt(r, i, e)
<1>0. Len(s) \in Nat
  BY LenProperties
<1>1. /\ r \in Seq(S) /\ Len(r) = Len(s) - 1
      /\ \A j \in 1..(Len(s) - 1) : r[j] = IF j < i THEN s[j] ELSE s[j + 1]
  BY RemoveAtIs DEF Removed
<1>2. /\ u \in Seq(S) /\ Len(u) = Len(r) + 1
      /\ \A j \in 1..(Len(r) + 1) : u[j] = IF j < i THEN r[j] ELSE IF j = i THEN e ELSE r[j - 1]
  <2>1. i \in 1..(Len(r) + 1) /\ e \in S BY <1>0, <1>1, ElementOfSeq
  <2> HIDE DEF r, e
  <2> QED BY <1>1, <2>1, InsertAtIs DEF Inserted
<1> HIDE DEF r, e, u
<1>3. ASSUME NEW j \in 1..Len(s) PROVE u[j] = s[j]
  <2>1. j \in 1..(Len(r) + 1) /\ j \in Nat /\ i \in Nat
    BY <1>0, <1>1
  <2>2. j < i => u[j] = r[j] /\ j \in 1..(Len(s) - 1) /\ r[j] = s[j]
    BY <2>1, <1>0, <1>1, <1>2
  <2>3. j = i => u[j] = s[j]
    BY <2>1, <1>2 DEF e
  <2>4. ~(j < i) /\ j # i => u[j] = r[j - 1] /\ j - 1 \in 1..(Len(s) - 1) /\ ~(j - 1 < i) /\ (j - 1) + 1 = j
    BY <2>1, <1>0, <1>1, <1>2
  <2> QED BY <2>2, <2>3, <2>4, <1>1
<1>4. Len(u) = Len(s) BY <1>1, <1>2
<1> QED BY <1>2, <1>3, <1>4, SeqEqual DEF r, e, u

(* Row identities, and the rows of a working table.                        *)
RowIdentity == {SnapshotRowId(n) : n \in Names} \cup {DraftRowId(d) : d \in DraftRowIds}
Row == [id : RowIdentity, name : Names, val : Values]

(* No two rows share an identity, or a name without regard to case.        *)
DistinctRows(rows) ==
    \A i, j \in DOMAIN rows :
       i # j => rows[i].id # rows[j].id /\ ~SameFName(rows[i].name, rows[j].name)

(* The tables a draft works on.                                            *)
WellFormed(rows) == rows \in Seq(Row) /\ DistinctRows(rows)

(* What an intent guarantees of the command it builds against rows.        *)
Fits(rows, c) ==
    \/ /\ c.kind = "set_cell"
       /\ c = [kind |-> "set_cell", rowId |-> c.rowId, oldValue |-> c.oldValue, newValue |-> c.newValue]
       /\ c.newValue \in Values
    \/ /\ c \in [kind : {"add_row"}, atIndex : Nat, row : Row]
       /\ ValidNewName(rows, c.row.name, NoRow)
    \/ /\ c \in [kind : {"remove_row"}, atIndex : Nat, row : Row]
       /\ c.atIndex + 1 \in DOMAIN rows /\ rows[c.atIndex + 1] = c.row
    \/ /\ c \in [kind : {"rename_row"}, rowId : RowIdentity, oldName : Names, newName : Names]
       /\ ValidNewName(rows, c.newName, c.rowId)
    \/ c \in [kind : {"reorder_rows"}, oldOrder : Seq(RowIdentity), newOrder : Seq(RowIdentity)]

(* Folding a command is folding it by its kind.                            *)
LEMMA FoldCommandIs ==
    ASSUME NEW rows, NEW c
    PROVE  /\ c.kind = "set_cell" => FoldCommand(rows, c) = FoldSetCell(rows, c)
           /\ c.kind = "add_row" => FoldCommand(rows, c) = FoldAddRow(rows, c)
           /\ c.kind = "remove_row" => FoldCommand(rows, c) = FoldRemoveRow(rows, c)
           /\ c.kind = "rename_row" => FoldCommand(rows, c) = FoldRenameRow(rows, c)
           /\ c.kind = "reorder_rows" => FoldCommand(rows, c) = FoldReorderRows(rows, c)
BY DEF FoldCommand

(* The parts of a well-formed table.                                       *)
LEMMA WellFormedIs ==
    ASSUME NEW rows, WellFormed(rows)
    PROVE  /\ Len(rows) \in Nat /\ DOMAIN rows = 1..Len(rows)
           /\ \A k \in DOMAIN rows :
                 /\ rows[k] \in Row /\ rows[k].id \in RowIdentity /\ rows[k].name \in Names
                 /\ rows[k].val \in Values
                 /\ rows[k] = [id |-> rows[k].id, name |-> rows[k].name, val |-> rows[k].val]
<1>1. rows \in Seq(Row)
  BY DEF WellFormed
<1>2. Len(rows) \in Nat /\ DOMAIN rows = 1..Len(rows)
  BY <1>1, LenProperties
<1>3. \A k \in DOMAIN rows : rows[k] \in Row
  BY <1>1, <1>2, ElementOfSeq
<1> QED BY <1>2, <1>3 DEF Row

(* An identity of a well-formed table is the identity of one row.          *)
LEMMA OneRow ==
    ASSUME NEW rows, WellFormed(rows), NEW k \in DOMAIN rows
    PROVE  AtRow(rows, rows[k].id) = {k}
BY DEF WellFormed, DistinctRows, AtRow

(* Sequences that agree at every index are equal.                          *)
LEMMA SameRows ==
    ASSUME NEW S, NEW s \in Seq(S), NEW t \in Seq(S), DOMAIN s = DOMAIN t,
           \A i \in DOMAIN s : s[i] = t[i]
    PROVE  s = t
<1>1. Len(s) \in Nat /\ DOMAIN s = 1..Len(s) /\ Len(t) \in Nat /\ DOMAIN t = 1..Len(t)
  BY LenProperties
<1> DEFINE D == DOMAIN s
<1>2. s \in [D -> S] /\ t \in [D -> S]
  BY <1>1, LenProperties
<1>3. \A i \in D : s[i] = t[i]
  OBVIOUS
<1> HIDE DEF D
<1> QED BY <1>2, <1>3

(* A function on 1..n is a sequence of length n.                           *)
LEMMA FunIsSeq ==
    ASSUME NEW S, NEW n \in Nat, NEW f \in [1..n -> S]
    PROVE  f \in Seq(S) /\ Len(f) = n /\ DOMAIN f = 1..n
<1>1. f \in Seq(S)
  BY SeqDef
<1>2. Len(f) \in Nat /\ DOMAIN f = 1..Len(f)
  BY <1>1, LenProperties
<1> QED BY <1>1, <1>2

(* A cell edit keeps the table well formed and is inverted by its inverse. *)
LEMMA SetCellKeeps ==
    ASSUME NEW rows, WellFormed(rows), NEW c, NEW after,
           c = [kind |-> "set_cell", rowId |-> c.rowId, oldValue |-> c.oldValue, newValue |-> c.newValue],
           c.newValue \in Values, after \in FoldCommand(rows, c)
    PROVE  /\ WellFormed(after) /\ FoldCommand(rows, c) = {after}
           /\ FoldCommand(after, InvertCommand(c)) = {rows}
<1>1. c.kind = "set_cell"
  OBVIOUS
<1>2. PICK k \in AtRow(rows, c.rowId) :
         rows[k].val = c.oldValue /\ after = [rows EXCEPT ![k].val = c.newValue]
  <2>1. after \in FoldSetCell(rows, c)
    BY <1>1, FoldCommandIs
  <2> QED BY <2>1 DEF FoldSetCell
<1>3. k \in DOMAIN rows /\ rows[k].id = c.rowId /\ AtRow(rows, c.rowId) = {k}
  BY OneRow DEF AtRow
<1>4. /\ DOMAIN after = DOMAIN rows
      /\ after[k] = [id |-> rows[k].id, name |-> rows[k].name, val |-> c.newValue]
      /\ \A i \in DOMAIN rows : i # k => after[i] = rows[i]
  BY <1>2, <1>3, WellFormedIs
<1>5. \A i \in DOMAIN rows : after[i].id = rows[i].id /\ after[i].name = rows[i].name
  BY <1>4
<1>6. WellFormed(after)
  <2>1. \A i \in DOMAIN rows : after[i] \in Row
    BY <1>3, <1>4, WellFormedIs DEF Row
  <2>2. after \in Seq(Row)
    <3>1. after \in [1..Len(rows) -> Row]
      BY <1>2, <1>4, <2>1, WellFormedIs
    <3> QED BY <3>1, WellFormedIs, FunIsSeq
  <2>3. DistinctRows(after)
    BY <1>4, <1>5 DEF WellFormed, DistinctRows
  <2> QED BY <2>2, <2>3 DEF WellFormed
<1>7. FoldCommand(rows, c) = {after}
  <2>1. {i \in AtRow(rows, c.rowId) : rows[i].val = c.oldValue} = {k}
    BY <1>2, <1>3
  <2>2. FoldSetCell(rows, c) = {after}
    BY <1>2, <2>1 DEF FoldSetCell
  <2> QED BY <1>1, <2>2, FoldCommandIs
<1>8. FoldCommand(after, InvertCommand(c)) = {rows}
  <2> DEFINE d == InvertCommand(c)
  <2>1. d = [kind |-> "set_cell", rowId |-> c.rowId, oldValue |-> c.newValue, newValue |-> c.oldValue]
    BY <1>1 DEF InvertCommand
  <2> HIDE DEF d
  <2>2. d.kind = "set_cell" /\ d.rowId = c.rowId /\ d.oldValue = c.newValue /\ d.newValue = c.oldValue
    BY <2>1
  <2>3. AtRow(after, d.rowId) = {k}
    BY <1>3, <1>4, <1>5, <2>2 DEF AtRow
  <2>4. [after EXCEPT ![k].val = d.newValue] = rows
    <3> DEFINE r == [after EXCEPT ![k].val = d.newValue]
    <3>1. DOMAIN r = DOMAIN rows /\ \A i \in DOMAIN rows : i # k => r[i] = rows[i]
      BY <1>4
    <3>2. r[k] = [id |-> rows[k].id, name |-> rows[k].name, val |-> rows[k].val]
      BY <1>2, <1>3, <1>4, <2>2
    <3>3. \A i \in DOMAIN rows : r[i] = rows[i]
      BY <3>1, <3>2, <1>3, WellFormedIs
    <3>4. r \in Seq(Row)
      <4>1. r \in [1..Len(rows) -> Row]
        BY <1>4, <3>3, WellFormedIs
      <4> HIDE DEF r
      <4> QED BY <4>1, WellFormedIs, FunIsSeq
    <3> HIDE DEF r
    <3>5. r = rows
      BY <3>1, <3>3, <3>4, SameRows DEF WellFormed
    <3> QED BY <3>5 DEF r
  <2>5. FoldSetCell(after, d) = {rows}
    BY <2>2, <2>3, <2>4, <1>4, <1>3 DEF FoldSetCell
  <2> QED BY <2>2, <2>5, FoldCommandIs DEF d
<1> QED BY <1>6, <1>7, <1>8

(* So does an added row with a new name,                                   *)
LEMMA AddRowKeeps ==
    ASSUME NEW rows, WellFormed(rows), NEW after,
           NEW c \in [kind : {"add_row"}, atIndex : Nat, row : Row],
           ValidNewName(rows, c.row.name, NoRow), after \in FoldCommand(rows, c)
    PROVE  /\ WellFormed(after) /\ FoldCommand(rows, c) = {after}
           /\ FoldCommand(after, InvertCommand(c)) = {rows}
<1> DEFINE at == c.atIndex + 1
           n  == Len(rows)
<1>1. c.kind = "add_row" /\ c.row \in Row /\ c.atIndex \in Nat
  OBVIOUS
<1>2. after \in FoldAddRow(rows, c) /\ FoldCommand(rows, c) = FoldAddRow(rows, c)
  BY <1>1, FoldCommandIs
<1>3. /\ \A k \in DOMAIN rows : rows[k].id # c.row.id /\ rows[k].name # c.row.name
      /\ c.atIndex \in 0..n
      /\ FoldAddRow(rows, c) = {InsertAt(rows, c.atIndex + 1, c.row)}
      /\ after = InsertAt(rows, at, c.row)
  BY <1>2 DEF FoldAddRow
<1>4. n \in Nat /\ DOMAIN rows = 1..n /\ rows \in Seq(Row) /\ at \in 1..(n + 1)
  BY <1>3, WellFormedIs DEF WellFormed
<1>5. /\ after \in Seq(Row) /\ Len(after) = n + 1
      /\ \A j \in 1..(n + 1) : after[j] = IF j < at THEN rows[j] ELSE IF j = at THEN c.row ELSE rows[j - 1]
  <2> DEFINE e == c.row
  <2>1. e \in Row /\ at \in 1..(Len(rows) + 1) /\ rows \in Seq(Row) /\ after = InsertAt(rows, at, e)
    BY <1>1, <1>3, <1>4
  <2> HIDE DEF e, at
  <2>2. Inserted(InsertAt(rows, at, e), rows, at, e, Row)
    BY <2>1, InsertAtIs
  <2>3. Inserted(after, rows, at, e, Row)
    BY <2>1, <2>2
  <2> QED BY <2>3 DEF Inserted, e
<1>6. DOMAIN after = 1..(n + 1) /\ after[at] = c.row
  BY <1>4, <1>5, LenProperties
<1> HIDE DEF at, n
<1>7. \A j \in 1..(n + 1) : j # at =>
         LET k == IF j < at THEN j ELSE j - 1
         IN  k \in DOMAIN rows /\ after[j] = rows[k]
  BY <1>4, <1>5
<1>8. \A k \in DOMAIN rows : ~SameFName(rows[k].name, c.row.name)
  <2>1. NoRow \notin RowIdentity
    BY DEF NoRow, RowIdentity, SnapshotRowId, DraftRowId
  <2> QED BY <2>1, WellFormedIs DEF ValidNewName
<1>9. WellFormed(after)
  <2>1. ASSUME NEW i \in DOMAIN after, NEW j \in DOMAIN after, i # j
        PROVE  after[i].id # after[j].id /\ ~SameFName(after[i].name, after[j].name)
    <3>1. CASE i = at
      <4>1. PICK k \in DOMAIN rows : after[j] = rows[k]
        BY <2>1, <3>1, <1>6, <1>7
      <4> QED BY <3>1, <4>1, <1>3, <1>6, <1>8 DEF SameFName
    <3>2. CASE j = at
      <4>1. PICK k \in DOMAIN rows : after[i] = rows[k]
        BY <2>1, <3>2, <1>6, <1>7
      <4> QED BY <3>2, <4>1, <1>3, <1>6, <1>8 DEF SameFName
    <3>3. CASE i # at /\ j # at
      <4> DEFINE k == IF i < at THEN i ELSE i - 1
                 l == IF j < at THEN j ELSE j - 1
      <4>1. k \in DOMAIN rows /\ after[i] = rows[k] /\ l \in DOMAIN rows /\ after[j] = rows[l]
        BY <3>3, <1>6, <1>7
      <4>2. k # l
        BY <2>1, <3>3, <1>4, <1>6
      <4> HIDE DEF k, l
      <4> QED BY <4>1, <4>2 DEF WellFormed, DistinctRows
    <3> QED BY <3>1, <3>2, <3>3
  <2> QED BY <2>1, <1>5 DEF WellFormed, DistinctRows
<1>10. FoldCommand(after, InvertCommand(c)) = {rows}
  <2> DEFINE d == InvertCommand(c)
  <2>1. d = [kind |-> "remove_row", atIndex |-> c.atIndex, row |-> c.row]
    BY <1>1 DEF InvertCommand
  <2> HIDE DEF d
  <2>2. d.kind = "remove_row" /\ d.atIndex = c.atIndex /\ d.row = c.row
    BY <2>1
  <2>3. AtRow(after, d.row.id) = {at}
    <3>1. at \in DOMAIN after /\ after[at].id = d.row.id
      BY <2>2, <1>4, <1>6
    <3> QED BY <3>1, <1>9, OneRow
  <2>4. RemoveAt(after, at) = rows
    BY <1>1, <1>3, <1>4, RemoveInserted DEF n
  <2>5. FoldRemoveRow(after, d) = {rows}
    BY <2>2, <2>3, <2>4 DEF FoldRemoveRow, at
  <2> QED BY <2>2, <2>5, FoldCommandIs DEF d
<1> QED BY <1>2, <1>3, <1>9, <1>10

(* a removed row whose data the command recorded,                          *)
LEMMA RemoveRowKeeps ==
    ASSUME NEW rows, WellFormed(rows), NEW after,
           NEW c \in [kind : {"remove_row"}, atIndex : Nat, row : Row],
           c.atIndex + 1 \in DOMAIN rows, rows[c.atIndex + 1] = c.row,
           after \in FoldCommand(rows, c)
    PROVE  /\ WellFormed(after) /\ FoldCommand(rows, c) = {after}
           /\ FoldCommand(after, InvertCommand(c)) = {rows}
<1> DEFINE at == c.atIndex + 1
           n  == Len(rows)
<1>1. c.kind = "remove_row" /\ c.row \in Row /\ c.atIndex \in Nat
  OBVIOUS
<1>2. after \in FoldRemoveRow(rows, c) /\ FoldCommand(rows, c) = FoldRemoveRow(rows, c)
  BY <1>1, FoldCommandIs
<1>3. AtRow(rows, c.row.id) = {at}
  BY OneRow
<1>4. FoldRemoveRow(rows, c) = {RemoveAt(rows, at)} /\ after = RemoveAt(rows, at)
  BY <1>2, <1>3 DEF FoldRemoveRow
<1>5. n \in Nat /\ DOMAIN rows = 1..n /\ rows \in Seq(Row) /\ at \in 1..n /\ c.atIndex \in 0..(n - 1)
  BY <1>1, WellFormedIs DEF WellFormed
<1>6. /\ after \in Seq(Row) /\ Len(after) = n - 1
      /\ \A j \in 1..(n - 1) : after[j] = IF j < at THEN rows[j] ELSE rows[j + 1]
  <2>1. Removed(RemoveAt(rows, at), rows, at, Row)
    BY <1>5, RemoveAtIs DEF n
  <2>2. Removed(after, rows, at, Row)
    BY <1>4, <2>1
  <2> HIDE DEF at
  <2> QED BY <2>2 DEF Removed, n
<1>7. DOMAIN after = 1..(n - 1)
  BY <1>6, LenProperties
<1>h. rows[at] = c.row /\ at = c.atIndex + 1
  OBVIOUS
<1> HIDE DEF at, n
<1>8. \A j \in 1..(n - 1) :
         LET k == IF j < at THEN j ELSE j + 1
         IN  k \in DOMAIN rows /\ k # at /\ after[j] = rows[k]
  BY <1>5, <1>6
<1>9. WellFormed(after)
  <2>1. ASSUME NEW i \in DOMAIN after, NEW j \in DOMAIN after, i # j
        PROVE  after[i].id # after[j].id /\ ~SameFName(after[i].name, after[j].name)
    <3> DEFINE k == IF i < at THEN i ELSE i + 1
               l == IF j < at THEN j ELSE j + 1
    <3>1. k \in DOMAIN rows /\ after[i] = rows[k] /\ l \in DOMAIN rows /\ after[j] = rows[l]
      BY <1>7, <1>8
    <3>2. k # l
      BY <2>1, <1>5, <1>7
    <3> HIDE DEF k, l
    <3> QED BY <3>1, <3>2 DEF WellFormed, DistinctRows
  <2> QED BY <2>1, <1>6 DEF WellFormed, DistinctRows
<1>10. FoldCommand(after, InvertCommand(c)) = {rows}
  <2> DEFINE d == InvertCommand(c)
  <2>1. d = [kind |-> "add_row", atIndex |-> c.atIndex, row |-> c.row]
    BY <1>1 DEF InvertCommand
  <2> HIDE DEF d
  <2>2. d.kind = "add_row" /\ d.atIndex = c.atIndex /\ d.row = c.row
    BY <2>1
  <2>3. ASSUME NEW j \in DOMAIN after
        PROVE  after[j].id # d.row.id /\ after[j].name # d.row.name
    <3>1. PICK k \in DOMAIN rows : k # at /\ after[j] = rows[k]
      BY <1>7, <1>8
    <3> QED BY <3>1, <2>2, <1>5, <1>h DEF WellFormed, DistinctRows, SameFName
  <2>4. InsertAt(after, at, d.row) = rows
    BY <2>2, <1>4, <1>5, <1>h, InsertRemoved DEF n
  <2>5. d.atIndex \in 0..Len(after)
    BY <2>2, <1>5, <1>6
  <2>6. FoldAddRow(after, d) = {InsertAt(after, d.atIndex + 1, d.row)}
    BY <2>3, <2>5 DEF FoldAddRow
  <2>7. FoldAddRow(after, d) = {rows}
    BY <2>2, <2>4, <2>6, <1>h
  <2> QED BY <2>2, <2>7, FoldCommandIs DEF d
<1> QED BY <1>2, <1>4, <1>9, <1>10

(* a rename to a name no other row has without regard to case,             *)
LEMMA RenameRowKeeps ==
    ASSUME NEW rows, WellFormed(rows), NEW after,
           NEW c \in [kind : {"rename_row"}, rowId : RowIdentity, oldName : Names, newName : Names],
           ValidNewName(rows, c.newName, c.rowId), after \in FoldCommand(rows, c)
    PROVE  /\ WellFormed(after) /\ FoldCommand(rows, c) = {after}
           /\ FoldCommand(after, InvertCommand(c)) = {rows}
<1>1. c.kind = "rename_row" /\ c.newName \in Names
  OBVIOUS
<1>2. after \in FoldRenameRow(rows, c) /\ FoldCommand(rows, c) = FoldRenameRow(rows, c)
  BY <1>1, FoldCommandIs
<1>3. PICK k \in AtRow(rows, c.rowId) :
         /\ rows[k].name = c.oldName /\ after = [rows EXCEPT ![k].name = c.newName]
         /\ \A j \in DOMAIN rows : rows[j].name # c.newName
  BY <1>2 DEF FoldRenameRow
<1>4. k \in DOMAIN rows /\ rows[k].id = c.rowId /\ AtRow(rows, c.rowId) = {k}
  BY OneRow DEF AtRow
<1>5. /\ DOMAIN after = DOMAIN rows
      /\ after[k] = [id |-> rows[k].id, name |-> c.newName, val |-> rows[k].val]
      /\ \A i \in DOMAIN rows : i # k => after[i] = rows[i]
  BY <1>3, <1>4, WellFormedIs
<1>6. \A i \in DOMAIN rows : after[i].id = rows[i].id
  BY <1>5
<1>7. WellFormed(after)
  <2>1. \A i \in DOMAIN rows : after[i] \in Row
    BY <1>1, <1>4, <1>5, WellFormedIs DEF Row
  <2>2. after \in Seq(Row)
    <3>1. after \in [1..Len(rows) -> Row]
      BY <1>3, <1>5, <2>1, WellFormedIs
    <3> QED BY <3>1, WellFormedIs, FunIsSeq
  <2>3. ASSUME NEW i \in DOMAIN after, NEW j \in DOMAIN after, i # j
        PROVE  after[i].id # after[j].id /\ ~SameFName(after[i].name, after[j].name)
    <3>1. after[i].id # after[j].id
      BY <2>3, <1>5, <1>6 DEF WellFormed, DistinctRows
    <3>2. \A l \in DOMAIN rows : l # k => ~SameFName(rows[l].name, c.newName)
      BY <1>4 DEF ValidNewName, AtRow
    <3>3. ~SameFName(after[i].name, after[j].name)
      <4>1. CASE i = k
        BY <4>1, <2>3, <3>2, <1>5 DEF SameFName
      <4>2. CASE j = k
        BY <4>2, <2>3, <3>2, <1>5 DEF SameFName
      <4>3. CASE i # k /\ j # k
        BY <4>3, <2>3, <1>5 DEF WellFormed, DistinctRows
      <4> QED BY <4>1, <4>2, <4>3
    <3> QED BY <3>1, <3>3
  <2> QED BY <2>2, <2>3 DEF WellFormed, DistinctRows
<1>8. FoldCommand(rows, c) = {after}
  <2>1. {i \in AtRow(rows, c.rowId) :
            /\ rows[i].name = c.oldName
            /\ \A j \in DOMAIN rows : rows[j].name # c.newName} = {k}
    BY <1>3, <1>4
  <2>2. FoldRenameRow(rows, c) = {after}
    BY <1>3, <2>1 DEF FoldRenameRow
  <2> QED BY <1>2, <2>2
<1>9. FoldCommand(after, InvertCommand(c)) = {rows}
  <2> DEFINE d == InvertCommand(c)
  <2>1. d = [kind |-> "rename_row", rowId |-> c.rowId, oldName |-> c.newName, newName |-> c.oldName]
    BY <1>1 DEF InvertCommand
  <2> HIDE DEF d
  <2>2. d.kind = "rename_row" /\ d.rowId = c.rowId /\ d.oldName = c.newName /\ d.newName = c.oldName
    BY <2>1
  <2>3. AtRow(after, d.rowId) = {k}
    BY <1>4, <1>5, <1>6, <2>2 DEF AtRow
  <2>4. [after EXCEPT ![k].name = d.newName] = rows
    <3> DEFINE r == [after EXCEPT ![k].name = d.newName]
    <3>1. DOMAIN r = DOMAIN rows /\ \A i \in DOMAIN rows : i # k => r[i] = rows[i]
      BY <1>5
    <3>2. r[k] = [id |-> rows[k].id, name |-> rows[k].name, val |-> rows[k].val]
      BY <1>3, <1>4, <1>5, <2>2
    <3>3. \A i \in DOMAIN rows : r[i] = rows[i]
      BY <3>1, <3>2, <1>4, WellFormedIs
    <3>4. r \in Seq(Row)
      <4>1. r \in [1..Len(rows) -> Row]
        BY <1>5, <3>3, WellFormedIs
      <4> HIDE DEF r
      <4> QED BY <4>1, WellFormedIs, FunIsSeq
    <3> HIDE DEF r
    <3>5. r = rows
      BY <3>1, <3>3, <3>4, SameRows DEF WellFormed
    <3> QED BY <3>5 DEF r
  <2>5. ASSUME NEW j \in DOMAIN after PROVE after[j].name # d.newName
    <3>1. CASE j = k
      BY <3>1, <2>2, <1>3, <1>4, <1>5
    <3>2. CASE j # k
      <4>1. ~SameFName(rows[j].name, rows[k].name) /\ after[j] = rows[j]
        BY <3>2, <1>4, <1>5 DEF WellFormed, DistinctRows
      <4> QED BY <4>1, <2>2, <1>3 DEF SameFName
    <3> QED BY <3>1, <3>2
  <2>6. {i \in AtRow(after, d.rowId) :
            /\ after[i].name = d.oldName
            /\ \A j \in DOMAIN after : after[j].name # d.newName} = {k}
    BY <2>2, <2>3, <2>5, <1>5
  <2>7. FoldRenameRow(after, d) = {rows}
    BY <2>4, <2>6 DEF FoldRenameRow
  <2> QED BY <2>2, <2>7, FoldCommandIs DEF d
<1> QED BY <1>7, <1>8, <1>9

(* A sequence as long as its set of elements repeats none.                 *)
LEMMA PermutationIsInjective ==
    ASSUME NEW S, NEW s \in Seq(S), Cardinality(ToSet(s)) = Len(s)
    PROVE  \A i, j \in DOMAIN s : s[i] = s[j] => i = j
<1>1. Len(s) \in Nat /\ DOMAIN s = 1..Len(s) /\ s \in [DOMAIN s -> S]
  BY LenProperties
<1>2. s \in Surjection(DOMAIN s, ToSet(s))
  BY <1>1 DEF Surjection, ToSet
<1>3. IsFiniteSet(DOMAIN s) /\ Cardinality(DOMAIN s) = Len(s)
  <2>1. IsFiniteSet(1..Len(s)) /\ Cardinality(1..Len(s)) = IF 1 > Len(s) THEN 0 ELSE Len(s) - 1 + 1
    BY <1>1, FS_Interval
  <2>2. (IF 1 > Len(s) THEN 0 ELSE Len(s) - 1 + 1) = Len(s)
    BY <1>1
  <2> QED BY <1>1, <2>1, <2>2
<1>4. s \in Injection(DOMAIN s, ToSet(s))
  <2> DEFINE D == DOMAIN s
             T == ToSet(s)
  <2>1. IsFiniteSet(D) /\ Cardinality(D) = Cardinality(T) /\ s \in Surjection(D, T)
    BY <1>2, <1>3
  <2> HIDE DEF D, T
  <2>2. s \in Injection(D, T)
    BY <2>1, FS_SurjSameCardinalityImpliesInj
  <2> QED BY <2>2 DEF D, T
<1> QED BY <1>4 DEF Injection, IsInjective

(* after is rows in the given order: src says where each row comes from.   *)
Reordered(rows, order, after, src) ==
    /\ src \in [DOMAIN rows -> DOMAIN rows]
    /\ after = [k \in DOMAIN rows |-> rows[src[k]]]
    /\ \A k \in DOMAIN rows : after[k].id = order[k]
    /\ \A j \in DOMAIN rows : \E i \in DOMAIN rows : src[i] = j
    /\ \A i, j \in DOMAIN rows : i # j => src[i] # src[j]

(* A reordering folds when it lists the rows once each.                    *)
LEMMA ReorderedIs ==
    ASSUME NEW rows, WellFormed(rows), NEW after,
           NEW c \in [kind : {"reorder_rows"}, oldOrder : Seq(RowIdentity), newOrder : Seq(RowIdentity)],
           after \in FoldCommand(rows, c)
    PROVE  /\ FoldCommand(rows, c) = {after}
           /\ RowIds(rows) = c.oldOrder /\ IsPermutationOf(c.newOrder, c.oldOrder)
           /\ Len(rows) \in Nat /\ DOMAIN rows = 1..Len(rows)
           /\ Len(c.newOrder) = Len(rows) /\ DOMAIN c.newOrder = DOMAIN rows
           /\ Len(c.oldOrder) = Len(rows) /\ DOMAIN c.oldOrder = DOMAIN rows
           /\ \E src : Reordered(rows, c.newOrder, after, src)
<1> DEFINE Source(k) == CHOOSE i \in AtRow(rows, c.newOrder[k]) : TRUE
<1>1. c.kind = "reorder_rows" /\ c.newOrder \in Seq(RowIdentity) /\ c.oldOrder \in Seq(RowIdentity)
  OBVIOUS
<1>2. after \in FoldReorderRows(rows, c) /\ FoldCommand(rows, c) = FoldReorderRows(rows, c)
  BY <1>1, FoldCommandIs
<1>3. /\ RowIds(rows) = c.oldOrder /\ IsPermutationOf(c.newOrder, c.oldOrder)
      /\ FoldReorderRows(rows, c) = {[k \in DOMAIN rows |-> rows[Source(k)]]}
      /\ after = [k \in DOMAIN rows |-> rows[Source(k)]]
  BY <1>2 DEF FoldReorderRows
<1>4. /\ Len(rows) \in Nat /\ DOMAIN rows = 1..Len(rows)
      /\ Len(c.newOrder) = Len(rows) /\ DOMAIN c.newOrder = DOMAIN rows
      /\ Len(c.oldOrder) = Len(rows) /\ DOMAIN c.oldOrder = DOMAIN rows
  <2>1. DOMAIN c.oldOrder = DOMAIN rows
    BY <1>3 DEF RowIds
  <2>2. c.oldOrder \in [1..Len(rows) -> RowIdentity] /\ Len(rows) \in Nat
    BY <1>3, WellFormedIs DEF RowIds
  <2>3. Len(c.oldOrder) = Len(rows)
    BY <2>2, FunIsSeq
  <2>4. Len(c.newOrder) = Len(c.oldOrder) /\ DOMAIN c.newOrder = 1..Len(c.newOrder)
    BY <1>1, <1>3, LenProperties DEF IsPermutationOf
  <2> QED BY <2>1, <2>3, <2>4, WellFormedIs
<1>5. \A i, j \in DOMAIN rows : c.newOrder[i] = c.newOrder[j] => i = j
  <2>1. Cardinality(ToSet(c.newOrder)) = Len(c.newOrder)
    BY <1>3 DEF IsPermutationOf
  <2> QED BY <1>1, <1>4, <2>1, PermutationIsInjective
<1>6. \A k \in DOMAIN rows : Source(k) \in DOMAIN rows /\ rows[Source(k)].id = c.newOrder[k]
  <2> TAKE k \in DOMAIN rows
  <2>1. c.newOrder[k] \in ToSet(c.oldOrder)
    BY <1>3, <1>4 DEF IsPermutationOf, ToSet
  <2>2. \E i \in DOMAIN rows : rows[i].id = c.newOrder[k]
    BY <2>1, <1>3 DEF ToSet, RowIds
  <2>3. AtRow(rows, c.newOrder[k]) # {}
    BY <2>2 DEF AtRow
  <2>4. Source(k) \in AtRow(rows, c.newOrder[k])
    BY <2>3
  <2> QED BY <2>4 DEF AtRow
<1>7. \A k \in DOMAIN rows : \E i \in DOMAIN rows : c.newOrder[i] = rows[k].id
  <2> TAKE k \in DOMAIN rows
  <2>1. rows[k].id \in ToSet(c.newOrder)
    BY <1>3, <1>4 DEF IsPermutationOf, ToSet, RowIds
  <2> QED BY <2>1, <1>4 DEF ToSet
<1>8. /\ DOMAIN after = DOMAIN rows
      /\ \A k \in DOMAIN rows : after[k] = rows[Source(k)] /\ after[k].id = c.newOrder[k]
  BY <1>3, <1>6
<1> HIDE DEF Source
<1>9. \A i, j \in DOMAIN rows : i # j => Source(i) # Source(j)
  BY <1>5, <1>6
<1>10. \A k \in DOMAIN rows : \E i \in DOMAIN rows : Source(i) = k
  BY <1>6, <1>7 DEF WellFormed, DistinctRows
<1> DEFINE src == [k \in DOMAIN rows |-> Source(k)]
<1>11. src \in [DOMAIN rows -> DOMAIN rows] /\ \A k \in DOMAIN rows : src[k] = Source(k)
  BY <1>6
<1>12. after = [k \in DOMAIN rows |-> rows[src[k]]]
  BY <1>3, <1>11
<1> HIDE DEF src
<1>13. FoldCommand(rows, c) = {after}
  BY <1>2, <1>3
<1>14. Reordered(rows, c.newOrder, after, src)
  BY <1>8, <1>9, <1>10, <1>11, <1>12 DEF Reordered
<1> QED BY <1>3, <1>4, <1>13, <1>14

(* and a reordering.                                                       *)
LEMMA ReorderRowsKeeps ==
    ASSUME NEW rows, WellFormed(rows), NEW after,
           NEW c \in [kind : {"reorder_rows"}, oldOrder : Seq(RowIdentity), newOrder : Seq(RowIdentity)],
           after \in FoldCommand(rows, c)
    PROVE  /\ WellFormed(after) /\ FoldCommand(rows, c) = {after}
           /\ FoldCommand(after, InvertCommand(c)) = {rows}
<1>1. c.kind = "reorder_rows" /\ c.newOrder \in Seq(RowIdentity) /\ c.oldOrder \in Seq(RowIdentity)
  OBVIOUS
<1>2. FoldCommand(rows, c) = FoldReorderRows(rows, c)
  BY <1>1, FoldCommandIs
<1>3. /\ FoldCommand(rows, c) = {after}
      /\ RowIds(rows) = c.oldOrder /\ IsPermutationOf(c.newOrder, c.oldOrder)
      /\ Len(rows) \in Nat /\ DOMAIN rows = 1..Len(rows)
      /\ Len(c.newOrder) = Len(rows) /\ DOMAIN c.newOrder = DOMAIN rows
      /\ Len(c.oldOrder) = Len(rows) /\ DOMAIN c.oldOrder = DOMAIN rows
  BY ReorderedIs
<1>4. PICK src : Reordered(rows, c.newOrder, after, src)
  BY ReorderedIs
<1>5. /\ DOMAIN after = DOMAIN rows
      /\ \A k \in DOMAIN rows : after[k] = rows[src[k]] /\ src[k] \in DOMAIN rows
      /\ \A k \in DOMAIN rows : after[k].id = c.newOrder[k]
      /\ \A j \in DOMAIN rows : \E i \in DOMAIN rows : src[i] = j
      /\ \A i, j \in DOMAIN rows : i # j => src[i] # src[j]
  BY <1>4 DEF Reordered
<1>6. WellFormed(after)
  <2>1. after \in Seq(Row)
    <3>1. \A k \in DOMAIN rows : rows[src[k]] \in Row
      BY <1>5, WellFormedIs
    <3>2. after \in [1..Len(rows) -> Row]
      BY <3>1, <1>3, <1>4 DEF Reordered
    <3> QED BY <3>2, <1>3, FunIsSeq
  <2>2. DistinctRows(after)
    <3> SUFFICES ASSUME NEW i \in DOMAIN rows, NEW j \in DOMAIN rows, i # j
                 PROVE  after[i].id # after[j].id /\ ~SameFName(after[i].name, after[j].name)
      BY <1>5 DEF DistinctRows
    <3>1. src[i] \in DOMAIN rows /\ src[j] \in DOMAIN rows /\ src[i] # src[j]
      BY <1>5
    <3>2. after[i] = rows[src[i]] /\ after[j] = rows[src[j]]
      BY <1>5
    <3> QED BY <3>1, <3>2 DEF WellFormed, DistinctRows
  <2> QED BY <2>1, <2>2 DEF WellFormed
<1>7. FoldCommand(after, InvertCommand(c)) = {rows}
  <2> DEFINE d == InvertCommand(c)
             Back(k) == CHOOSE i \in AtRow(after, d.newOrder[k]) : TRUE
  <2>1. d = [kind |-> "reorder_rows", oldOrder |-> c.newOrder, newOrder |-> c.oldOrder]
    BY <1>1 DEF InvertCommand
  <2> HIDE DEF d
  <2>2. d.kind = "reorder_rows" /\ d.oldOrder = c.newOrder /\ d.newOrder = c.oldOrder
    BY <2>1
  <2>3. RowIds(after) = d.oldOrder
    <3>1. c.newOrder \in [DOMAIN rows -> RowIdentity]
      BY <1>1, <1>3, LenProperties
    <3>2. RowIds(after) = [k \in DOMAIN rows |-> c.newOrder[k]]
      BY <1>5 DEF RowIds
    <3> QED BY <3>1, <3>2, <2>2
  <2>4. IsPermutationOf(d.newOrder, d.oldOrder)
    BY <2>2, <1>3 DEF IsPermutationOf
  <2>5. ASSUME NEW k \in DOMAIN rows PROVE after[Back(k)] = rows[k]
    <3>1. d.newOrder[k] = rows[k].id
      BY <2>2, <1>3 DEF RowIds
    <3>2. PICK i \in DOMAIN rows : src[i] = k
      BY <1>5
    <3>3. after[i] = rows[k] /\ i \in DOMAIN after
      BY <3>2, <1>5
    <3>4. AtRow(after, d.newOrder[k]) = {i}
      <4>1. AtRow(after, after[i].id) = {i}
        BY <3>3, <1>6, OneRow
      <4> QED BY <3>1, <3>3, <4>1
    <3>5. Back(k) = i
      BY <3>4
    <3> QED BY <3>3, <3>5
  <2>6. FoldReorderRows(after, d) = {[k \in DOMAIN after |-> after[Back(k)]]}
    BY <2>3, <2>4 DEF FoldReorderRows
  <2>7. [k \in DOMAIN after |-> after[Back(k)]] = [k \in DOMAIN rows |-> rows[k]]
    <3>1. DOMAIN after = DOMAIN rows
      BY <1>5
    <3> HIDE DEF Back
    <3> QED BY <2>5, <3>1
  <2>8. [k \in DOMAIN rows |-> rows[k]] = rows
    <3>1. rows \in [1..Len(rows) -> Row] /\ DOMAIN rows = 1..Len(rows)
      BY LenProperties DEF WellFormed
    <3> QED BY <3>1
  <2>9. FoldReorderRows(after, d) = {rows}
    BY <2>6, <2>7, <2>8
  <2> QED BY <2>2, <2>9, FoldCommandIs DEF d
<1> QED BY <1>3, <1>6, <1>7

(* A command that fits a well-formed table, and folds into it at all,      *)
(* yields one well-formed table, and its inverse gives the table back.     *)
LEMMA CommandKeeps ==
    ASSUME NEW rows, WellFormed(rows), NEW c, Fits(rows, c), NEW after \in FoldCommand(rows, c)
    PROVE  /\ WellFormed(after) /\ FoldCommand(rows, c) = {after}
           /\ FoldCommand(after, InvertCommand(c)) = {rows}
BY SetCellKeeps, AddRowKeeps, RemoveRowKeeps, RenameRowKeeps, ReorderRowsKeeps DEF Fits

-----------------------------------------------------------------------------
(* The log, one command after the other                                    *)

(* An empty log folds to the base.                                        *)
LEMMA FoldEmpty ==
    ASSUME NEW t, NEW rows, NEW log, Len(log) = 0
    PROVE  FoldTable(t, rows, log) = {rows}
<1>1. PICK f : IsFold(t, rows, log, Len(log), f) /\ FoldTable(t, rows, log) = f[Len(log)]
  BY FoldTableIsFold
<1> QED BY <1>1 DEF IsFold

(* One more command in the log folds into the result of the log before.    *)
LEMMA FoldOneMore ==
    ASSUME NEW t, NEW rows, NEW log, NEW longer, NEW n \in Nat, Len(log) = n,
           Len(longer) = n + 1, \A k \in 1..n : longer[k] = log[k]
    PROVE  FoldTable(t, rows, longer) = FoldOne(t, FoldTable(t, rows, log), longer[n + 1])
<1>1. PICK f : IsFold(t, rows, log, n, f) /\ FoldTable(t, rows, log) = f[n]
  BY FoldTableIsFold
<1>2. PICK g : IsFold(t, rows, longer, n + 1, g) /\ FoldTable(t, rows, longer) = g[n + 1]
  BY FoldTableIsFold
<1> DEFINE S == {k \in Nat : k <= n => f[k] = g[k]}
<1>3. 0 \in S
  BY <1>1, <1>2 DEF IsFold
<1>4. ASSUME NEW k \in Nat, k \in S PROVE k + 1 \in S
  <2> SUFFICES ASSUME k + 1 <= n PROVE f[k + 1] = g[k + 1]
    OBVIOUS
  <2>1. k + 1 \in 1..n /\ k + 1 \in 0..n /\ k + 1 \in 0..(n + 1) /\ (k + 1) - 1 = k /\ k + 1 # 0
    OBVIOUS
  <2>2. f[k + 1] = FoldOne(t, f[k], log[k + 1])
    BY <1>1, <2>1 DEF IsFold
  <2>3. g[k + 1] = FoldOne(t, g[k], longer[k + 1])
    BY <1>2, <2>1 DEF IsFold
  <2>4. f[k] = g[k]
    BY <1>4
  <2> QED BY <2>1, <2>2, <2>3, <2>4
<1>5. n \in S
  <2> HIDE DEF S
  <2> QED BY <1>3, <1>4, NatSetInduction
<1>6. g[n + 1] = FoldOne(t, g[n], longer[n + 1])
  <2>1. n + 1 \in 0..(n + 1) /\ n + 1 # 0 /\ (n + 1) - 1 = n
    OBVIOUS
  <2> QED BY <2>1, <1>2 DEF IsFold
<1> QED BY <1>1, <1>2, <1>5, <1>6

(* What a prefix of a sequence is.                                         *)
LEMMA PrefixIs ==
    ASSUME NEW S, NEW s \in Seq(S), NEW p \in 0..Len(s)
    PROVE  /\ SubSeq(s, 1, p) \in Seq(S) /\ Len(SubSeq(s, 1, p)) = p
           /\ \A k \in 1..p : SubSeq(s, 1, p)[k] = s[k]
<1>1. Len(s) \in Nat
  BY LenProperties
<1>2. p \in Nat /\ \A k \in 1..p : s[k] \in S
  BY <1>1, ElementOfSeq
<1>3. /\ SubSeq(s, 1, p) \in Seq(S)
      /\ Len(SubSeq(s, 1, p)) = IF 1 <= p THEN p - 1 + 1 ELSE 0
      /\ \A k \in 1..(p - 1 + 1) : SubSeq(s, 1, p)[k] = s[1 + k - 1]
  BY <1>2, SubSeqProperties
<1>4. p - 1 + 1 = p /\ (IF 1 <= p THEN p - 1 + 1 ELSE 0) = p
  BY <1>2
<1>5. \A k \in 1..p : 1 + k - 1 = k
  BY <1>2
<1> QED BY <1>3, <1>4, <1>5

(* A prefix of a prefix is a prefix.                                       *)
LEMMA PrefixOfPrefix ==
    ASSUME NEW S, NEW s \in Seq(S), NEW p \in 0..Len(s), NEW q \in 0..p
    PROVE  SubSeq(SubSeq(s, 1, p), 1, q) = SubSeq(s, 1, q)
<1> DEFINE a == SubSeq(s, 1, p)
           b == SubSeq(a, 1, q)
           c == SubSeq(s, 1, q)
<1>1. a \in Seq(S) /\ Len(a) = p /\ \A k \in 1..p : a[k] = s[k]
  BY PrefixIs
<1>2. b \in Seq(S) /\ Len(b) = q /\ \A k \in 1..q : b[k] = a[k]
  <2> HIDE DEF a
  <2> QED BY <1>1, PrefixIs
<1>3. c \in Seq(S) /\ Len(c) = q /\ \A k \in 1..q : c[k] = s[k]
  <2>1. Len(s) \in Nat
    BY LenProperties
  <2>2. q \in 0..Len(s)
    BY <2>1
  <2> QED BY <2>2, PrefixIs
<1> HIDE DEF a, b, c
<1>4. \A k \in 1..Len(b) : b[k] = c[k]
  BY <1>1, <1>2, <1>3
<1>5. b = c
  BY <1>2, <1>3, <1>4, SeqEqual
<1> QED BY <1>5 DEF a, b, c

(* The fold of one prefix from that of the prefix before.                  *)
LEMMA FoldOfPrefix ==
    ASSUME NEW t, NEW rows, NEW S, NEW log \in Seq(S), NEW p \in 1..Len(log)
    PROVE  FoldTable(t, rows, SubSeq(log, 1, p)) =
              FoldOne(t, FoldTable(t, rows, SubSeq(log, 1, p - 1)), log[p])
<1> DEFINE a == SubSeq(log, 1, p)
           b == SubSeq(log, 1, p - 1)
<1>0. Len(log) \in Nat /\ p \in 0..Len(log) /\ p - 1 \in 0..Len(log) /\ p - 1 \in Nat /\ (p - 1) + 1 = p
  <2>1. Len(log) \in Nat
    BY LenProperties
  <2> QED BY <2>1
<1>1. Len(a) = p /\ \A k \in 1..p : a[k] = log[k]
  BY <1>0, PrefixIs
<1>2. Len(b) = p - 1 /\ \A k \in 1..(p - 1) : b[k] = log[k]
  BY <1>0, PrefixIs
<1> HIDE DEF a, b
<1>3. \A k \in 1..(p - 1) : a[k] = b[k]
  BY <1>0, <1>1, <1>2
<1>4. FoldTable(t, rows, a) = FoldOne(t, FoldTable(t, rows, b), a[(p - 1) + 1])
  BY <1>0, <1>1, <1>2, <1>3, FoldOneMore
<1>5. a[(p - 1) + 1] = log[p]
  BY <1>0, <1>1
<1> QED BY <1>4, <1>5 DEF a, b

-----------------------------------------------------------------------------
(* Good logs                                                               *)

(* A log every prefix of which folds over every base, each command fitting *)
(* the tables it is folded into.                                           *)
GoodLog(b, log) ==
    /\ log \in Seq(ToSet(log))
    /\ \A p \in 1..Len(log) : log[p].table \in Tables /\ log[p].group \in Nat
    /\ \A p \in 0..Len(log), t \in Tables : FoldTable(t, b[t], SubSeq(log, 1, p)) # {}
    /\ \A p \in 1..Len(log) :
          \A rows \in FoldTable(log[p].table, b[log[p].table], SubSeq(log, 1, p - 1)) :
             Fits(rows, log[p].body)

(* A sequence is a sequence over its own elements.                         *)
LEMMA SeqOfItsSet ==
    ASSUME NEW S, NEW s \in Seq(S)
    PROVE  s \in Seq(ToSet(s))
<1>1. Len(s) \in Nat /\ DOMAIN s = 1..Len(s) /\ s \in [1..Len(s) -> S]
  BY LenProperties
<1>2. s \in [1..Len(s) -> ToSet(s)]
  BY <1>1 DEF ToSet
<1> QED BY <1>1, <1>2, FunIsSeq

(* The first p commands of the log fold to exactly one well-formed table t. *)
FoldsToOne(b, log, p, t) ==
    \E rows : WellFormed(rows) /\ FoldTable(t, b[t], SubSeq(log, 1, p)) = {rows}

(* Each prefix of a good log folds to exactly one well-formed table.       *)
LEMMA GoodFolds ==
    ASSUME NEW b, NEW log, GoodLog(b, log), \A t \in Tables : WellFormed(b[t])
    PROVE  \A p \in 0..Len(log), t \in Tables : FoldsToOne(b, log, p, t)
<1> DEFINE One(p, t) == \E rows : WellFormed(rows) /\ FoldTable(t, b[t], SubSeq(log, 1, p)) = {rows}
           S == {p \in Nat : p <= Len(log) => \A t \in Tables : One(p, t)}
<1>1. Len(log) \in Nat /\ log \in Seq(ToSet(log))
  <2>1. log \in Seq(ToSet(log))
    BY DEF GoodLog
  <2> QED BY <2>1, LenProperties
<1>2. 0 \in S
  <2> SUFFICES ASSUME NEW t \in Tables PROVE One(0, t)
    OBVIOUS
  <2>1. Len(SubSeq(log, 1, 0)) = 0
    BY <1>1, PrefixIs
  <2>2. FoldTable(t, b[t], SubSeq(log, 1, 0)) = {b[t]}
    BY <2>1, FoldEmpty
  <2> QED BY <2>2
<1>3. ASSUME NEW p \in Nat, p \in S PROVE p + 1 \in S
  <2> SUFFICES ASSUME p + 1 <= Len(log), NEW t \in Tables PROVE One(p + 1, t)
    OBVIOUS
  <2>1. p + 1 \in 1..Len(log) /\ (p + 1) - 1 = p /\ p \in 0..Len(log) /\ p + 1 \in 0..Len(log)
    BY <1>1
  <2> DEFINE c == log[p + 1]
             now == FoldTable(t, b[t], SubSeq(log, 1, p))
             next == FoldTable(t, b[t], SubSeq(log, 1, p + 1))
  <2>2. PICK rows : WellFormed(rows) /\ now = {rows}
    <3>1. p <= Len(log)
      BY <1>1
    <3>2. One(p, t)
      BY <1>3, <3>1
    <3> QED BY <3>2
  <2>3. next = FoldOne(t, now, c)
    BY <1>1, <2>1, FoldOfPrefix
  <2>4. next # {}
    BY <2>1 DEF GoodLog
  <2>5. CASE c.table # t
    <3>1. next = now
      BY <2>3, <2>5 DEF FoldOne
    <3> QED BY <2>2, <3>1
  <2>6. CASE c.table = t
    <3> HIDE DEF next, now
    <3>1. next = FoldCommand(rows, c.body)
      BY <2>2, <2>3, <2>6 DEF FoldOne
    <3>2. PICK after : after \in FoldCommand(rows, c.body)
      BY <2>4, <3>1
    <3>3. Fits(rows, c.body)
      <4>1. rows \in FoldTable(c.table, b[c.table], SubSeq(log, 1, (p + 1) - 1))
        BY <2>1, <2>2, <2>6 DEF now
      <4> QED BY <2>1, <4>1 DEF GoodLog
    <3>4. WellFormed(after) /\ FoldCommand(rows, c.body) = {after}
      BY <2>2, <3>2, <3>3, CommandKeeps
    <3> QED BY <3>1, <3>4 DEF next
  <2> QED BY <2>5, <2>6
<1>4. Nat \subseteq S
  <2> HIDE DEF S
  <2> QED BY <1>2, <1>3, NatSetInduction
<1>5. ASSUME NEW p \in 0..Len(log), NEW t \in Tables PROVE FoldsToOne(b, log, p, t)
  <2>1. p \in Nat /\ p <= Len(log)
    BY <1>1
  <2>2. p \in S
    BY <1>4, <2>1
  <2>3. One(p, t)
    BY <2>1, <2>2
  <2> QED BY <2>3 DEF FoldsToOne
<1> QED BY <1>5

(* A prefix of a good log is a good log.                                   *)
LEMMA LogPrefix ==
    ASSUME NEW b, NEW log, GoodLog(b, log), NEW p \in 0..Len(log)
    PROVE  GoodLog(b, SubSeq(log, 1, p))
<1> DEFINE a == SubSeq(log, 1, p)
<1>1. log \in Seq(ToSet(log)) /\ Len(log) \in Nat
  <2>1. log \in Seq(ToSet(log))
    BY DEF GoodLog
  <2> QED BY <2>1, LenProperties
<1>2. a \in Seq(ToSet(log)) /\ Len(a) = p /\ \A k \in 1..p : a[k] = log[k]
  BY <1>1, PrefixIs
<1>3. a \in Seq(ToSet(a))
  <2> HIDE DEF a
  <2> QED BY <1>2, SeqOfItsSet
<1>4. \A q \in 0..p : SubSeq(a, 1, q) = SubSeq(log, 1, q)
  BY <1>1, PrefixOfPrefix
<1> HIDE DEF a
<1>5. \A q \in 0..p : q \in 0..Len(log)
  BY <1>1
<1>6. \A q \in 1..p : q \in 1..Len(log) /\ q - 1 \in 0..p
  BY <1>1
<1>7. \A q \in 1..Len(a) : a[q].table \in Tables /\ a[q].group \in Nat
  BY <1>2, <1>6 DEF GoodLog
<1>8. \A q \in 0..Len(a), t \in Tables : FoldTable(t, b[t], SubSeq(a, 1, q)) # {}
  BY <1>2, <1>4, <1>5 DEF GoodLog
<1>9. ASSUME NEW q \in 1..Len(a),
             NEW rows \in FoldTable(a[q].table, b[a[q].table], SubSeq(a, 1, q - 1))
      PROVE  Fits(rows, a[q].body)
  <2>1. a[q] = log[q] /\ SubSeq(a, 1, q - 1) = SubSeq(log, 1, q - 1) /\ q \in 1..Len(log)
    BY <1>2, <1>4, <1>6
  <2>2. rows \in FoldTable(log[q].table, b[log[q].table], SubSeq(log, 1, q - 1))
    BY <2>1
  <2> QED BY <2>1, <2>2 DEF GoodLog
<1> QED BY <1>3, <1>7, <1>8, <1>9 DEF GoodLog, a

(* A fold that does not fail has not failed before.                        *)
LEMMA FoldsBefore ==
    ASSUME NEW t, NEW rows, NEW S, NEW log \in Seq(S), FoldTable(t, rows, log) # {}
    PROVE  \A p \in 0..Len(log) : FoldTable(t, rows, SubSeq(log, 1, p)) # {}
<1> DEFINE n == Len(log)
           D == {k \in Nat : k <= n => FoldTable(t, rows, SubSeq(log, 1, n - k)) # {}}
<1>1. n \in Nat
  BY LenProperties
<1>2. 0 \in D
  <2>1. SubSeq(log, 1, n) = log /\ n - 0 = n
    BY <1>1, SubSeqFull
  <2> QED BY <2>1
<1>3. ASSUME NEW k \in Nat, k \in D PROVE k + 1 \in D
  <2> SUFFICES ASSUME k + 1 <= n PROVE FoldTable(t, rows, SubSeq(log, 1, n - (k + 1))) # {}
    OBVIOUS
  <2> DEFINE p == n - k
  <2>1. p \in 1..n /\ p - 1 = n - (k + 1)
    BY <1>1
  <2>2. FoldTable(t, rows, SubSeq(log, 1, p)) # {}
    BY <1>1, <1>3
  <2> HIDE DEF p
  <2>3. FoldTable(t, rows, SubSeq(log, 1, p)) =
           FoldOne(t, FoldTable(t, rows, SubSeq(log, 1, p - 1)), log[p])
    BY <2>1, FoldOfPrefix
  <2>4. FoldTable(t, rows, SubSeq(log, 1, p - 1)) # {}
    BY <2>2, <2>3 DEF FoldOne
  <2> QED BY <2>1, <2>4
<1>4. Nat \subseteq D
  <2> HIDE DEF D
  <2> QED BY <1>2, <1>3, NatSetInduction
<1>5. ASSUME NEW p \in 0..n PROVE FoldTable(t, rows, SubSeq(log, 1, p)) # {}
  <2>1. n - p \in Nat /\ n - p <= n /\ n - (n - p) = p
    BY <1>1
  <2>2. n - p \in D
    BY <1>4, <2>1
  <2> QED BY <2>1, <2>2
<1> QED BY <1>5

(* A good log stays good when it is extended by fitting commands of one    *)
(* table and the whole folds over that table's base: this is all that      *)
(* appendCommandGroup validates, and the other tables skip the new         *)
(* commands.                                                               *)
LEMMA LogExtends ==
    ASSUME NEW b, NEW log, GoodLog(b, log), \A u \in Tables : WellFormed(b[u]), NEW t \in Tables,
           NEW S, NEW full \in Seq(S), Len(log) <= Len(full),
           \A k \in 1..Len(log) : full[k] = log[k],
           FoldTable(t, b[t], full) # {},
           \A k \in (Len(log) + 1)..Len(full) :
              /\ full[k].table = t /\ full[k].group \in Nat
              /\ \A rows \in FoldTable(t, b[t], SubSeq(full, 1, k - 1)) : Fits(rows, full[k].body)
    PROVE  GoodLog(b, full)
<1> DEFINE m == Len(log)
           n == Len(full)
<1>1. log \in Seq(ToSet(log)) /\ m \in Nat /\ n \in Nat
  <2>1. log \in Seq(ToSet(log))
    BY DEF GoodLog
  <2> QED BY <2>1, LenProperties
<1>2. full \in Seq(ToSet(full))
  BY SeqOfItsSet
<1>3. ASSUME NEW p \in 0..m PROVE SubSeq(full, 1, p) = SubSeq(log, 1, p)
  <2> DEFINE U == S \cup ToSet(log)
             x == SubSeq(full, 1, p)
             y == SubSeq(log, 1, p)
  <2>1. p \in 0..n /\ full \in Seq(U) /\ log \in Seq(U)
    BY <1>1, SeqMonotonic
  <2>2. x \in Seq(U) /\ Len(x) = p /\ \A k \in 1..p : x[k] = full[k]
    BY <2>1, PrefixIs
  <2>3. y \in Seq(U) /\ Len(y) = p /\ \A k \in 1..p : y[k] = log[k]
    BY <2>1, PrefixIs
  <2>4. \A k \in 1..p : full[k] = log[k]
    BY <1>1
  <2> HIDE DEF x, y, U
  <2>5. x = y
    BY <2>2, <2>3, <2>4, SeqEqual
  <2> QED BY <2>5 DEF x, y
<1>4. ASSUME NEW k \in 1..n
      PROVE  /\ full[k].table \in Tables /\ full[k].group \in Nat
             /\ \A rows \in FoldTable(full[k].table, b[full[k].table], SubSeq(full, 1, k - 1)) :
                   Fits(rows, full[k].body)
  <2>1. CASE k <= m
    <3>1. k \in 1..m /\ k - 1 \in 0..m
      BY <1>1, <2>1
    <3>2. full[k] = log[k] /\ SubSeq(full, 1, k - 1) = SubSeq(log, 1, k - 1)
      BY <1>3, <3>1
    <3> QED BY <3>1, <3>2 DEF GoodLog
  <2>2. CASE ~(k <= m)
    <3>1. k \in (m + 1)..n
      BY <1>1, <2>2
    <3> QED BY <3>1
  <2> QED BY <2>1, <2>2
<1>4a. ASSUME NEW u, NEW p \in 1..n
       PROVE  FoldTable(u, b[u], SubSeq(full, 1, p)) =
                 FoldOne(u, FoldTable(u, b[u], SubSeq(full, 1, p - 1)), full[p])
  BY FoldOfPrefix
<1>5. ASSUME NEW u \in Tables, u # t
      PROVE  \A p \in m..n : FoldTable(u, b[u], SubSeq(full, 1, p)) # {}
  <2> DEFINE D == {k \in Nat : m + k <= n => FoldTable(u, b[u], SubSeq(full, 1, m + k)) # {}}
  <2>1. 0 \in D
    <3>1. m + 0 = m /\ m \in 0..m
      BY <1>1
    <3>2. FoldTable(u, b[u], SubSeq(log, 1, m)) # {}
      BY <3>1 DEF GoodLog
    <3> QED BY <1>3, <3>1, <3>2
  <2>2. ASSUME NEW k \in Nat, k \in D PROVE k + 1 \in D
    <3> SUFFICES ASSUME m + (k + 1) <= n PROVE FoldTable(u, b[u], SubSeq(full, 1, m + (k + 1))) # {}
      OBVIOUS
    <3> DEFINE p == m + (k + 1)
    <3>1. p \in 1..n /\ p \in (m + 1)..n /\ p - 1 = m + k /\ m + k <= n
      BY <1>1
    <3>2. FoldTable(u, b[u], SubSeq(full, 1, m + k)) # {}
      BY <2>2, <3>1
    <3> HIDE DEF p
    <3>3. FoldTable(u, b[u], SubSeq(full, 1, p)) =
             FoldOne(u, FoldTable(u, b[u], SubSeq(full, 1, p - 1)), full[p])
      BY <3>1, <1>4a
    <3>4. full[p].table = t
      BY <3>1
    <3>5. FoldTable(u, b[u], SubSeq(full, 1, p)) # {}
      BY <1>5, <3>1, <3>2, <3>3, <3>4 DEF FoldOne
    <3> QED BY <3>5 DEF p
  <2>3. Nat \subseteq D
    <3> HIDE DEF D
    <3> QED BY <2>1, <2>2, NatSetInduction
  <2> TAKE p \in m..n
  <2>4. p - m \in Nat /\ m + (p - m) = p /\ p <= n
    BY <1>1
  <2>5. p - m \in D
    BY <2>3, <2>4
  <2> QED BY <2>4, <2>5
<1>6. ASSUME NEW p \in 0..n, NEW u \in Tables
      PROVE  FoldTable(u, b[u], SubSeq(full, 1, p)) # {}
  <2>1. CASE u = t
    BY <2>1, FoldsBefore
  <2>2. CASE u # t /\ p <= m
    <3>1. p \in 0..m
      BY <1>1, <2>2
    <3>2. FoldTable(u, b[u], SubSeq(log, 1, p)) # {}
      BY <3>1 DEF GoodLog
    <3> QED BY <1>3, <3>1, <3>2
  <2>3. CASE u # t /\ ~(p <= m)
    <3>1. p \in m..n
      BY <1>1, <2>3
    <3> QED BY <1>5, <2>3, <3>1
  <2> QED BY <2>1, <2>2, <2>3
<1> QED BY <1>2, <1>4, <1>6 DEF GoodLog

-----------------------------------------------------------------------------
(* The inductive invariant: every base is a snapshot, every prefix of the  *)
(* log folds with bodies that say what they replaced, and the undo pointer *)
(* does not split a gesture.                                               *)
DraftInv ==
    /\ DraftTypeOK
    /\ base \in [Tables -> {SnapshotRows(rows) : rows \in BaseTables}]
    /\ GoodLog(base, commands)
    /\ \A k \in 1..(Len(commands) - 1) :
          k = undoPointer => commands[k].group # commands[k + 1].group

(* A snapshot of a DataTable is well formed.                               *)
LEMMA SnapshotIsWellFormed ==
    ASSUME NEW rows \in BaseTables
    PROVE  WellFormed(SnapshotRows(rows))
<1> DEFINE s == SnapshotRows(rows)
           E == [name : Names, val : Values]
<1>1. rows \in Seq(E) /\ \A i, j \in DOMAIN rows : i # j => FNameOf[rows[i].name] # FNameOf[rows[j].name]
  BY BaseAssumption
<1>2. Len(rows) \in Nat /\ DOMAIN rows = 1..Len(rows) /\ \A k \in DOMAIN rows : rows[k] \in E
  BY <1>1, LenProperties, ElementOfSeq
<1>3. DOMAIN s = 1..Len(rows) /\ s = [k \in 1..Len(rows) |-> s[k]]
  BY <1>2 DEF SnapshotRows
<1>4. ASSUME NEW k \in 1..Len(rows)
      PROVE  /\ s[k] = [id |-> SnapshotRowId(rows[k].name), name |-> rows[k].name, val |-> rows[k].val]
             /\ rows[k].name \in Names /\ rows[k].val \in Values
  BY <1>2 DEF SnapshotRows
<1> HIDE DEF s
<1>4a. ASSUME NEW k \in 1..Len(rows)
       PROVE  s[k].id = SnapshotRowId(rows[k].name) /\ s[k].name = rows[k].name
  <2>1. s[k] = [id |-> SnapshotRowId(rows[k].name), name |-> rows[k].name, val |-> rows[k].val]
    BY <1>4
  <2> QED BY <2>1
<1>5. ASSUME NEW k \in 1..Len(rows) PROVE s[k] \in Row
  <2>1. SnapshotRowId(rows[k].name) \in RowIdentity
    BY <1>4 DEF RowIdentity
  <2>2. s[k] = [id |-> SnapshotRowId(rows[k].name), name |-> rows[k].name, val |-> rows[k].val]
    BY <1>4
  <2> QED BY <1>4, <2>1, <2>2 DEF Row
<1>6. s \in Seq(Row)
  <2>1. s \in [1..Len(rows) -> Row]
    BY <1>3, <1>5
  <2> QED BY <1>2, <2>1, FunIsSeq
<1>7. DistinctRows(s)
  <2>1. ASSUME NEW i \in 1..Len(rows), NEW j \in 1..Len(rows), i # j
        PROVE  s[i].id # s[j].id /\ ~SameFName(s[i].name, s[j].name)
    <3>1. FNameOf[rows[i].name] # FNameOf[rows[j].name]
      BY <2>1, <1>1, <1>2
    <3>2. s[i].name = rows[i].name /\ s[j].name = rows[j].name
      BY <1>4a
    <3>3. s[i].id = <<"row", rows[i].name>> /\ s[j].id = <<"row", rows[j].name>>
      BY <1>4a DEF SnapshotRowId
    <3>4. rows[i].name # rows[j].name
      BY <3>1
    <3>5. s[i].id # s[j].id
      BY <3>3, <3>4
    <3> QED BY <3>1, <3>2, <3>5 DEF SameFName
  <2> QED BY <2>1, <1>3 DEF DistinctRows
<1> QED BY <1>6, <1>7 DEF WellFormed, s

(* So is the base of every table of the session.                           *)
LEMMA BaseIsWellFormed ==
    ASSUME base \in [Tables -> {SnapshotRows(rows) : rows \in BaseTables}]
    PROVE  \A t \in Tables : WellFormed(base[t])
BY SnapshotIsWellFormed

(* The facts about the log and its active part that the steps use.         *)
LEMMA DraftTypes ==
    ASSUME DraftInv
    PROVE  /\ Len(commands) \in Nat /\ DOMAIN commands = 1..Len(commands)
           /\ undoPointer \in Nat /\ undoPointer \in 0..Len(commands)
           /\ ActiveCommands \in Seq(ToSet(commands)) /\ Len(ActiveCommands) = undoPointer
           /\ \A k \in 1..undoPointer : ActiveCommands[k] = commands[k]
           /\ GoodLog(base, ActiveCommands)
<1>1. commands \in Seq(ToSet(commands)) /\ undoPointer \in 0..Len(commands) /\ GoodLog(base, commands)
  BY DEF DraftInv, DraftTypeOK, GoodLog
<1>2. Len(commands) \in Nat /\ DOMAIN commands = 1..Len(commands)
  BY <1>1, LenProperties
<1> QED BY <1>1, <1>2, PrefixIs, LogPrefix DEF ActiveCommands

(* Under the invariant each prefix folds to one well-formed table.         *)
LEMMA PrefixFolds ==
    ASSUME DraftInv, NEW n, n \in 0..Len(commands), NEW t \in Tables
    PROVE  \E rows : WellFormed(rows) /\ FoldTable(t, base[t], Prefix(n)) = {rows}
<1>1. \A u \in Tables : WellFormed(base[u])
  BY BaseIsWellFormed DEF DraftInv
<1>2. GoodLog(base, commands)
  BY DEF DraftInv
<1>3. FoldsToOne(base, commands, n, t)
  BY <1>1, <1>2, GoodFolds
<1> QED BY <1>3 DEF FoldsToOne, Prefix

(* The working table is the one table the active log folds to.             *)
LEMMA WorkingTableIs ==
    ASSUME DraftInv, NEW t \in Tables
    PROVE  WellFormed(WorkingTable(t)) /\ WorkingTables(t) = {WorkingTable(t)}
<1>1. undoPointer \in 0..Len(commands)
  BY DraftTypes
<1>2. PICK rows : WellFormed(rows) /\ FoldTable(t, base[t], Prefix(undoPointer)) = {rows}
  BY <1>1, PrefixFolds
<1> QED BY <1>2 DEF WorkingTable, WorkingTables, ActiveCommands, Prefix

(* There is an unused group: the active log has fewer groups than numbers  *)
(* to choose from.                                                         *)
LEMMA UnusedGroupIs ==
    ASSUME DraftInv
    PROVE  UnusedGroup \in Nat
<1> DEFINE p == undoPointer
<1>1. p \in Nat
  BY DraftTypes
<1>2. \E g \in 1..(p + 1) : \A k \in 1..p : commands[k].group # g
  <2> SUFFICES ASSUME \A g \in 1..(p + 1) : \E k \in 1..p : commands[k].group = g PROVE FALSE
    OBVIOUS
  <2> DEFINE f == [g \in 1..(p + 1) |-> CHOOSE k \in 1..p : commands[k].group = g]
  <2> HIDE DEF p
  <2>1. \A g \in 1..(p + 1) : f[g] \in 1..p /\ commands[f[g]].group = g
    OBVIOUS
  <2>2. f \in [1..(p + 1) -> 1..p]
    BY <2>1
  <2> HIDE DEF f
  <2>3. f \in Injection(1..(p + 1), 1..p)
    BY <2>1, <2>2 DEF Injection, IsInjective
  <2>4. ExistsInjection(1..(p + 1), 1..p)
    BY <2>3 DEF ExistsInjection
  <2>5. p + 1 \in Nat /\ ~(p + 1 <= p)
    BY <1>1
  <2>6. p + 1 <= p
    BY <1>1, <2>4, <2>5, Fun_NatInjLeq
  <2> QED BY <2>5, <2>6
<1>3. UnusedGroup \in 1..(p + 1)
  BY <1>2 DEF UnusedGroup
<1> QED BY <1>1, <1>3

(* appendCommandGroup keeps the invariant for commands that fit: the first *)
(* against the working table, the others whatever they meet.               *)
LEMMA AppendKeeps ==
    ASSUME DraftInv, NEW t \in Tables, NEW S, NEW bodies \in Seq(S), AppendCommandGroup(t, bodies),
           \A k \in 1..Len(bodies) :
              \/ k = 1 /\ Fits(WorkingTable(t), bodies[k])
              \/ \A rows : Fits(rows, bodies[k])
    PROVE  DraftInv'
<1> DEFINE Cmd(x) == [table |-> t, group |-> UnusedGroup, body |-> x]
           G     == {Cmd(x) : x \in S}
           group == [k \in DOMAIN bodies |-> Cmd(bodies[k])]
           full  == ActiveCommands \o group
           U     == ToSet(commands) \cup G
           m     == undoPointer
           n     == Len(bodies)
<1>1. /\ Len(full) <= MaxCommands /\ FoldTable(t, base[t], full) # {}
      /\ commands' = full /\ undoPointer' = Len(full) /\ base' = base
  BY DEF AppendCommandGroup
<1>2. n \in Nat /\ DOMAIN bodies = 1..n /\ \A k \in 1..n : bodies[k] \in S
  BY LenProperties, ElementOfSeq
<1>3. group \in Seq(G) /\ Len(group) = n /\ \A k \in 1..n : group[k] = Cmd(bodies[k])
  <2>1. group \in [1..n -> G] /\ \A k \in 1..n : group[k] = Cmd(bodies[k])
    BY <1>2
  <2> HIDE DEF group, G
  <2> QED BY <1>2, <2>1, FunIsSeq
<1>4. /\ m \in Nat /\ ActiveCommands \in Seq(ToSet(commands)) /\ Len(ActiveCommands) = m
      /\ GoodLog(base, ActiveCommands)
  BY DraftTypes
<1> HIDE DEF group, G
<1>5. ActiveCommands \in Seq(U) /\ group \in Seq(U)
  BY <1>3, <1>4, SeqMonotonic
<1> HIDE DEF U
<1>6. /\ full \in Seq(U) /\ Len(full) = m + n
      /\ \A k \in 1..(m + n) : full[k] = IF k <= m THEN ActiveCommands[k] ELSE group[k - m]
  <2>1. /\ full \in Seq(U) /\ Len(full) = Len(ActiveCommands) + Len(group)
        /\ \A k \in 1..(Len(ActiveCommands) + Len(group)) :
              full[k] = IF k <= Len(ActiveCommands) THEN ActiveCommands[k]
                        ELSE group[k - Len(ActiveCommands)]
    BY <1>5, ConcatProperties
  <2> QED BY <1>3, <1>4, <2>1
<1> HIDE DEF full, m, n
<1>7. \A k \in 1..m : full[k] = ActiveCommands[k]
  BY <1>2, <1>4, <1>6
<1>8. SubSeq(full, 1, m) = ActiveCommands
  <2>1. m \in 0..Len(full)
    BY <1>2, <1>4, <1>6
  <2>2. /\ SubSeq(full, 1, m) \in Seq(U) /\ Len(SubSeq(full, 1, m)) = m
        /\ \A k \in 1..m : SubSeq(full, 1, m)[k] = full[k]
    BY <1>6, <2>1, PrefixIs
  <2> QED BY <1>4, <1>5, <1>7, <2>2, SeqEqual
<1>9. ASSUME NEW k \in (m + 1)..Len(full)
      PROVE  /\ full[k].table = t /\ full[k].group \in Nat
             /\ \A rows \in FoldTable(t, base[t], SubSeq(full, 1, k - 1)) : Fits(rows, full[k].body)
  <2>1. k - m \in 1..n /\ k \in 1..(m + n) /\ ~(k <= m)
    BY <1>2, <1>4, <1>6
  <2>2. full[k] = Cmd(bodies[k - m])
    BY <1>3, <1>6, <2>1
  <2>3. full[k].table = t /\ full[k].group = UnusedGroup /\ full[k].body = bodies[k - m]
    BY <2>2
  <2> HIDE DEF Cmd
  <2>4. CASE \A rows : Fits(rows, bodies[k - m])
    BY <2>3, <2>4, UnusedGroupIs
  <2>5. CASE k - m = 1 /\ Fits(WorkingTable(t), bodies[k - m])
    <3>1. k - 1 = m
      BY <1>4, <2>1, <2>5
    <3>2. FoldTable(t, base[t], SubSeq(full, 1, k - 1)) = {WorkingTable(t)}
      BY <1>8, <3>1, WorkingTableIs DEF WorkingTables
    <3> QED BY <2>3, <2>5, <3>2, UnusedGroupIs
  <2> QED BY <2>1, <2>4, <2>5 DEF n
<1>10. GoodLog(base, full)
  <2>1. \A u \in Tables : WellFormed(base[u])
    BY BaseIsWellFormed DEF DraftInv
  <2>2. Len(ActiveCommands) = m /\ m <= Len(full)
    BY <1>2, <1>4, <1>6
  <2>3. \A k \in 1..Len(ActiveCommands) : full[k] = ActiveCommands[k]
    BY <1>7, <2>2
  <2>4. \A k \in (Len(ActiveCommands) + 1)..Len(full) :
           /\ full[k].table = t /\ full[k].group \in Nat
           /\ \A rows \in FoldTable(t, base[t], SubSeq(full, 1, k - 1)) : Fits(rows, full[k].body)
    BY <1>9, <2>2
  <2>5. GoodLog(base, ActiveCommands) /\ full \in Seq(U) /\ Len(ActiveCommands) <= Len(full)
    BY <1>4, <1>6, <2>2
  <2>6. FoldTable(t, base[t], full) # {}
    BY <1>1
  <2> QED BY <2>1, <2>3, <2>4, <2>5, <2>6, LogExtends
<1>11. GoodLog(base', commands')
  BY <1>1, <1>10
<1>12. Len(full) \in Nat /\ DOMAIN full = 1..Len(full)
  BY <1>6, LenProperties
<1>13. DraftTypeOK'
  BY <1>1, <1>10, <1>12 DEF DraftTypeOK, GoodLog
<1>14. \A k \in 1..(Len(commands') - 1) : k # undoPointer'
  BY <1>1, <1>12
<1> QED BY <1>1, <1>11, <1>13, <1>14 DEF DraftInv

(* The case of a group of one command.                                     *)
LEMMA AppendOneKeeps ==
    ASSUME DraftInv, NEW t \in Tables, NEW body, Fits(WorkingTable(t), body),
           AppendCommandGroup(t, <<body>>)
    PROVE  DraftInv'
<1> DEFINE bodies == <<body>>
<1>1. bodies \in Seq({body}) /\ Len(bodies) = 1 /\ bodies[1] = body
  OBVIOUS
<1>2. \A k \in 1..Len(bodies) : k = 1 /\ Fits(WorkingTable(t), bodies[k])
  BY <1>1
<1>3. AppendCommandGroup(t, bodies)
  OBVIOUS
<1> HIDE DEF bodies
<1> QED BY <1>1, <1>2, <1>3, AppendKeeps

(* The bodies of one setCells gesture                                      *)
CellBody(t, edits, k, before) ==
    LET rows == CHOOSE r \in FoldTable(t, WorkingTable(t),
                                [j \in DOMAIN before |-> [table |-> t, body |-> before[j]]]) : TRUE
        row  == rows[CHOOSE i \in AtRow(rows, edits[k].rowId) : TRUE]
    IN  [kind |-> "set_cell", rowId |-> edits[k].rowId,
         oldValue |-> row.val, newValue |-> edits[k].value]

(* f is the function of intermediate gestures SetCellBodies computes.      *)
IsBuild(t, edits, n, f) ==
    f = [k \in 0..n |-> IF k = 0 THEN <<>> ELSE Append(f[k - 1], CellBody(t, edits, k, f[k - 1]))]

(* By induction over the edits, the intermediate gestures exist.           *)
LEMMA BuildExists ==
    ASSUME NEW t, NEW edits
    PROVE  \A n \in Nat : \E f : IsBuild(t, edits, n, f)
<1> DEFINE Next(k, s) == Append(s, CellBody(t, edits, k, s))
           S == {n \in Nat : \E f : IsBuild(t, edits, n, f)}
<1>1. 0 \in S
  <2> DEFINE f == [k \in 0..0 |-> <<>>]
  <2>1. IsBuild(t, edits, 0, f)
    BY DEF IsBuild
  <2> QED BY <2>1
<1>2. ASSUME NEW n \in Nat, n \in S PROVE n + 1 \in S
  <2>1. PICK f : f = [k \in 0..n |-> IF k = 0 THEN <<>> ELSE Next(k, f[k - 1])]
    BY <1>2 DEF IsBuild
  <2> HIDE DEF Next
  <2> DEFINE g == [k \in 0..(n + 1) |-> IF k = n + 1 THEN Next(n + 1, f[n]) ELSE f[k]]
  <2>2. ASSUME NEW k \in 0..(n + 1)
        PROVE  g[k] = IF k = 0 THEN <<>> ELSE Next(k, g[k - 1])
    <3>1. CASE k = 0
      BY <3>1, <2>1
    <3>2. CASE k \in 1..n
      <4>1. /\ k - 1 \in 0..n /\ k \in 0..n /\ k # 0 /\ k # n + 1
            /\ k - 1 # n + 1 /\ k - 1 \in 0..(n + 1)
        BY <3>2
      <4>2. g[k] = f[k] /\ g[k - 1] = f[k - 1]
        BY <4>1
      <4>3. f[k] = Next(k, f[k - 1])
        BY <4>1, <2>1
      <4> QED BY <4>1, <4>2, <4>3
    <3>3. CASE k = n + 1
      <4>1. k - 1 = n /\ g[k - 1] = f[n] /\ k # 0
        BY <3>3
      <4> QED BY <3>3, <4>1
    <3> QED BY <3>1, <3>2, <3>3
  <2>3. g = [k \in 0..(n + 1) |-> IF k = 0 THEN <<>> ELSE Next(k, g[k - 1])]
    BY <2>2
  <2>4. IsBuild(t, edits, n + 1, g)
    BY <2>3 DEF IsBuild, Next
  <2> QED BY <2>4
<1>3. Nat \subseteq S
  <2> HIDE DEF S
  <2> QED BY <1>1, <1>2, NatSetInduction
<1> QED BY <1>3

(* A setCells gesture is a sequence of cell edits, which fit any table.    *)
LEMMA SetCellBodiesAre ==
    ASSUME NEW t, NEW E, NEW edits \in Seq(E), \A e \in E : e.value \in Values
    PROVE  \E S : /\ SetCellBodies(t, edits) \in Seq(S)
                  /\ \A c \in S : \A rows : Fits(rows, c)
<1> DEFINE n == Len(edits)
           f == CHOOSE f : IsBuild(t, edits, n, f)
<1>1. n \in Nat /\ \A k \in 1..n : edits[k] \in E
  BY LenProperties, ElementOfSeq
<1>2. IsBuild(t, edits, n, f)
  BY <1>1, BuildExists
<1>3. SetCellBodies(t, edits) = f[n]
  BY DEF SetCellBodies, IsBuild, CellBody
<1> HIDE DEF f, n
<1> DEFINE S == {CellBody(t, edits, k, f[k - 1]) : k \in 1..n}
           D == {k \in Nat : k <= n => f[k] \in Seq(S)}
<1>4. 0 \in D
  BY <1>1, <1>2 DEF IsBuild
<1>5. ASSUME NEW k \in Nat, k \in D PROVE k + 1 \in D
  <2> SUFFICES ASSUME k + 1 <= n PROVE f[k + 1] \in Seq(S)
    OBVIOUS
  <2>1. k + 1 \in 0..n /\ k + 1 \in 1..n /\ k + 1 # 0 /\ (k + 1) - 1 = k /\ k <= n
    BY <1>1
  <2>2. f[k + 1] = Append(f[k], CellBody(t, edits, k + 1, f[k]))
    BY <1>2, <2>1 DEF IsBuild
  <2>3. CellBody(t, edits, k + 1, f[k]) \in S
    BY <2>1
  <2>4. f[k] \in Seq(S)
    BY <1>5, <2>1
  <2> HIDE DEF S
  <2> QED BY <2>2, <2>3, <2>4, AppendProperties
<1>6. f[n] \in Seq(S)
  <2>1. Nat \subseteq D
    <3> HIDE DEF D
    <3> QED BY <1>4, <1>5, NatSetInduction
  <2> QED BY <1>1, <2>1
<1>7. ASSUME NEW c \in S, NEW rows PROVE Fits(rows, c)
  <2>1. PICK k \in 1..n : c = CellBody(t, edits, k, f[k - 1])
    OBVIOUS
  <2>2. PICK old : c = [kind |-> "set_cell", rowId |-> edits[k].rowId,
                        oldValue |-> old, newValue |-> edits[k].value]
    BY <2>1 DEF CellBody
  <2>3. edits[k].value \in Values
    BY <1>1
  <2>4. /\ c = [kind |-> "set_cell", rowId |-> c.rowId, oldValue |-> c.oldValue, newValue |-> c.newValue]
        /\ c.newValue \in Values
    BY <2>2, <2>3
  <2> QED BY <2>4 DEF Fits
<1> HIDE DEF S
<1> QED BY <1>3, <1>6, <1>7

(* One lemma per intent                                                    *)
LEMMA SetCellsKeeps ==
    ASSUME DraftInv, NEW t \in Tables, NEW E, NEW edits \in Seq(E),
           \A e \in E : e.value \in Values, SetCells(t, edits)
    PROVE  DraftInv'
<1>1. PICK S : SetCellBodies(t, edits) \in Seq(S) /\ \A c \in S : \A rows : Fits(rows, c)
  BY SetCellBodiesAre
<1> DEFINE bodies == SetCellBodies(t, edits)
<1>2. AppendCommandGroup(t, bodies)
  BY DEF SetCells
<1> HIDE DEF bodies
<1>3. bodies \in Seq(S) /\ \A k \in 1..Len(bodies) : \A rows : Fits(rows, bodies[k])
  <2>1. bodies \in Seq(S)
    BY <1>1 DEF bodies
  <2>2. \A k \in 1..Len(bodies) : bodies[k] \in S
    BY <2>1, ElementOfSeq
  <2> QED BY <1>1, <2>1, <2>2
<1> QED BY <1>2, <1>3, AppendKeeps

LEMMA AddRowIntentKeeps ==
    ASSUME DraftInv, NEW t \in Tables, NEW name \in Names, NEW at, AddRow(t, name, at)
    PROVE  DraftInv'
<1> DEFINE d == CHOOSE d \in UnusedRowIds : TRUE
           body == AddRowBody(d, name, at)
<1>1. /\ AppendCommandGroup(t, <<body>>) /\ ValidNewName(WorkingTable(t), name, NoRow)
      /\ at \in 0..Len(WorkingTable(t)) /\ d \in UnusedRowIds
  BY DEF AddRow
<1>2. d \in DraftRowIds /\ at \in Nat
  BY <1>1, WorkingTableIs, WellFormedIs DEF UnusedRowIds
<1> HIDE DEF d
<1>3. DraftRowId(d) \in RowIdentity
  BY <1>2 DEF RowIdentity
<1>4. body \in [kind : {"add_row"}, atIndex : Nat, row : Row] /\ body.row.name = name
  BY <1>2, <1>3, ValueAssumption DEF AddRowBody, Row
<1>5. Fits(WorkingTable(t), body)
  <2> HIDE DEF body
  <2> QED BY <1>1, <1>4 DEF Fits
<1> HIDE DEF body
<1> QED BY <1>1, <1>5, AppendOneKeeps

LEMMA DuplicateRowIntentKeeps ==
    ASSUME DraftInv, NEW t \in Tables, NEW source, NEW name \in Names, NEW at,
           DuplicateRow(t, source, name, at)
    PROVE  DraftInv'
<1> DEFINE d == CHOOSE d \in UnusedRowIds : TRUE
           body == DuplicateRowBody(WorkingTable(t), source, d, name, at)
<1>1. /\ AppendCommandGroup(t, <<body>>) /\ ValidNewName(WorkingTable(t), name, NoRow)
      /\ at \in 0..Len(WorkingTable(t)) /\ d \in UnusedRowIds /\ source \in DOMAIN WorkingTable(t)
  BY DEF DuplicateRow
<1>2. d \in DraftRowIds /\ at \in Nat /\ WorkingTable(t)[source].val \in Values
  BY <1>1, WorkingTableIs, WellFormedIs DEF UnusedRowIds
<1> HIDE DEF d
<1>3. DraftRowId(d) \in RowIdentity
  BY <1>2 DEF RowIdentity
<1>4. body \in [kind : {"add_row"}, atIndex : Nat, row : Row] /\ body.row.name = name
  BY <1>2, <1>3 DEF DuplicateRowBody, Row
<1>5. Fits(WorkingTable(t), body)
  <2> HIDE DEF body
  <2> QED BY <1>1, <1>4 DEF Fits
<1> HIDE DEF body
<1> QED BY <1>1, <1>5, AppendOneKeeps

LEMMA RemoveRowIntentKeeps ==
    ASSUME DraftInv, NEW t \in Tables, NEW k, RemoveRow(t, k)
    PROVE  DraftInv'
<1> DEFINE body == RemoveRowBody(WorkingTable(t), k)
<1>1. AppendCommandGroup(t, <<body>>) /\ k \in DOMAIN WorkingTable(t)
  BY DEF RemoveRow
<1>2. WorkingTable(t)[k] \in Row /\ k \in Nat /\ k - 1 \in Nat /\ (k - 1) + 1 = k
  BY <1>1, WorkingTableIs, WellFormedIs
<1>3. /\ body \in [kind : {"remove_row"}, atIndex : Nat, row : Row]
      /\ body.atIndex + 1 = k /\ body.row = WorkingTable(t)[k]
  BY <1>2 DEF RemoveRowBody
<1> HIDE DEF body
<1>4. Fits(WorkingTable(t), body)
  BY <1>1, <1>3 DEF Fits
<1> QED BY <1>1, <1>4, AppendOneKeeps

LEMMA RenameRowIntentKeeps ==
    ASSUME DraftInv, NEW t \in Tables, NEW k, NEW name \in Names, RenameRow(t, k, name)
    PROVE  DraftInv'
<1> DEFINE body == RenameRowBody(WorkingTable(t), k, name)
<1>1. /\ AppendCommandGroup(t, <<body>>) /\ k \in DOMAIN WorkingTable(t)
      /\ ValidNewName(WorkingTable(t), name, WorkingTable(t)[k].id)
  BY DEF RenameRow
<1>2. WorkingTable(t)[k].id \in RowIdentity /\ WorkingTable(t)[k].name \in Names
  BY <1>1, WorkingTableIs, WellFormedIs
<1>3. /\ body \in [kind : {"rename_row"}, rowId : RowIdentity, oldName : Names, newName : Names]
      /\ body.rowId = WorkingTable(t)[k].id /\ body.newName = name
  BY <1>2 DEF RenameRowBody
<1> HIDE DEF body
<1>4. Fits(WorkingTable(t), body)
  BY <1>1, <1>3 DEF Fits
<1> QED BY <1>1, <1>4, AppendOneKeeps

(* The order of a table is a sequence of row identities.                   *)
LEMMA RowIdsAre ==
    ASSUME NEW rows, WellFormed(rows)
    PROVE  /\ RowIds(rows) \in Seq(RowIdentity) /\ Len(RowIds(rows)) = Len(rows)
           /\ IsFiniteSet(ToSet(RowIds(rows)))
<1> DEFINE ids == RowIds(rows)
<1>1. ids \in [1..Len(rows) -> RowIdentity] /\ Len(rows) \in Nat
  BY WellFormedIs DEF RowIds
<1> HIDE DEF ids
<1>2. ids \in Seq(RowIdentity) /\ Len(ids) = Len(rows) /\ DOMAIN ids = 1..Len(rows)
  BY <1>1, FunIsSeq
<1>3. IsFiniteSet(1..Len(rows))
  BY <1>1, FS_Interval
<1>4. ids \in Surjection(1..Len(rows), ToSet(ids))
  BY <1>1, <1>2 DEF Surjection, ToSet
<1>5. IsFiniteSet(ToSet(ids))
  BY <1>3, <1>4, FS_Surjection
<1> QED BY <1>2, <1>5 DEF ids

LEMMA ReorderRowsIntentKeeps ==
    ASSUME DraftInv, NEW t \in Tables, NEW order \in SetToSeqs(ToSet(RowIds(WorkingTable(t)))),
           ReorderRows(t, order)
    PROVE  DraftInv'
<1> DEFINE rows == WorkingTable(t)
           ids  == RowIds(rows)
           body == ReorderRowsBody(rows, order)
<1>1. AppendCommandGroup(t, <<body>>)
  BY DEF ReorderRows
<1>2. ids \in Seq(RowIdentity) /\ IsFiniteSet(ToSet(ids))
  BY WorkingTableIs, RowIdsAre
<1> HIDE DEF rows
<1>3. ToSet(ids) \subseteq RowIdentity /\ Cardinality(ToSet(ids)) \in Nat
  BY <1>2, LenProperties, FS_CardinalityType DEF ToSet
<1>4. order \in [1..Cardinality(ToSet(ids)) -> ToSet(ids)]
  BY DEF SetToSeqs, rows
<1>5. order \in Seq(RowIdentity)
  <2> DEFINE n == Cardinality(ToSet(ids))
  <2>1. order \in [1..n -> RowIdentity] /\ n \in Nat
    BY <1>3, <1>4
  <2> HIDE DEF n
  <2> QED BY <2>1, FunIsSeq
<1>6. body \in [kind : {"reorder_rows"}, oldOrder : Seq(RowIdentity), newOrder : Seq(RowIdentity)]
  BY <1>2, <1>5 DEF ReorderRowsBody
<1> HIDE DEF body
<1>7. Fits(WorkingTable(t), body)
  BY <1>6 DEF Fits
<1> QED BY <1>1, <1>7, AppendOneKeeps

(* Every edit keeps the invariant.                                         *)
LEMMA EditKeeps ==
    ASSUME DraftInv, NEW t \in Tables, Edit(t)
    PROVE  DraftInv'
<1> DEFINE E == [rowId : ToSet(RowIds(WorkingTable(t))), value : Values]
<1>1. ASSUME NEW edits \in TupleOf(E, 1) \cup TupleOf(E, 2), SetCells(t, edits)
      PROVE  DraftInv'
  <2>1. \A e \in E : e.value \in Values
    OBVIOUS
  <2> HIDE DEF E
  <2>2. edits \in [1..1 -> E] \/ edits \in [1..2 -> E]
    BY DEF TupleOf
  <2>3. edits \in Seq(E)
    BY <2>2, FunIsSeq
  <2> QED BY <1>1, <2>1, <2>3, SetCellsKeeps
<1>2. ASSUME NEW name \in Names, NEW at \in 0..MaxRows, AddRow(t, name, at)
      PROVE  DraftInv'
  BY <1>2, AddRowIntentKeeps
<1>3. ASSUME NEW k \in 1..MaxRows, NEW name \in Names, NEW at \in 0..MaxRows,
             DuplicateRow(t, k, name, at)
      PROVE  DraftInv'
  BY <1>3, DuplicateRowIntentKeeps
<1>4. ASSUME NEW k \in 1..MaxRows, RemoveRow(t, k)
      PROVE  DraftInv'
  BY <1>4, RemoveRowIntentKeeps
<1>5. ASSUME NEW k \in 1..MaxRows, NEW name \in Names, RenameRow(t, k, name)
      PROVE  DraftInv'
  BY <1>5, RenameRowIntentKeeps
<1>6. ASSUME NEW order \in SetToSeqs(ToSet(RowIds(WorkingTable(t)))), ReorderRows(t, order)
      PROVE  DraftInv'
  BY <1>6, ReorderRowsIntentKeeps
<1> QED BY <1>1, <1>2, <1>3, <1>4, <1>5, <1>6 DEF Edit
-----------------------------------------------------------------------------
(* Undo and redo                                                           *)

(* Undo finds the end of the group before the current one.                 *)
LEMMA UndoTargetIs ==
    ASSUME undoPointer \in 1..Len(commands), Len(commands) \in Nat
    PROVE  /\ UndoTarget(undoPointer) \in 0..(undoPointer - 1)
           /\ \A k \in (UndoTarget(undoPointer) + 1)..undoPointer :
                 commands[k].group = commands[undoPointer].group
           /\ \/ UndoTarget(undoPointer) = 0
              \/ commands[UndoTarget(undoPointer)].group # commands[undoPointer].group
PROOF
<1> DEFINE p == undoPointer
           S == {q \in 0..(p - 1) : \A k \in (q + 1)..p : commands[k].group = commands[p].group}
           G(q) == /\ \A k \in (q + 1)..p : commands[k].group = commands[p].group
                   /\ q = 0 \/ commands[q].group # commands[p].group
<1>1. p - 1 \in S
  OBVIOUS
<1>2. PICK q \in S : \A r \in S : q <= r
  <2>1. p - 1 \in Nat
    OBVIOUS
  <2>2. S \subseteq 0..(p - 1) /\ S # {}
    BY <1>1
  <2> HIDE DEF S, p
  <2>3. S \subseteq Nat
    BY <2>1, <2>2
  <2> QED
    BY <2>2, <2>3, Smallest
<1>3. q = 0 \/ commands[q].group # commands[p].group
  <2>1. SUFFICES ASSUME q # 0, commands[q].group = commands[p].group
                 PROVE  FALSE
    OBVIOUS
  <2>2. q - 1 \in 0..(p - 1)
    BY <1>2, <2>1
  <2>3. \A k \in ((q - 1) + 1)..p : commands[k].group = commands[p].group
    BY <1>2, <2>1
  <2> QED
    BY <1>2, <2>2, <2>3
<1>4. q \in 0..(p - 1) /\ G(q)
  BY <1>2, <1>3
<1>5. UndoTarget(p) = CHOOSE r \in 0..(p - 1) : G(r)
  BY DEF UndoTarget
<1>6. UndoTarget(p) \in 0..(p - 1) /\ G(UndoTarget(p))
  <2> HIDE DEF G, p
  <2> QED
    BY <1>4, <1>5
<1> QED
  BY <1>6

(* Redo finds the end of the next group.                                   *)
LEMMA RedoTargetIs ==
    ASSUME NEW p \in 0..(Len(commands) - 1), Len(commands) \in Nat
    PROVE  /\ RedoTarget(p) \in (p + 1)..Len(commands)
           /\ \A k \in (p + 1)..RedoTarget(p) : commands[k].group = commands[p + 1].group
           /\ \/ RedoTarget(p) = Len(commands)
              \/ commands[RedoTarget(p) + 1].group # commands[p + 1].group
PROOF
<1> DEFINE n == Len(commands)
           S == {q \in (p + 1)..n : q = n \/ commands[q + 1].group # commands[p + 1].group}
           G(q) == /\ \A k \in (p + 1)..q : commands[k].group = commands[p + 1].group
                   /\ q = n \/ commands[q + 1].group # commands[p + 1].group
<1>1. n \in S
  OBVIOUS
<1>2. PICK q \in S : \A r \in S : q <= r
  <2>1. S \subseteq Nat /\ S # {}
    BY <1>1
  <2> QED
    BY <2>1, Smallest
<1>3. \A k \in (p + 1)..q : commands[k].group = commands[p + 1].group
  <2>1. SUFFICES ASSUME NEW k \in (p + 1)..q, commands[k].group # commands[p + 1].group
                 PROVE  FALSE
    OBVIOUS
  <2>2. k # p + 1
    BY <2>1
  <2>3. k - 1 \in (p + 1)..n /\ (k - 1) + 1 = k /\ k - 1 < q
    BY <1>2, <2>2
  <2>4. k - 1 \in S
    BY <2>1, <2>3
  <2> QED
    <3>1. q <= k - 1
      BY <1>2, <2>4
    <3> QED
      BY <2>3, <3>1
<1>4. q \in (p + 1)..n /\ G(q)
  BY <1>2, <1>3
<1>5. RedoTarget(p) = CHOOSE r \in (p + 1)..n : G(r)
  BY DEF RedoTarget
<1>6. RedoTarget(p) \in (p + 1)..n /\ G(RedoTarget(p))
  <2> HIDE DEF G, n
  <2> QED
    BY <1>4, <1>5
<1> QED
  BY <1>6

(* Undo and redo keep the invariant: they stop between two groups.         *)
LEMMA UndoKeeps ==
    ASSUME DraftInv, Undo
    PROVE  DraftInv'
PROOF
<1> DEFINE p == undoPointer
           q == UndoTarget(undoPointer)
<1>1. p \in 1..Len(commands) /\ Len(commands) \in Nat
  BY DraftTypes DEF Undo
<1>2. /\ q \in 0..(p - 1)
      /\ \A k \in (q + 1)..p : commands[k].group = commands[p].group
      /\ q = 0 \/ commands[q].group # commands[p].group
  BY <1>1, UndoTargetIs
<1>3. undoPointer' = q /\ base' = base /\ commands' = commands
  BY DEF Undo
<1>4. \A k \in 1..(Len(commands) - 1) : k = q => commands[k].group # commands[k + 1].group
  <2>1. SUFFICES ASSUME q \in 1..(Len(commands) - 1)
                 PROVE  commands[q].group # commands[q + 1].group
    OBVIOUS
  <2>2. commands[q + 1].group = commands[p].group /\ commands[q].group # commands[p].group
    BY <1>1, <1>2, <2>1
  <2> QED
    BY <2>2
<1>5. DraftTypeOK'
  <2>1. q \in 0..Len(commands)
    BY <1>1, <1>2
  <2> QED
    BY <1>3, <2>1 DEF DraftInv, DraftTypeOK
<1> QED
  BY <1>3, <1>4, <1>5 DEF DraftInv

LEMMA RedoKeeps ==
    ASSUME DraftInv, Redo
    PROVE  DraftInv'
PROOF
<1> DEFINE p == undoPointer
           q == RedoTarget(undoPointer)
<1>1. p \in 0..(Len(commands) - 1) /\ Len(commands) \in Nat
  BY DraftTypes DEF Redo
<1>2. /\ q \in (p + 1)..Len(commands)
      /\ \A k \in (p + 1)..q : commands[k].group = commands[p + 1].group
      /\ q = Len(commands) \/ commands[q + 1].group # commands[p + 1].group
  BY <1>1, RedoTargetIs
<1>3. undoPointer' = q /\ base' = base /\ commands' = commands
  BY DEF Redo
<1>4. \A k \in 1..(Len(commands) - 1) : k = q => commands[k].group # commands[k + 1].group
  <2>1. SUFFICES ASSUME q \in 1..(Len(commands) - 1)
                 PROVE  commands[q].group # commands[q + 1].group
    OBVIOUS
  <2>2. commands[q].group = commands[p + 1].group /\ commands[q + 1].group # commands[p + 1].group
    BY <1>1, <1>2, <2>1
  <2> QED
    BY <2>2
<1>5. DraftTypeOK'
  <2>1. q \in 0..Len(commands)
    BY <1>1, <1>2
  <2> QED
    BY <1>3, <2>1 DEF DraftInv, DraftTypeOK
<1> QED
  BY <1>3, <1>4, <1>5 DEF DraftInv

-----------------------------------------------------------------------------
(* The invariant and the properties it implies                             *)

(* The invariant holds of a new draft and is kept by every step.           *)
LEMMA DraftInitInv ==
    ASSUME DraftInit
    PROVE  DraftInv
PROOF
<1>1. Len(commands) = 0 /\ commands \in Seq({}) /\ ToSet(commands) = {}
  BY DEF DraftInit, ToSet
<1>2. base \in [Tables -> {SnapshotRows(rows) : rows \in BaseTables}]
  BY DEF DraftInit
<1>3. GoodLog(base, commands)
  <2>1. 0 \in 0..Len(commands)
    BY <1>1
  <2>2. Len(SubSeq(commands, 1, 0)) = 0
    BY <1>1, <2>1, PrefixIs
  <2>3. \A t \in Tables : FoldTable(t, base[t], SubSeq(commands, 1, 0)) = {base[t]}
    BY <2>2, FoldEmpty
  <2> QED
    BY <1>1, <2>3 DEF GoodLog
<1>4. DraftTypeOK
  BY <1>1, BoundsAssumption DEF DraftInit, DraftTypeOK
<1> QED
  BY <1>1, <1>2, <1>3, <1>4 DEF DraftInv

LEMMA DraftNextInv ==
    ASSUME DraftInv, [DraftNext]_draftVars
    PROVE  DraftInv'
PROOF
<1>1. CASE \E t \in Tables : Edit(t)
  BY <1>1, EditKeeps
<1>2. CASE Undo
  BY <1>2, UndoKeeps
<1>3. CASE Redo
  BY <1>3, RedoKeeps
<1>4. CASE UNCHANGED draftVars
  BY <1>4 DEF draftVars, DraftInv, DraftTypeOK
<1> QED
  BY <1>1, <1>2, <1>3, <1>4 DEF DraftNext

(* The inductive invariant of the draft.                                   *)
THEOREM DraftInvariant == DraftSpec => []DraftInv
PROOF
<1>1. DraftInit => DraftInv
  BY DraftInitInv
<1>2. DraftInv /\ [DraftNext]_draftVars => DraftInv'
  BY DraftNextInv
<1> QED
  BY <1>1, <1>2, PTL DEF DraftSpec

(* The undo pointer stays inside the log, the log inside its bound, and    *)
(* every command names a table of the session.                             *)
THEOREM DraftTypeCorrect == DraftSpec => []DraftTypeOK
PROOF
<1>1. DraftInv => DraftTypeOK
  BY DEF DraftInv
<1> QED
  BY <1>1, DraftInvariant, PTL

(* foldTable never throws: every prefix of the log, the redo tail          *)
(* included, folds over every table's base, whatever the history of edits, *)
(* undos and redos.                                                        *)
THEOREM PrefixesFold == DraftSpec => []EveryPrefixFolds
PROOF
<1>1. DraftInv => EveryPrefixFolds
  BY PrefixFolds DEF EveryPrefixFolds
<1> QED
  BY <1>1, DraftInvariant, PTL

(* No point of the undo history has two rows of one identity or of one     *)
(* FName.                                                                  *)
THEOREM RowsDistinct == DraftSpec => []RowsStayDistinct
PROOF
<1>1. DraftInv => RowsStayDistinct
  <2>1. SUFFICES ASSUME DraftInv, NEW p \in 0..Len(commands), NEW t \in Tables,
                        NEW rows \in FoldTable(t, base[t], Prefix(p))
                 PROVE  DistinctRows(rows)
    BY DEF RowsStayDistinct, DistinctRows
  <2>2. WellFormed(rows)
    BY <2>1, PrefixFolds
  <2> QED
    BY <2>2 DEF WellFormed
<1> QED
  BY <1>1, DraftInvariant, PTL

(* invertCommand undoes each command of the log on the table it was folded *)
(* into.                                                                   *)
THEOREM InversionCorrect == DraftSpec => []InversionRestores
PROOF
<1>1. DraftInv => InversionRestores
  <2>1. SUFFICES ASSUME DraftInv, NEW p \in DOMAIN commands,
                        NEW before \in FoldTable(commands[p].table, base[commands[p].table], Prefix(p - 1)),
                        NEW after \in FoldCommand(before, commands[p].body)
                 PROVE  FoldCommand(after, InvertCommand(commands[p].body)) = {before}
    BY DEF InversionRestores
  <2>2. p \in 1..Len(commands) /\ p - 1 \in 0..Len(commands) /\ GoodLog(base, commands)
    BY <2>1, DraftTypes DEF DraftInv
  <2>3. commands[p].table \in Tables /\ Fits(before, commands[p].body)
    BY <2>1, <2>2 DEF GoodLog, Prefix
  <2>4. WellFormed(before)
    BY <2>1, <2>2, <2>3, PrefixFolds
  <2> QED
    BY <2>1, <2>3, <2>4, CommandKeeps
<1> QED
  BY <1>1, DraftInvariant, PTL

(* Redo gives back exactly the gesture that undo took: the pointer only    *)
(* rests between gesture groups.                                           *)
THEOREM UndoRedoCorrect == DraftSpec => []UndoRedoByGesture
PROOF
<1>1. DraftInv => UndoRedoByGesture
  <2>1. SUFFICES ASSUME DraftInv, undoPointer > 0
                 PROVE  RedoTarget(UndoTarget(undoPointer)) = undoPointer
    BY DEF DraftInv, UndoRedoByGesture
  <2> DEFINE p == undoPointer
             q == UndoTarget(undoPointer)
             r == RedoTarget(UndoTarget(undoPointer))
  <2>2. p \in 1..Len(commands) /\ Len(commands) \in Nat
    BY <2>1, DraftTypes
  <2>3. /\ q \in 0..(p - 1)
        /\ \A k \in (q + 1)..p : commands[k].group = commands[p].group
    BY <2>2, UndoTargetIs
  <2>4. q \in 0..(Len(commands) - 1)
    BY <2>2, <2>3
  <2>5. /\ r \in (q + 1)..Len(commands)
        /\ \A k \in (q + 1)..r : commands[k].group = commands[q + 1].group
        /\ r = Len(commands) \/ commands[r + 1].group # commands[q + 1].group
    BY <2>2, <2>4, RedoTargetIs
  <2>6. commands[q + 1].group = commands[p].group
    BY <2>2, <2>3
  <2>7. ~(r < p)
    <3>1. SUFFICES ASSUME r < p
                   PROVE  FALSE
      OBVIOUS
    <3>2. r + 1 \in (q + 1)..p /\ r # Len(commands)
      BY <2>2, <2>3, <2>5, <3>1
    <3> QED
      BY <2>3, <2>5, <2>6, <3>2
  <2>8. ~(p < r)
    <3>1. SUFFICES ASSUME p < r
                   PROVE  FALSE
      OBVIOUS
    <3>2. p + 1 \in (q + 1)..r /\ p \in 1..(Len(commands) - 1)
      BY <2>2, <2>3, <2>5, <3>1
    <3>3. commands[p].group # commands[p + 1].group
      BY <2>1, <3>2 DEF DraftInv
    <3> QED
      BY <2>5, <2>6, <3>2, <3>3
  <2> QED
    BY <2>2, <2>3, <2>5, <2>7, <2>8
<1> QED
  BY <1>1, DraftInvariant, PTL
=============================================================================
