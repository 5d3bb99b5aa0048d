----------------------- MODULE AuthoringReplayProofs -----------------------
(***************************************************************************)
(* Proofs about AuthoringReplay: the editor's replay of a draft agrees     *)
(* with the client's fold, for any names, values, snapshots, drafts and    *)
(* external edits.                                                         *)
(*                                                                         *)
(* The two algorithms are compared command by command: Follows relates the *)
(* editor's table to the draft's, and each command keeps it (CommandReplays*)
(* and the lemmas before it).  What a command does to the cells is said    *)
(* once, by Carries, and the three properties follow from it: cells shown   *)
(* for the drafted values, cells made of them, and cells of other people   *)
(* that stay where they are.                                               *)
(***************************************************************************)
EXTENDS AuthoringReplay, AuthoringDraftProofs

(* The rows of the editor's table.                                         *)
LiveRow == [name : Names, val : Stored]

(* A cell can hold o after v was assigned to it.                           *)
Made(v, o) == \E h \in Stored : o \in Assigned[h][v]

(* One command, replayed from a set of states of the table.                *)
RunOne(states, c) ==
    IF c.table # Table THEN states ELSE UNION {ApplyCommand(s, c.body) : s \in states}

(* f is the function of intermediate states Runs computes.                 *)
IsRun(rows, log, n, f) ==
    f = [k \in 0..n |-> IF k = 0 THEN {StartReplay(rows)} ELSE RunOne(f[k - 1], log[k])]

(* By induction over the length, the intermediate states exist.            *)
LEMMA RunExists ==
    ASSUME NEW rows, NEW log
    PROVE  \A n \in Nat : \E f : IsRun(rows, log, n, f)
<1> DEFINE S == {n \in Nat : \E f : IsRun(rows, log, n, f)}
<1>1. 0 \in S
  <2> DEFINE f == [k \in 0..0 |-> {StartReplay(rows)}]
  <2>1. IsRun(rows, log, 0, f)
    BY DEF IsRun
  <2> QED BY <2>1
<1>2. ASSUME NEW n \in Nat, n \in S PROVE n + 1 \in S
  <2>1. PICK f : IsRun(rows, log, n, f)
    BY <1>2
  <2> DEFINE g == [k \in 0..(n + 1) |-> IF k = n + 1 THEN RunOne(f[n], log[n + 1]) ELSE f[k]]
  <2>2. ASSUME NEW k \in 0..(n + 1)
        PROVE  g[k] = IF k = 0 THEN {StartReplay(rows)} ELSE RunOne(g[k - 1], log[k])
    <3>1. CASE k = 0
      BY <3>1, <2>1 DEF IsRun
    <3>2. CASE k \in 1..n
      <4>1. k - 1 \in 0..n /\ k \in 0..n /\ k # 0 /\ k # n + 1 /\ k - 1 # n + 1 /\ k - 1 \in 0..(n + 1)
        BY <3>2
      <4>2. g[k] = f[k] /\ g[k - 1] = f[k - 1]
        BY <4>1
      <4>3. f[k] = RunOne(f[k - 1], log[k])
        BY <4>1, <2>1 DEF IsRun
      <4> QED BY <4>1, <4>2, <4>3
    <3>3. CASE k = n + 1
      <4>1. k - 1 = n /\ g[k - 1] = f[n] /\ k # 0
        BY <3>3
      <4> QED BY <3>3, <4>1
    <3> QED BY <3>1, <3>2, <3>3
  <2>3. IsRun(rows, log, n + 1, g)
    BY <2>2 DEF IsRun
  <2> QED BY <2>3
<1>3. Nat \subseteq S
  <2> HIDE DEF S
  <2> QED BY <1>1, <1>2, NatSetInduction
<1> QED BY <1>3

(* Each of the states comes from the ones before.                          *)
RunOf(rows, log, n, f) ==
    /\ Runs(rows, log) = f
    /\ f[0] = {StartReplay(rows)}
    /\ \A k \in 1..n : f[k] = RunOne(f[k - 1], log[k])

(* Runs is such a run.                                                     *)
LEMMA RunsIsRun ==
    ASSUME NEW rows, NEW log, NEW n \in Nat, Len(log) = n
    PROVE  \E f : RunOf(rows, log, n, f)
<1>1. PICK f0 : IsRun(rows, log, n, f0)
  BY RunExists
<1> DEFINE f == CHOOSE f : IsRun(rows, log, n, f)
<1>2. IsRun(rows, log, n, f)
  BY <1>1
<1>3. Runs(rows, log) = f
  BY DEF Runs, IsRun, RunOne
<1> HIDE DEF f
<1>4. f[0] = {StartReplay(rows)}
  BY <1>2 DEF IsRun
<1>5. \A k \in 1..n : f[k] = RunOne(f[k - 1], log[k])
  <2> SUFFICES ASSUME NEW k \in 1..n PROVE f[k] = RunOne(f[k - 1], log[k])
    OBVIOUS
  <2>1. k \in 0..n /\ k # 0
    OBVIOUS
  <2> QED BY <1>2, <2>1 DEF IsRun
<1>6. RunOf(rows, log, n, f)
  BY <1>3, <1>4, <1>5 DEF RunOf
<1> QED BY <1>6

-----------------------------------------------------------------------------
(* The editor's table follows the draft's                                  *)

(* The state of the editor's table against the draft's: the same names in  *)
(* the same order, and a map that gives each row's present name.           *)
Follows(rows, s) ==
    /\ s = [rows |-> s.rows, names |-> s.names]
    /\ s.rows \in Seq(LiveRow) /\ Len(s.rows) = Len(rows)
    /\ DOMAIN s.names = {rows[k].id : k \in DOMAIN rows}
    /\ \A k \in DOMAIN rows : s.rows[k].name = rows[k].name /\ s.names[rows[k].id] = rows[k].name

(* Row j of the tables before is row i of the tables after, with the cells *)
(* it had on both sides.                                                   *)
SameCell(rows, s, j, rows2, s2, i) ==
    /\ rows2[i].id = rows[j].id /\ rows2[i].val = rows[j].val
    /\ s2.rows[i].val = s.rows[j].val

(* What a command writes into the editor's table is made of what it writes *)
(* into the draft's, and it writes only over a cell in which they agree:   *)
(* every other row keeps its cell on both sides.                           *)
Carries(rows, s, rows2, s2) ==
    /\ \A i \in DOMAIN rows2 :
          Made(rows2[i].val, s2.rows[i].val) \/ \E j \in DOMAIN rows : SameCell(rows, s, j, rows2, s2, i)
    /\ \A j \in DOMAIN rows :
          rows[j].val = s.rows[j].val \/ \E i \in DOMAIN rows2 : SameCell(rows, s, j, rows2, s2, i)

(* Replaying a command is replaying it by its kind.                        *)
LEMMA ApplyCommandIs ==
    ASSUME NEW s, NEW c
    PROVE  /\ c.kind = "set_cell" => ApplyCommand(s, c) = ApplySetCell(s, c)
           /\ c.kind = "add_row" => ApplyCommand(s, c) = ApplyAddRow(s, c)
           /\ c.kind = "remove_row" => ApplyCommand(s, c) = ApplyRemoveRow(s, c)
           /\ c.kind = "rename_row" => ApplyCommand(s, c) = ApplyRenameRow(s, c)
           /\ c.kind = "reorder_rows" => ApplyCommand(s, c) = ApplyReorderRows(s, c)
BY DEF ApplyCommand

(* Assigning a value leaves a cell with something it can hold.             *)
LEMMA AssignedIs ==
    ASSUME NEW h \in Stored, NEW v \in Values
    PROVE  Assigned[h][v] \subseteq Stored
<1>1. Assigned[h] \in [Values -> SUBSET Stored]
  BY StoredAssumption
<1> QED BY <1>1

(* The parts of that relation.                                             *)
LEMMA FollowsIs ==
    ASSUME NEW rows, WellFormed(rows), NEW s, Follows(rows, s)
    PROVE  /\ Len(rows) \in Nat /\ DOMAIN rows = 1..Len(rows)
           /\ Len(s.rows) = Len(rows) /\ DOMAIN s.rows = 1..Len(rows)
           /\ s.rows \in [1..Len(rows) -> LiveRow]
           /\ \A k \in DOMAIN rows :
                 /\ s.rows[k] \in LiveRow /\ s.rows[k].val \in Stored
                 /\ s.rows[k].name = rows[k].name /\ rows[k].name \in Names
                 /\ s.rows[k] = [name |-> s.rows[k].name, val |-> s.rows[k].val]
<1>1. /\ Len(rows) \in Nat /\ DOMAIN rows = 1..Len(rows)
      /\ \A k \in DOMAIN rows : rows[k].name \in Names
  BY WellFormedIs
<1>2. s.rows \in Seq(LiveRow) /\ Len(s.rows) = Len(rows)
  BY DEF Follows
<1>3. /\ DOMAIN s.rows = 1..Len(rows) /\ s.rows \in [1..Len(rows) -> LiveRow]
      /\ \A k \in 1..Len(rows) : s.rows[k] \in LiveRow
  BY <1>2, LenProperties, ElementOfSeq
<1>4. \A r \in LiveRow : r.val \in Stored /\ r = [name |-> r.name, val |-> r.val]
  BY DEF LiveRow
<1> QED BY <1>1, <1>2, <1>3, <1>4 DEF Follows

(* The editor finds the draft's row, by name, where the draft has it.      *)
LEMMA FindIs ==
    ASSUME NEW rows, WellFormed(rows), NEW s, Follows(rows, s)
    PROVE  /\ \A k \in DOMAIN rows : Find(s, rows[k].id) = {k}
           /\ \A id : Find(s, id) # {} => \E k \in DOMAIN rows : rows[k].id = id
<1>1. DOMAIN s.rows = DOMAIN rows
  BY FollowsIs
<1>2. ASSUME NEW k \in DOMAIN rows
      PROVE  Find(s, rows[k].id) = {k}
  <2>1. rows[k].id \in DOMAIN s.names /\ s.names[rows[k].id] = rows[k].name
    BY DEF Follows
  <2>2. \A i \in DOMAIN rows : s.rows[i].name = rows[i].name
    BY DEF Follows
  <2>3. \A i \in DOMAIN rows : i # k => ~SameFName(rows[i].name, rows[k].name)
    BY DEF WellFormed, DistinctRows
  <2>4. SameFName(rows[k].name, rows[k].name)
    BY DEF SameFName
  <2> QED BY <1>1, <2>1, <2>2, <2>3, <2>4 DEF Find
<1>3. ASSUME NEW id, Find(s, id) # {}
      PROVE  \E k \in DOMAIN rows : rows[k].id = id
  BY <1>3 DEF Find, Follows
<1> QED BY <1>2, <1>3

(* The five kinds of command, one lemma each: when the draft folds the     *)
(* command and the editor accepts it, the editor's table still follows the *)
(* draft's. A cell edit:                                                   *)
LEMMA SetCellReplays ==
    ASSUME NEW rows, WellFormed(rows), NEW s, Follows(rows, s), NEW c, c.newValue \in Values,
           NEW after, WellFormed(after), after \in FoldSetCell(rows, c), NEW s2 \in ApplySetCell(s, c)
    PROVE  Follows(after, s2) /\ Carries(rows, s, after, s2)
<1>1. PICK k \in AtRow(rows, c.rowId) :
         rows[k].val = c.oldValue /\ after = [rows EXCEPT ![k].val = c.newValue]
  BY DEF FoldSetCell
<1>2. k \in DOMAIN rows /\ rows[k].id = c.rowId /\ Find(s, c.rowId) = {k}
  BY <1>1, FindIs DEF AtRow
<1>3. PICK v \in Assigned[c.oldValue][c.newValue] :
         s.rows[k].val = c.oldValue /\ s2 = [s EXCEPT !.rows[k].val = v]
  <2>1. PICK i \in {j \in Find(s, c.rowId) : s.rows[j].val = c.oldValue},
             v \in Assigned[c.oldValue][c.newValue] : s2 = [s EXCEPT !.rows[i].val = v]
    BY DEF ApplySetCell
  <2>2. i = k /\ s.rows[k].val = c.oldValue
    BY <1>2, <2>1
  <2> QED BY <2>1, <2>2
<1>4. s2 = [rows |-> [s.rows EXCEPT ![k].val = v], names |-> s.names]
  BY <1>3 DEF Follows
<1>0. v \in Stored /\ Made(c.newValue, v)
  <2>1. c.oldValue \in Stored
    <3>1. s.rows[k].val \in Stored
      BY <1>2, FollowsIs
    <3> QED BY <1>3, <3>1
  <2> QED BY <1>3, <2>1, AssignedIs DEF Made
<1>5. s2.names = s.names /\ s2.rows = [s.rows EXCEPT ![k].val = v]
      /\ s2 = [rows |-> s2.rows, names |-> s2.names]
  BY <1>4
<1>6. /\ DOMAIN after = DOMAIN rows
      /\ after[k] = [id |-> rows[k].id, name |-> rows[k].name, val |-> c.newValue]
      /\ \A i \in DOMAIN rows : i # k => after[i] = rows[i]
  BY <1>1, <1>2, WellFormedIs
<1>7. /\ DOMAIN s2.rows = DOMAIN rows
      /\ s2.rows[k] = [name |-> s.rows[k].name, val |-> v]
      /\ \A i \in DOMAIN rows : i # k => s2.rows[i] = s.rows[i]
  <2>1. k \in DOMAIN s.rows /\ DOMAIN s.rows = DOMAIN rows
    BY <1>2, FollowsIs
  <2>2. s.rows[k] = [name |-> s.rows[k].name, val |-> s.rows[k].val]
    BY <1>2, FollowsIs
  <2>3. s2.rows = [i \in DOMAIN s.rows |-> IF i = k THEN [s.rows[k] EXCEPT !.val = v] ELSE s.rows[i]]
    BY <1>5, <2>1, FollowsIs
  <2>4. [s.rows[k] EXCEPT !.val = v] = [name |-> s.rows[k].name, val |-> v]
    BY <2>2
  <2> QED BY <2>1, <2>3, <2>4
<1>8. s2.rows \in Seq(LiveRow) /\ Len(s2.rows) = Len(rows)
  <2>1. \A i \in 1..Len(rows) : s2.rows[i] \in LiveRow
    <3>1. s2.rows[k] \in LiveRow
      BY <1>0, <1>2, <1>7, FollowsIs DEF LiveRow
    <3>2. \A i \in DOMAIN rows : s.rows[i] \in LiveRow
      BY FollowsIs
    <3> QED BY <1>7, <3>1, <3>2, FollowsIs
  <2>2. s2.rows \in [1..Len(rows) -> LiveRow]
    BY <1>5, <1>7, <2>1, FollowsIs
  <2>3. Len(rows) \in Nat
    BY WellFormedIs
  <2> QED BY <2>2, <2>3, FunIsSeq
<1>9. Len(after) = Len(rows)
  BY <1>6, WellFormedIs
<1>10. Follows(after, s2)
  <2>1. \A i \in DOMAIN rows : after[i].id = rows[i].id /\ after[i].name = rows[i].name
    BY <1>6
  <2>2. \A i \in DOMAIN rows : s2.rows[i].name = s.rows[i].name
    BY <1>7
  <2>3. {after[i].id : i \in DOMAIN after} = {rows[i].id : i \in DOMAIN rows}
    BY <1>6, <2>1
  <2>4. DOMAIN s2.names = {after[i].id : i \in DOMAIN after}
    BY <1>5, <2>3 DEF Follows
  <2>5. \A i \in DOMAIN after : s2.rows[i].name = after[i].name /\ s2.names[after[i].id] = after[i].name
    BY <1>5, <1>6, <2>1, <2>2 DEF Follows
  <2> QED BY <1>5, <1>8, <1>9, <2>4, <2>5 DEF Follows
<1>11. Carries(rows, s, after, s2)
  <2>1. \A i \in DOMAIN rows : i # k => SameCell(rows, s, i, after, s2, i)
    BY <1>6, <1>7 DEF SameCell
  <2>2. Made(after[k].val, s2.rows[k].val) /\ rows[k].val = s.rows[k].val
    BY <1>0, <1>1, <1>3, <1>6, <1>7
  <2> QED BY <1>6, <2>1, <2>2 DEF Carries
<1> QED BY <1>10, <1>11

(* a rename, found by identity on one side and by name on the other;       *)
LEMMA RenameRowReplays ==
    ASSUME NEW rows, WellFormed(rows), NEW s, Follows(rows, s), NEW c, c.newName \in Names,
           NEW after, WellFormed(after), after \in FoldRenameRow(rows, c), NEW s2 \in ApplyRenameRow(s, c)
    PROVE  Follows(after, s2) /\ Carries(rows, s, after, s2)
<1>1. PICK k \in AtRow(rows, c.rowId) : after = [rows EXCEPT ![k].name = c.newName]
  BY DEF FoldRenameRow
<1>2. k \in DOMAIN rows /\ rows[k].id = c.rowId /\ Find(s, c.rowId) = {k}
  BY <1>1, FindIs DEF AtRow
<1>3. s2 = [rows  |-> [s.rows EXCEPT ![k].name = c.newName],
            names |-> [s.names EXCEPT ![c.rowId] = c.newName]]
  BY <1>2 DEF ApplyRenameRow
<1>4. /\ s2.names = [s.names EXCEPT ![c.rowId] = c.newName]
      /\ s2.rows = [s.rows EXCEPT ![k].name = c.newName]
      /\ s2 = [rows |-> s2.rows, names |-> s2.names]
  BY <1>3
<1>5. /\ DOMAIN after = DOMAIN rows
      /\ after[k] = [id |-> rows[k].id, name |-> c.newName, val |-> rows[k].val]
      /\ \A i \in DOMAIN rows : i # k => after[i] = rows[i]
  BY <1>1, <1>2, WellFormedIs
<1>6. /\ DOMAIN s2.rows = DOMAIN rows
      /\ s2.rows[k] = [name |-> c.newName, val |-> s.rows[k].val]
      /\ \A i \in DOMAIN rows : i # k => s2.rows[i] = s.rows[i]
  <2>1. k \in DOMAIN s.rows /\ DOMAIN s.rows = DOMAIN rows
    BY <1>2, FollowsIs
  <2>2. s.rows[k] = [name |-> s.rows[k].name, val |-> s.rows[k].val]
    BY <1>2, FollowsIs
  <2>3. s2.rows = [i \in DOMAIN s.rows |-> IF i = k THEN [s.rows[k] EXCEPT !.name = c.newName] ELSE s.rows[i]]
    BY <1>4, <2>1, FollowsIs
  <2>4. [s.rows[k] EXCEPT !.name = c.newName] = [name |-> c.newName, val |-> s.rows[k].val]
    BY <2>2
  <2> QED BY <2>1, <2>3, <2>4
<1>7. s2.rows \in Seq(LiveRow) /\ Len(s2.rows) = Len(rows)
  <2>1. \A i \in 1..Len(rows) : s2.rows[i] \in LiveRow
    <3>1. s2.rows[k] \in LiveRow
      BY <1>2, <1>6, FollowsIs DEF LiveRow
    <3>2. \A i \in DOMAIN rows : s.rows[i] \in LiveRow
      BY FollowsIs
    <3> QED BY <1>6, <3>1, <3>2, FollowsIs
  <2>2. s2.rows \in [1..Len(rows) -> LiveRow]
    BY <1>4, <1>6, <2>1, FollowsIs
  <2>3. Len(rows) \in Nat
    BY WellFormedIs
  <2> QED BY <2>2, <2>3, FunIsSeq
<1>8. Len(after) = Len(rows)
  BY <1>5, WellFormedIs
<1>9. \A i \in DOMAIN rows : after[i].id = rows[i].id
  BY <1>5
<1>10. \A i \in DOMAIN rows : i # k => rows[i].id # rows[k].id
  BY <1>2 DEF WellFormed, DistinctRows
<1>11. DOMAIN s2.names = DOMAIN s.names /\ c.rowId \in DOMAIN s.names
  BY <1>2, <1>4 DEF Follows
<1>12. ASSUME NEW i \in DOMAIN rows
       PROVE  s2.rows[i].name = after[i].name /\ s2.names[after[i].id] = after[i].name
  <2>1. CASE i = k
    BY <2>1, <1>2, <1>4, <1>5, <1>6, <1>11
  <2>2. CASE i # k
    <3>1. s2.rows[i].name = after[i].name /\ after[i].name = rows[i].name /\ after[i].id = rows[i].id
      BY <2>2, <1>5, <1>6 DEF Follows
    <3>2. rows[i].id # c.rowId /\ rows[i].id \in DOMAIN s.names
      BY <2>2, <1>2, <1>10 DEF Follows
    <3>3. s2.names[rows[i].id] = s.names[rows[i].id]
      BY <1>4, <3>2
    <3> QED BY <3>1, <3>3 DEF Follows
  <2> QED BY <2>1, <2>2
<1>13. Follows(after, s2)
  <2>1. {after[i].id : i \in DOMAIN after} = {rows[i].id : i \in DOMAIN rows}
    BY <1>5, <1>9
  <2>2. DOMAIN s2.names = {after[i].id : i \in DOMAIN after}
    BY <1>11, <2>1 DEF Follows
  <2> QED BY <1>4, <1>5, <1>7, <1>8, <1>12, <2>2 DEF Follows
<1>14. Carries(rows, s, after, s2)
  <2>1. \A i \in DOMAIN rows : SameCell(rows, s, i, after, s2, i)
    BY <1>2, <1>5, <1>6 DEF SameCell
  <2> QED BY <1>5, <2>1 DEF Carries
<1> QED BY <1>13, <1>14

(* a removed row;                                                          *)
LEMMA RemoveRowReplays ==
    ASSUME NEW rows, WellFormed(rows), NEW s, Follows(rows, s), NEW c, c.atIndex + 1 \in DOMAIN rows,
           rows[c.atIndex + 1] = c.row,
           NEW after, WellFormed(after), after \in FoldRemoveRow(rows, c), NEW s2 \in ApplyRemoveRow(s, c)
    PROVE  Follows(after, s2) /\ Carries(rows, s, after, s2)
<1> DEFINE k == c.atIndex + 1
           n == Len(rows)
<1>1. n \in Nat /\ DOMAIN rows = 1..n /\ rows \in Seq(Row) /\ s.rows \in Seq(LiveRow) /\ Len(s.rows) = n
  BY WellFormedIs DEF WellFormed, Follows
<1>2. k \in 1..n /\ rows[k] = c.row /\ rows[k].id = c.row.id /\ Find(s, c.row.id) = {k}
  <2>1. k \in DOMAIN rows /\ rows[k] = c.row
    OBVIOUS
  <2> HIDE DEF k
  <2>2. Find(s, rows[k].id) = {k}
    BY <2>1, FindIs
  <2> QED BY <1>1, <2>1, <2>2
<1>3. after = RemoveAt(rows, k)
  BY <1>2 DEF FoldRemoveRow
<1>4. /\ s2 = [rows |-> RemoveAt(s.rows, k), names |-> Restrict(s.names, DOMAIN s.names \ {c.row.id})]
      /\ s.rows[k].val = c.row.val
  BY <1>2 DEF ApplyRemoveRow
<1>5. /\ s2.rows = RemoveAt(s.rows, k)
      /\ s2.names = [id \in DOMAIN s.names \ {c.row.id} |-> s.names[id]]
      /\ s2 = [rows |-> s2.rows, names |-> s2.names]
  BY <1>4 DEF Restrict
<1> HIDE DEF k, n
<1>6. Len(after) = n - 1 /\ \A j \in 1..(n - 1) : after[j] = IF j < k THEN rows[j] ELSE rows[j + 1]
  BY <1>1, <1>2, <1>3, RemoveAtIs DEF Removed, n
<1>7. /\ s2.rows \in Seq(LiveRow) /\ Len(s2.rows) = n - 1
      /\ \A j \in 1..(n - 1) : s2.rows[j] = IF j < k THEN s.rows[j] ELSE s.rows[j + 1]
  <2>1. k \in 1..Len(s.rows)
    BY <1>1, <1>2
  <2>2. Removed(s2.rows, s.rows, k, LiveRow)
    BY <1>1, <1>5, <2>1, RemoveAtIs
  <2> QED BY <1>1, <2>2 DEF Removed
<1>8. DOMAIN after = 1..(n - 1)
  BY <1>6, WellFormedIs
<1> DEFINE h(j) == IF j < k THEN j ELSE j + 1
<1>9. \A j \in 1..(n - 1) : h(j) \in 1..n /\ h(j) # k /\ after[j] = rows[h(j)] /\ s2.rows[j] = s.rows[h(j)]
  BY <1>1, <1>2, <1>6, <1>7
<1>10. \A i \in 1..n : i # k => \E j \in 1..(n - 1) : h(j) = i
  <2>1. SUFFICES ASSUME NEW i \in 1..n, i # k
                 PROVE  \E j \in 1..(n - 1) : h(j) = i
    OBVIOUS
  <2>2. CASE i < k
    BY <1>1, <1>2, <2>1, <2>2
  <2>3. CASE i > k
    <3>1. i - 1 \in 1..(n - 1) /\ h(i - 1) = i
      BY <1>1, <1>2, <2>1, <2>3
    <3> QED BY <3>1
  <2> QED BY <1>1, <1>2, <2>1, <2>2, <2>3
<1> HIDE DEF h
<1>11. \A i \in 1..n : i # k => rows[i].id # c.row.id
  BY <1>1, <1>2 DEF WellFormed, DistinctRows
<1>12. DOMAIN s2.names = {after[j].id : j \in DOMAIN after}
  <2>1. DOMAIN s2.names = {rows[i].id : i \in 1..n} \ {c.row.id}
    BY <1>1, <1>5 DEF Follows
  <2>2. {after[j].id : j \in 1..(n - 1)} = {rows[i].id : i \in 1..n} \ {c.row.id}
    BY <1>2, <1>9, <1>10, <1>11
  <2> QED BY <1>8, <2>1, <2>2
<1>13. ASSUME NEW j \in 1..(n - 1)
       PROVE  s2.rows[j].name = after[j].name /\ s2.names[after[j].id] = after[j].name
  <2>1. h(j) \in DOMAIN rows /\ after[j] = rows[h(j)] /\ s2.rows[j] = s.rows[h(j)]
    BY <1>1, <1>9
  <2>2. s.rows[h(j)].name = rows[h(j)].name /\ s.names[rows[h(j)].id] = rows[h(j)].name
    BY <2>1 DEF Follows
  <2>3. after[j].id \in DOMAIN s2.names
    BY <1>8, <1>12
  <2>4. s2.names[after[j].id] = s.names[after[j].id]
    BY <1>5, <2>3
  <2> QED BY <2>1, <2>2, <2>4
<1>14. Follows(after, s2)
  BY <1>5, <1>6, <1>7, <1>8, <1>12, <1>13 DEF Follows
<1>15. Carries(rows, s, after, s2)
  <2>1. \A j \in 1..(n - 1) : SameCell(rows, s, h(j), after, s2, j)
    BY <1>9 DEF SameCell
  <2>2. rows[k].val = s.rows[k].val
    BY <1>2, <1>4
  <2> QED BY <1>1, <1>8, <1>9, <1>10, <2>1, <2>2 DEF Carries
<1> QED BY <1>14, <1>15

(* An appended element is the one RemoveAt takes away at the end.          *)
LEMMA LastRemoved ==
    ASSUME NEW S, NEW s \in Seq(S), NEW e \in S
    PROVE  /\ Append(s, e) \in Seq(S) /\ Len(Append(s, e)) = Len(s) + 1
           /\ Append(s, e)[Len(s) + 1] = e
           /\ RemoveAt(Append(s, e), Len(s) + 1) = s
<1> DEFINE a == Append(s, e)
           n == Len(s)
           r == RemoveAt(a, n + 1)
<1>1. n \in Nat
  BY LenProperties
<1>2. a \in Seq(S) /\ Len(a) = n + 1 /\ a[n + 1] = e /\ \A j \in 1..n : a[j] = s[j]
  BY <1>1, AppendProperties
<1> HIDE DEF a
<1>3. r \in Seq(S) /\ Len(r) = n /\ \A j \in 1..n : r[j] = a[j]
  <2>1. n + 1 \in 1..Len(a)
    BY <1>1, <1>2
  <2>2. Removed(r, a, n + 1, S)
    BY <1>2, <2>1, RemoveAtIs
  <2> QED BY <1>1, <1>2, <2>2 DEF Removed
<1> HIDE DEF r
<1>4. r = s
  BY <1>1, <1>2, <1>3, SeqEqual
<1> QED BY <1>2, <1>4 DEF a, r

(* a row added at the end and moved up to its index;                       *)
LEMMA AddRowReplays ==
    ASSUME NEW rows, WellFormed(rows), NEW s, Follows(rows, s), NEW c, c.row \in Row, c.atIndex \in Nat,
           NEW after, WellFormed(after), after \in FoldAddRow(rows, c), NEW s2 \in ApplyAddRow(s, c)
    PROVE  Follows(after, s2) /\ Carries(rows, s, after, s2)
<1>0. PICK v \in Assigned[DefaultValue][c.row.val] :
         s2 = [rows  |-> MoveUp(Append(s.rows, [name |-> c.row.name, val |-> v]),
                                Len(s.rows) + 1, c.atIndex + 1),
               names |-> WithName(s.names, c.row)]
  BY DEF ApplyAddRow
<1>18. v \in Stored /\ Made(c.row.val, v)
  <2>1. DefaultValue \in Stored /\ c.row.val \in Values
    BY StoredAssumption DEF Row
  <2> QED BY <1>0, <2>1, AssignedIs DEF Made
<1> DEFINE k == c.atIndex + 1
           n == Len(rows)
           e == [name |-> c.row.name, val |-> v]
           added == Append(s.rows, e)
<1>1. n \in Nat /\ DOMAIN rows = 1..n /\ rows \in Seq(Row) /\ s.rows \in Seq(LiveRow) /\ Len(s.rows) = n
  BY WellFormedIs DEF WellFormed, Follows
<1>2. after = InsertAt(rows, k, c.row) /\ k \in 1..(n + 1)
  BY <1>1 DEF FoldAddRow
<1>3. \A i \in DOMAIN rows : rows[i].id # c.row.id
  BY DEF FoldAddRow
<1>4. e \in LiveRow
  BY <1>18 DEF LiveRow, Row
<1>5. /\ s2.rows = MoveUp(added, Len(s.rows) + 1, k)
      /\ s2.names = [id \in DOMAIN s.names \cup {c.row.id} |->
                        IF id = c.row.id THEN c.row.name ELSE s.names[id]]
      /\ s2 = [rows |-> s2.rows, names |-> s2.names]
  BY <1>0 DEF WithName
<1>6. e.name = c.row.name /\ e.val = v
  OBVIOUS
<1> HIDE DEF k, n, e
<1>7. s2.rows = InsertAt(s.rows, k, e)
  <2>1. Len(added) = n + 1 /\ added[n + 1] = e /\ RemoveAt(added, n + 1) = s.rows
    BY <1>1, <1>4, LastRemoved
  <2> QED BY <1>1, <1>5, <2>1 DEF MoveUp
<1>8. /\ Len(after) = n + 1
      /\ \A j \in 1..(n + 1) : after[j] = IF j < k THEN rows[j] ELSE IF j = k THEN c.row ELSE rows[j - 1]
  <2>1. k \in 1..(Len(rows) + 1) /\ Len(rows) = n
    BY <1>2 DEF n
  <2>2. Inserted(after, rows, k, c.row, Row)
    BY <1>1, <1>2, <2>1, InsertAtIs
  <2> QED BY <2>1, <2>2 DEF Inserted
<1>9. /\ s2.rows \in Seq(LiveRow) /\ Len(s2.rows) = n + 1
      /\ \A j \in 1..(n + 1) : s2.rows[j] = IF j < k THEN s.rows[j] ELSE IF j = k THEN e ELSE s.rows[j - 1]
  <2>1. k \in 1..(Len(s.rows) + 1)
    BY <1>1, <1>2
  <2>2. Inserted(s2.rows, s.rows, k, e, LiveRow)
    BY <1>1, <1>4, <1>7, <2>1, InsertAtIs
  <2> QED BY <1>1, <2>2 DEF Inserted
<1>10. DOMAIN after = 1..(n + 1)
  BY <1>8, WellFormedIs
<1> DEFINE h(i) == IF i < k THEN i ELSE i + 1
<1>11. \A i \in 1..n : h(i) \in 1..(n + 1) /\ h(i) # k /\ after[h(i)] = rows[i] /\ s2.rows[h(i)] = s.rows[i]
  BY <1>1, <1>2, <1>8, <1>9
<1>12. \A j \in 1..(n + 1) : j # k => \E i \in 1..n : h(i) = j
  <2>1. SUFFICES ASSUME NEW j \in 1..(n + 1), j # k
                 PROVE  \E i \in 1..n : h(i) = j
    OBVIOUS
  <2>2. CASE j < k
    <3>1. j \in 1..n /\ h(j) = j
      BY <1>1, <1>2, <2>1, <2>2
    <3> QED BY <3>1
  <2>3. CASE j > k
    <3>1. j - 1 \in 1..n /\ h(j - 1) = j
      BY <1>1, <1>2, <2>1, <2>3
    <3> QED BY <3>1
  <2> QED BY <1>1, <1>2, <2>1, <2>2, <2>3
<1> HIDE DEF h
<1>13. k \in 1..(n + 1) /\ after[k] = c.row /\ s2.rows[k] = e
  BY <1>1, <1>2, <1>8, <1>9
<1>14. DOMAIN s2.names = {after[j].id : j \in DOMAIN after}
  <2>1. DOMAIN s2.names = {rows[i].id : i \in 1..n} \cup {c.row.id}
    BY <1>1, <1>5 DEF Follows
  <2>2. {after[j].id : j \in 1..(n + 1)} = {rows[i].id : i \in 1..n} \cup {c.row.id}
    BY <1>11, <1>12, <1>13
  <2> QED BY <1>10, <2>1, <2>2
<1>15. ASSUME NEW j \in 1..(n + 1)
       PROVE  s2.rows[j].name = after[j].name /\ s2.names[after[j].id] = after[j].name
  <2>1. CASE j = k
    <3>1. c.row.id \in DOMAIN s2.names
      BY <1>5
    <3>2. s2.names[c.row.id] = c.row.name
      BY <1>5, <3>1
    <3> QED BY <1>6, <1>13, <2>1, <3>2
  <2>2. CASE j # k
    <3>1. PICK i \in 1..n : h(i) = j
      BY <1>12, <2>2
    <3>2. i \in DOMAIN rows /\ after[j] = rows[i] /\ s2.rows[j] = s.rows[i]
      BY <1>1, <1>11, <3>1
    <3>3. s.rows[i].name = rows[i].name /\ s.names[rows[i].id] = rows[i].name
      BY <3>2 DEF Follows
    <3>4. rows[i].id # c.row.id /\ after[j].id \in DOMAIN s2.names
      BY <1>3, <1>10, <1>14, <3>2
    <3>5. s2.names[rows[i].id] = s.names[rows[i].id]
      BY <1>5, <3>2, <3>4
    <3> QED BY <3>2, <3>3, <3>5
  <2> QED BY <2>1, <2>2
<1>16. Follows(after, s2)
  BY <1>5, <1>8, <1>9, <1>10, <1>14, <1>15 DEF Follows
<1>17. Carries(rows, s, after, s2)
  <2>1. \A i \in 1..n : SameCell(rows, s, i, after, s2, h(i))
    BY <1>11 DEF SameCell
  <2>2. Made(after[k].val, s2.rows[k].val)
    BY <1>6, <1>13, <1>18
  <2>3. ASSUME NEW j \in DOMAIN after
        PROVE  \/ Made(after[j].val, s2.rows[j].val)
               \/ \E i \in DOMAIN rows : SameCell(rows, s, i, after, s2, j)
    <3>1. CASE j = k
      BY <2>2, <3>1
    <3>2. CASE j # k
      BY <1>1, <1>10, <1>12, <2>1, <3>2
    <3> QED BY <3>1, <3>2
  <2>4. \A i \in DOMAIN rows : \E j \in DOMAIN after : SameCell(rows, s, i, after, s2, j)
    BY <1>1, <1>10, <1>11, <2>1
  <2> QED BY <2>3, <2>4 DEF Carries
<1> QED BY <1>16, <1>17

(* What it means that u is s with the row at from moved up to to.          *)
Moved(u, s, from, to, S) ==
    /\ u \in Seq(S) /\ Len(u) = Len(s)
    /\ \A j \in 1..Len(s) : u[j] = IF j < to THEN s[j]
                                  ELSE IF j = to THEN s[from]
                                  ELSE IF j <= from THEN s[j - 1]
                                  ELSE s[j]

(* What MoveUp returns.                                                    *)
LEMMA MovedUp ==
    ASSUME NEW S, NEW s \in Seq(S), NEW to \in 1..Len(s), NEW from \in 1..Len(s), to < from
    PROVE  Moved(MoveUp(s, from, to), s, from, to, S)
<1> DEFINE n == Len(s)
           r == RemoveAt(s, from)
           u == InsertAt(r, to, s[from])
<1>1. n \in Nat /\ s[from] \in S
  BY LenProperties, ElementOfSeq
<1>2. r \in Seq(S) /\ Len(r) = n - 1 /\ \A j \in 1..(n - 1) : r[j] = IF j < from THEN s[j] ELSE s[j + 1]
  BY RemoveAtIs DEF Removed
<1> HIDE DEF r, n
<1>3. to \in 1..(Len(r) + 1) /\ to \in 1..n /\ from \in 1..n
  BY <1>1, <1>2 DEF n
<1>4. Inserted(u, r, to, s[from], S)
  BY <1>1, <1>2, <1>3, InsertAtIs
<1> HIDE DEF u
<1>5. u \in Seq(S) /\ Len(u) = n
  BY <1>1, <1>2, <1>4 DEF Inserted
<1>6. \A j \in 1..n : u[j] = IF j < to THEN r[j] ELSE IF j = to THEN s[from] ELSE r[j - 1]
  BY <1>1, <1>2, <1>4 DEF Inserted
<1>7. ASSUME NEW j \in 1..n
      PROVE  u[j] = IF j < to THEN s[j] ELSE IF j = to THEN s[from]
                    ELSE IF j <= from THEN s[j - 1] ELSE s[j]
  <2>1. CASE j < to
    <3>1. j \in 1..(n - 1) /\ j < from
      BY <1>1, <1>3, <2>1
    <3> QED BY <1>2, <1>6, <2>1, <3>1
  <2>2. CASE j = to
    BY <1>3, <1>6, <2>2
  <2>3. CASE j > to /\ j <= from
    <3>1. j - 1 \in 1..(n - 1) /\ j - 1 < from /\ ~(j < to) /\ j # to
      BY <1>1, <1>3, <2>3
    <3> QED BY <1>2, <1>6, <2>3, <3>1
  <2>4. CASE j > from
    <3>1. j - 1 \in 1..(n - 1) /\ ~(j - 1 < from) /\ ~(j < to) /\ j # to /\ (j - 1) + 1 = j /\ ~(j <= from)
      BY <1>1, <1>3, <2>4
    <3> QED BY <1>2, <1>6, <3>1
  <2> QED BY <1>1, <1>3, <2>1, <2>2, <2>3, <2>4
<1> QED BY <1>5, <1>7 DEF Moved, MoveUp, u, r, n

(* The first k rows are those of the target t, which has all its rows in   *)
(* the table.                                                              *)
Arranged(t, rows, k, n) ==
    /\ rows \in Seq(LiveRow) /\ Len(rows) = n
    /\ \A i \in 1..k : rows[i] = t[i]
    /\ \A j \in 1..n : \E i \in 1..n : rows[i] = t[j]
    /\ \A i, j \in 1..n : i # j => ~SameFName(rows[i].name, rows[j].name)

(* One step of the editor's reordering: the row of that name moves up to   *)
(* k.                                                                      *)
PlaceOne(rows, k, name) ==
    LET from == CHOOSE i \in DOMAIN rows : SameFName(rows[i].name, name)
    IN  IF from > k THEN MoveUp(rows, from, k) ELSE rows

(* Each step puts one more row of the target into place: the rows above    *)
(* are in place already, so the row it looks for is at k or below.         *)
LEMMA PlaceOneArranges ==
    ASSUME NEW n \in Nat, NEW t, NEW rows, NEW k \in 1..n, Arranged(t, rows, k - 1, n),
           \A i, j \in 1..n : i # j => ~SameFName(t[i].name, t[j].name)
    PROVE  Arranged(t, PlaceOne(rows, k, t[k].name), k, n)
<1>1. rows \in Seq(LiveRow) /\ Len(rows) = n /\ DOMAIN rows = 1..n
  BY LenProperties DEF Arranged
<1>2. PICK f \in 1..n : rows[f] = t[k]
  BY DEF Arranged
<1>3. \A i \in 1..n : SameFName(rows[i].name, t[k].name) <=> i = f
  <2>1. SameFName(rows[f].name, t[k].name)
    BY <1>2 DEF SameFName
  <2>2. \A i \in 1..n : i # f => ~SameFName(rows[i].name, rows[f].name)
    BY DEF Arranged
  <2> QED BY <1>2, <2>1, <2>2
<1>4. (CHOOSE i \in DOMAIN rows : SameFName(rows[i].name, t[k].name)) = f
  BY <1>1, <1>3
<1>5. ~(f < k)
  <2>1. SUFFICES ASSUME f < k
                 PROVE  FALSE
    OBVIOUS
  <2>2. f \in 1..(k - 1) /\ f # k
    BY <2>1
  <2>3. t[f] = t[k]
    BY <1>2, <2>2 DEF Arranged
  <2>4. SameFName(t[f].name, t[k].name)
    BY <2>3 DEF SameFName
  <2> QED BY <2>2, <2>4
<1>6. CASE f = k
  <2>1. PlaceOne(rows, k, t[k].name) = rows
    <3>1. ~(f > k)
      BY <1>6
    <3> QED BY <1>4, <3>1 DEF PlaceOne
  <2>2. \A i \in 1..k : rows[i] = t[i]
    <3> SUFFICES ASSUME NEW i \in 1..k PROVE rows[i] = t[i]
      OBVIOUS
    <3>1. CASE i = k
      BY <1>2, <1>6, <3>1
    <3>2. CASE i # k
      <4>1. i \in 1..(k - 1)
        BY <3>2
      <4> QED BY <4>1 DEF Arranged
    <3> QED BY <3>1, <3>2
  <2> QED BY <2>1, <2>2 DEF Arranged
<1>7. CASE f > k
  <2> DEFINE u == MoveUp(rows, f, k)
             h(i) == IF i < k THEN i ELSE IF i = k THEN f ELSE IF i <= f THEN i - 1 ELSE i
             g(i) == IF i < k THEN i ELSE IF i = f THEN k ELSE IF i < f THEN i + 1 ELSE i
  <2>1. PlaceOne(rows, k, t[k].name) = u
    BY <1>4, <1>7 DEF PlaceOne
  <2>2. /\ u \in Seq(LiveRow) /\ Len(u) = n
        /\ \A j \in 1..n : u[j] = IF j < k THEN rows[j]
                                  ELSE IF j = k THEN rows[f]
                                  ELSE IF j <= f THEN rows[j - 1]
                                  ELSE rows[j]
    <3>1. k \in 1..Len(rows) /\ f \in 1..Len(rows) /\ k < f
      BY <1>1, <1>7
    <3>2. Moved(MoveUp(rows, f, k), rows, f, k, LiveRow)
      BY <1>1, <3>1, MovedUp
    <3> QED BY <1>1, <3>2 DEF Moved
  <2> HIDE DEF u
  <2>3. \A i \in 1..n : h(i) \in 1..n /\ u[i] = rows[h(i)]
    BY <1>7, <2>2
  <2>4. \A i, j \in 1..n : i # j => h(i) # h(j)
    BY <1>7
  <2>5. \A i \in 1..n : g(i) \in 1..n /\ h(g(i)) = i
    BY <1>7
  <2>6. \A i \in 1..k : u[i] = t[i]
    <3> SUFFICES ASSUME NEW i \in 1..k PROVE u[i] = t[i]
      OBVIOUS
    <3>1. CASE i = k
      BY <1>2, <2>2, <3>1
    <3>2. CASE i # k
      <4>1. i \in 1..(k - 1) /\ i < k /\ i \in 1..n
        BY <3>2
      <4> QED BY <2>2, <4>1 DEF Arranged
    <3> QED BY <3>1, <3>2
  <2> HIDE DEF h, g
  <2>7. \A i \in 1..n : u[g(i)] = rows[i]
    BY <2>3, <2>5
  <2>8. \A j \in 1..n : \E i \in 1..n : u[i] = t[j]
    <3> SUFFICES ASSUME NEW j \in 1..n PROVE \E i \in 1..n : u[i] = t[j]
      OBVIOUS
    <3>1. PICK i \in 1..n : rows[i] = t[j]
      BY DEF Arranged
    <3> QED BY <2>5, <2>7, <3>1
  <2>9. \A i, j \in 1..n : i # j => ~SameFName(u[i].name, u[j].name)
    <3> SUFFICES ASSUME NEW i \in 1..n, NEW j \in 1..n, i # j
                 PROVE  ~SameFName(u[i].name, u[j].name)
      OBVIOUS
    <3>1. h(i) \in 1..n /\ h(j) \in 1..n /\ h(i) # h(j) /\ u[i] = rows[h(i)] /\ u[j] = rows[h(j)]
      BY <2>3, <2>4
    <3>2. ~SameFName(rows[h(i)].name, rows[h(j)].name)
      BY <3>1 DEF Arranged
    <3> QED BY <3>1, <3>2
  <2> QED BY <2>1, <2>2, <2>6, <2>8, <2>9 DEF Arranged
<1> QED BY <1>5, <1>6, <1>7

(* f is the function of intermediate tables of a reordering.               *)
IsPlace(rows, names, order, n, f) ==
    f = [k \in 0..n |-> IF k = 0 THEN rows ELSE PlaceOne(f[k - 1], k, names[order[k]])]

(* By induction over the index, the intermediate tables exist.             *)
LEMMA PlaceExists ==
    ASSUME NEW rows, NEW names, NEW order
    PROVE  \A n \in Nat : \E f : IsPlace(rows, names, order, n, f)
<1> DEFINE S == {n \in Nat : \E f : IsPlace(rows, names, order, n, f)}
<1>1. 0 \in S
  <2> DEFINE f == [k \in 0..0 |-> rows]
  <2>1. IsPlace(rows, names, order, 0, f)
    BY DEF IsPlace
  <2> QED BY <2>1
<1>2. ASSUME NEW n \in Nat, n \in S PROVE n + 1 \in S
  <2>1. PICK f : IsPlace(rows, names, order, n, f)
    BY <1>2
  <2> DEFINE last == PlaceOne(f[n], n + 1, names[order[n + 1]])
             g == [k \in 0..(n + 1) |-> IF k = n + 1 THEN last ELSE f[k]]
  <2>2. ASSUME NEW k \in 0..(n + 1)
        PROVE  g[k] = IF k = 0 THEN rows ELSE PlaceOne(g[k - 1], k, names[order[k]])
    <3>1. CASE k = 0
      BY <3>1, <2>1 DEF IsPlace
    <3>2. CASE k \in 1..n
      <4>1. k - 1 \in 0..n /\ k \in 0..n /\ k # 0 /\ k # n + 1 /\ k - 1 # n + 1 /\ k - 1 \in 0..(n + 1)
        BY <3>2
      <4>2. g[k] = f[k] /\ g[k - 1] = f[k - 1]
        BY <4>1
      <4>3. f[k] = PlaceOne(f[k - 1], k, names[order[k]])
        BY <4>1, <2>1 DEF IsPlace
      <4> QED BY <4>1, <4>2, <4>3
    <3>3. CASE k = n + 1
      <4>1. k - 1 = n /\ g[k - 1] = f[n] /\ k # 0
        BY <3>3
      <4> QED BY <3>3, <4>1
    <3> QED BY <3>1, <3>2, <3>3
  <2>3. IsPlace(rows, names, order, n + 1, g)
    BY <2>2 DEF IsPlace
  <2> HIDE DEF g
  <2> QED BY <2>3
<1>3. Nat \subseteq S
  <2> HIDE DEF S
  <2> QED BY <1>1, <1>2, NatSetInduction
<1> QED BY <1>3

(* Moving the rows into place one after the other gives the target.        *)
LEMMA PlacedRows ==
    ASSUME NEW s, NEW c, NEW n \in Nat, Len(s.rows) = n, s.rows \in Seq(LiveRow), NEW t \in Seq(LiveRow),
           Len(t) = n, Arranged(t, s.rows, 0, n),
           \A k \in 1..n : s.names[c.newOrder[k]] = t[k].name,
           \A i, j \in 1..n : i # j => ~SameFName(t[i].name, t[j].name),
           NEW s2 \in ApplyReorderRows(s, c)
    PROVE  s2 = [s EXCEPT !.rows = t]
<1> DEFINE f == CHOOSE f : IsPlace(s.rows, s.names, c.newOrder, n, f)
<1>1. s2 = [s EXCEPT !.rows = f[n]]
  BY DEF ApplyReorderRows, PlaceOne, IsPlace
<1>2. IsPlace(s.rows, s.names, c.newOrder, n, f)
  <2>1. PICK g : IsPlace(s.rows, s.names, c.newOrder, n, g)
    BY PlaceExists
  <2> QED BY <2>1
<1> HIDE DEF f
<1> DEFINE S == {k \in Nat : k <= n => Arranged(t, f[k], k, n)}
<1>3. 0 \in S
  <2>1. f[0] = s.rows
    BY <1>2 DEF IsPlace
  <2> QED BY <2>1
<1>4. ASSUME NEW k \in Nat, k \in S PROVE k + 1 \in S
  <2> SUFFICES ASSUME k + 1 <= n PROVE Arranged(t, f[k + 1], k + 1, n)
    OBVIOUS
  <2>1. k + 1 \in 1..n /\ (k + 1) - 1 = k /\ k + 1 # 0 /\ k + 1 \in 0..n
    OBVIOUS
  <2>2. f[k + 1] = PlaceOne(f[k], k + 1, t[k + 1].name)
    BY <1>2, <2>1 DEF IsPlace
  <2>3. Arranged(t, f[k], (k + 1) - 1, n)
    BY <1>4, <2>1
  <2> QED BY <2>1, <2>2, <2>3, PlaceOneArranges
<1>5. n \in S
  <2> HIDE DEF S
  <2> QED BY <1>3, <1>4, NatSetInduction
<1>6. Arranged(t, f[n], n, n)
  BY <1>5
<1>7. f[n] \in Seq(LiveRow) /\ Len(f[n]) = n /\ \A i \in 1..n : f[n][i] = t[i]
  BY <1>6 DEF Arranged
<1>8. f[n] = t
  BY <1>7, SeqEqual
<1> QED BY <1>1, <1>8

(* a reordering, by indices on one side and by moves on the other.         *)
LEMMA ReorderRowsReplays ==
    ASSUME NEW rows, WellFormed(rows), NEW s, Follows(rows, s),
           NEW c \in [kind : {"reorder_rows"}, oldOrder : Seq(RowIdentity), newOrder : Seq(RowIdentity)],
           NEW after, WellFormed(after), after \in FoldCommand(rows, c), NEW s2 \in ApplyReorderRows(s, c)
    PROVE  Follows(after, s2) /\ Carries(rows, s, after, s2)
<1>0. PICK src : Reordered(rows, c.newOrder, after, src)
  BY ReorderedIs
<1> DEFINE n == Len(rows)
<1>1. n \in Nat /\ DOMAIN rows = 1..n
  BY WellFormedIs
<1>2. /\ src \in [1..n -> 1..n] /\ after = [k \in 1..n |-> rows[src[k]]]
      /\ \A k \in 1..n : after[k].id = c.newOrder[k]
      /\ \A j \in 1..n : \E i \in 1..n : src[i] = j
      /\ \A i, j \in 1..n : i # j => src[i] # src[j]
  BY <1>1, <1>0 DEF Reordered
<1> HIDE DEF n
<1>3. \A k \in 1..n : src[k] \in 1..n /\ after[k] = rows[src[k]]
  BY <1>2
<1>4. s.rows \in Seq(LiveRow) /\ Len(s.rows) = n /\ \A k \in 1..n : s.rows[k] \in LiveRow
  BY <1>1, FollowsIs DEF Follows, n
<1> DEFINE t == [k \in 1..n |-> s.rows[src[k]]]
<1>5. t \in Seq(LiveRow) /\ Len(t) = n /\ \A k \in 1..n : t[k] = s.rows[src[k]]
  <2>1. t \in [1..n -> LiveRow] /\ \A k \in 1..n : t[k] = s.rows[src[k]]
    BY <1>3, <1>4
  <2> HIDE DEF t
  <2>2. t \in Seq(LiveRow) /\ Len(t) = n
    BY <1>1, <2>1, FunIsSeq
  <2> QED BY <2>1, <2>2
<1> HIDE DEF t
<1>6. \A k \in 1..n : t[k].name = after[k].name /\ s.names[after[k].id] = after[k].name
  BY <1>1, <1>3, <1>5 DEF Follows
<1>7. DOMAIN after = 1..n /\ Len(after) = n
  <2>1. DOMAIN after = 1..n
    BY <1>2
  <2>2. Len(after) \in Nat /\ DOMAIN after = 1..Len(after)
    BY WellFormedIs
  <2> QED BY <1>1, <2>1, <2>2
<1>8. \A i, j \in 1..n : i # j => ~SameFName(t[i].name, t[j].name)
  <2>1. \A i, j \in 1..n : i # j => ~SameFName(after[i].name, after[j].name)
    BY <1>7 DEF WellFormed, DistinctRows
  <2> QED BY <1>6, <2>1
<1>9. Arranged(t, s.rows, 0, n)
  <2>1. \A i, j \in 1..n : i # j => ~SameFName(s.rows[i].name, s.rows[j].name)
    <3>1. \A i, j \in 1..n : i # j => ~SameFName(rows[i].name, rows[j].name)
      BY <1>1 DEF WellFormed, DistinctRows
    <3>2. \A i \in 1..n : s.rows[i].name = rows[i].name
      BY <1>1 DEF Follows
    <3> QED BY <3>1, <3>2
  <2>2. \A j \in 1..n : \E i \in 1..n : s.rows[i] = t[j]
    BY <1>3, <1>5
  <2>3. \A i \in 1..0 : s.rows[i] = t[i]
    OBVIOUS
  <2> QED BY <1>4, <2>1, <2>2, <2>3 DEF Arranged
<1>10. s2 = [s EXCEPT !.rows = t]
  <2>1. \A k \in 1..n : s.names[c.newOrder[k]] = t[k].name
    BY <1>2, <1>6
  <2> QED BY <1>1, <1>4, <1>5, <1>8, <1>9, <2>1, PlacedRows
<1>11. s2.rows = t /\ s2.names = s.names /\ s2 = [rows |-> s2.rows, names |-> s2.names]
  <2>1. s = [rows |-> s.rows, names |-> s.names]
    BY DEF Follows
  <2>2. s2 = [rows |-> t, names |-> s.names]
    BY <1>10, <2>1
  <2> QED BY <2>2
<1>12. Follows(after, s2)
  <2>1. {after[k].id : k \in 1..n} = {rows[k].id : k \in 1..n}
    <3>1. \A k \in 1..n : after[k].id = rows[src[k]].id /\ src[k] \in 1..n
      BY <1>3
    <3>2. ASSUME NEW j \in 1..n PROVE rows[j].id \in {after[k].id : k \in 1..n}
      <4>1. PICK i \in 1..n : src[i] = j
        BY <1>2
      <4> QED BY <3>1, <4>1
    <3>3. ASSUME NEW k \in 1..n PROVE after[k].id \in {rows[j].id : j \in 1..n}
      BY <3>1
    <3> QED BY <3>2, <3>3
  <2>2. DOMAIN s2.names = {after[k].id : k \in DOMAIN after}
    BY <1>1, <1>7, <1>11, <2>1 DEF Follows
  <2> QED BY <1>5, <1>6, <1>7, <1>11, <2>2 DEF Follows
<1>13. Carries(rows, s, after, s2)
  <2>1. \A k \in 1..n : SameCell(rows, s, src[k], after, s2, k)
    BY <1>3, <1>5, <1>11 DEF SameCell
  <2>2. \A k \in 1..n : \E i \in 1..n : src[i] = k
    BY <1>2
  <2>3. \A k \in 1..n : \E i \in 1..n : SameCell(rows, s, k, after, s2, i)
    BY <2>1, <2>2
  <2>4. \A k \in 1..n : \E i \in 1..n : SameCell(rows, s, i, after, s2, k)
    BY <1>3, <2>1
  <2> QED BY <1>1, <1>7, <2>3, <2>4 DEF Carries
<1> QED BY <1>12, <1>13

(* A command of any kind.                                                  *)
LEMMA CommandReplays ==
    ASSUME NEW rows, WellFormed(rows), NEW s, Follows(rows, s), NEW c, Fits(rows, c),
           NEW after \in FoldCommand(rows, c), NEW s2 \in ApplyCommand(s, c)
    PROVE  WellFormed(after) /\ Follows(after, s2) /\ Carries(rows, s, after, s2)
<1>1. WellFormed(after)
  BY CommandKeeps
<1>2. CASE c.kind = "set_cell" /\ c.newValue \in Values
  BY <1>1, <1>2, FoldCommandIs, ApplyCommandIs, SetCellReplays
<1>3. CASE c \in [kind : {"add_row"}, atIndex : Nat, row : Row]
  <2>1. c.kind = "add_row" /\ c.row \in Row /\ c.atIndex \in Nat
    BY <1>3
  <2> QED BY <1>1, <2>1, FoldCommandIs, ApplyCommandIs, AddRowReplays
<1>4. CASE /\ c \in [kind : {"remove_row"}, atIndex : Nat, row : Row]
           /\ c.atIndex + 1 \in DOMAIN rows /\ rows[c.atIndex + 1] = c.row
  <2>1. c.kind = "remove_row"
    BY <1>4
  <2> QED BY <1>1, <1>4, <2>1, FoldCommandIs, ApplyCommandIs, RemoveRowReplays
<1>5. CASE c \in [kind : {"rename_row"}, rowId : RowIdentity, oldName : Names, newName : Names]
  <2>1. c.kind = "rename_row" /\ c.newName \in Names
    BY <1>5
  <2> QED BY <1>1, <2>1, FoldCommandIs, ApplyCommandIs, RenameRowReplays
<1>6. CASE c \in [kind : {"reorder_rows"}, oldOrder : Seq(RowIdentity), newOrder : Seq(RowIdentity)]
  <2>1. c.kind = "reorder_rows"
    BY <1>6
  <2> QED BY <1>1, <1>6, <2>1, ApplyCommandIs, ReorderRowsReplays
<1> QED BY <1>2, <1>3, <1>4, <1>5, <1>6 DEF Fits
-----------------------------------------------------------------------------
(* The invariant of a draft beside its live table                          *)

(* The rows of a snapshot as the editor has them.                          *)
Stripped(rows) == [k \in DOMAIN rows |-> [name |-> rows[k].name, val |-> rows[k].val]]

(* The inductive invariant: that of the draft, and a live table that is    *)
(* the snapshot as long as nobody has edited it.                           *)
ReplayInv ==
    /\ DraftInv
    /\ live \in Seq(LiveRow)
    /\ drift \in Nat
    /\ drift = 0 => live = Stripped(base[Table])

(* No step of the draft changes a base.                                    *)
LEMMA BaseStays ==
    ASSUME DraftNext
    PROVE  base' = base
<1>1. ASSUME NEW t, NEW bodies, AppendCommandGroup(t, bodies) PROVE base' = base
  BY <1>1 DEF AppendCommandGroup
<1>2. ASSUME NEW t \in Tables, Edit(t) PROVE base' = base
  BY <1>1, <1>2 DEF Edit, SetCells, AddRow, DuplicateRow, RemoveRow, RenameRow, ReorderRows
<1> QED BY <1>2 DEF DraftNext, Undo, Redo

(* A snapshot without its identities is a live table.                      *)
LEMMA StrippedIs ==
    ASSUME NEW rows, WellFormed(rows), \A k \in DOMAIN rows : rows[k].val \in Stored
    PROVE  Stripped(rows) \in Seq(LiveRow) /\ Len(Stripped(rows)) = Len(rows)
<1>1. Stripped(rows) \in [1..Len(rows) -> LiveRow] /\ Len(rows) \in Nat
  BY WellFormedIs DEF Stripped, LiveRow
<1> QED BY <1>1, FunIsSeq

(* The invariant holds in the beginning and is kept by every step.         *)
LEMMA ReplayInitInv ==
    ASSUME ReplayInit
    PROVE  ReplayInv
<1>1. DraftInv
  BY DraftInitInv DEF ReplayInit
<1>2. WellFormed(base[Table])
  BY <1>1, BaseIsWellFormed, TableAssumption DEF DraftInv
<1>3. live = Stripped(base[Table]) /\ drift = 0
  BY DEF ReplayInit, Stripped
<1>4. \A k \in DOMAIN base[Table] : base[Table][k].val \in Stored
  <2>1. PICK b \in BaseTables : base[Table] = SnapshotRows(b)
    BY <1>1, TableAssumption DEF DraftInv
  <2> QED BY <2>1, StoredAssumption DEF SnapshotRows
<1> QED BY <1>1, <1>2, <1>3, <1>4, StrippedIs DEF ReplayInv

(* Drafting leaves the live table alone, and an edit of it leaves the draft*)
(* alone.                                                                  *)
LEMMA ReplayNextInv ==
    ASSUME ReplayInv, [ReplayNext]_replayVars
    PROVE  ReplayInv'
<1>1. CASE DraftNext /\ UNCHANGED <<live, drift>>
  <2>1. DraftInv'
    BY <1>1, DraftNextInv DEF ReplayInv
  <2>2. base' = base
    BY <1>1, BaseStays
  <2> QED BY <1>1, <2>1, <2>2 DEF ReplayInv, Stripped
<1>2. CASE ExternalEdit
  <2>1. DraftInv'
    <3>1. UNCHANGED draftVars
      BY <1>2 DEF ExternalEdit
    <3> QED BY <3>1, DraftNextInv DEF ReplayInv
  <2>2. PICK k \in DOMAIN live, v \in Stored : live' = [live EXCEPT ![k].val = v]
    BY <1>2 DEF ExternalEdit
  <2>3. /\ Len(live) \in Nat /\ DOMAIN live = 1..Len(live) /\ live \in [1..Len(live) -> LiveRow]
    BY LenProperties DEF ReplayInv
  <2>4. [live[k] EXCEPT !.val = v] \in LiveRow
    BY <2>2, <2>3 DEF LiveRow
  <2>5. live' \in [1..Len(live) -> LiveRow]
    BY <2>2, <2>3, <2>4
  <2>6. live' \in Seq(LiveRow)
    BY <2>3, <2>5, FunIsSeq
  <2>7. drift' \in Nat /\ drift' # 0
    BY <1>2 DEF ReplayInv, ExternalEdit
  <2> QED BY <2>1, <2>6, <2>7 DEF ReplayInv
<1>3. CASE UNCHANGED replayVars
  <2>1. UNCHANGED draftVars /\ live' = live /\ drift' = drift /\ base' = base
    BY <1>3 DEF replayVars, draftVars
  <2>2. DraftInv'
    BY <2>1, DraftNextInv DEF ReplayInv
  <2> QED BY <2>1, <2>2 DEF ReplayInv, Stripped
<1> QED BY <1>1, <1>2, <1>3 DEF ReplayNext

(* The inductive invariant of a draft beside its live table.               *)
THEOREM ReplayInvariant == ReplaySpec => []ReplayInv
<1>1. ReplayInit => ReplayInv
  BY ReplayInitInv
<1>2. ReplayInv /\ [ReplayNext]_replayVars => ReplayInv'
  BY ReplayNextInv
<1> QED BY <1>1, <1>2, PTL DEF ReplaySpec

-----------------------------------------------------------------------------
(* A replay that passed the preflight                                      *)

(* Every cell is shown for the drafted one; it is that one, or made of it. *)
SameText(rows, s) == \A k \in DOMAIN rows : ShownFor(rows[k].val, s.rows[k].val)
SameVals(rows, s) ==
    \A k \in DOMAIN rows : s.rows[k].val = rows[k].val \/ Made(rows[k].val, s.rows[k].val)

(* A cell that somebody changed since the snapshot is in its row still,    *)
(* and the draft still has the snapshot's value there.                     *)
Kept(rows, s) ==
    \A k \in DOMAIN live :
       live[k].val # base[Table][k].val =>
          \E i \in DOMAIN rows :
             /\ rows[i].id = base[Table][k].id
             /\ rows[i].val = base[Table][k].val
             /\ s.rows[i].val = live[k].val

(* What holds between draft and editor along the replay.                   *)
Related(rows, s) ==
    /\ Follows(rows, s)
    /\ SameText(rows, s)
    /\ Kept(rows, s)
    /\ drift = 0 => SameVals(rows, s)

(* A table that passes the fingerprint preflight starts related.           *)
LEMMA StartRelates ==
    ASSUME ReplayInv, PassesPreflight
    PROVE  Related(base[Table], StartReplay(live))
<1> DEFINE rows == base[Table]
           n == Len(rows)
           s == StartReplay(live)
<1>1. WellFormed(rows)
  BY BaseIsWellFormed, TableAssumption DEF ReplayInv, DraftInv
<1>2. /\ n \in Nat /\ DOMAIN rows = 1..n
      /\ Len(live) \in Nat /\ DOMAIN live = 1..Len(live) /\ live \in Seq(LiveRow)
  BY <1>1, WellFormedIs, LenProperties DEF ReplayInv
<1>3. \A k \in DOMAIN rows : rows[k].id = SnapshotRowId(rows[k].name)
  <2>1. PICK b \in BaseTables : rows = SnapshotRows(b)
    BY TableAssumption DEF ReplayInv, DraftInv
  <2> QED BY <2>1 DEF SnapshotRows
<1>4. Fingerprint(live) = Fingerprint(rows)
  BY DEF PassesPreflight
<1> HIDE DEF rows, n
<1>5. DOMAIN live = DOMAIN rows
  BY <1>4 DEF Fingerprint
<1>6. \A k \in DOMAIN rows : live[k].name = rows[k].name /\ live[k].val.text = rows[k].val.text
  <2> TAKE k \in DOMAIN rows
  <2>1. Fingerprint(live)[k] = [name |-> live[k].name, text |-> live[k].val.text]
    BY <1>5 DEF Fingerprint
  <2>2. Fingerprint(rows)[k] = [name |-> rows[k].name, text |-> rows[k].val.text]
    BY DEF Fingerprint
  <2>3. [name |-> live[k].name, text |-> live[k].val.text] = [name |-> rows[k].name, text |-> rows[k].val.text]
    BY <1>4, <2>1, <2>2
  <2> QED BY <2>3
<1>7. Len(live) = n
  <2>1. ~(Len(live) < n)
    <3>1. n \in DOMAIN rows => n \in 1..Len(live)
      BY <1>2, <1>5
    <3> QED BY <1>2, <3>1
  <2>2. ~(n < Len(live))
    <3>1. Len(live) \in DOMAIN live => Len(live) \in 1..n
      BY <1>2, <1>5
    <3> QED BY <1>2, <3>1
  <2>3. Len(live) \in Nat /\ n \in Nat
    BY <1>2
  <2> QED BY <2>1, <2>2, <2>3
<1>8. /\ s.rows = live
      /\ s.names = [id \in {SnapshotRowId(live[k].name) : k \in DOMAIN live} |-> id[2]]
      /\ s = [rows |-> s.rows, names |-> s.names]
  BY DEF StartReplay
<1> HIDE DEF s
<1>9. DOMAIN s.names = {rows[k].id : k \in DOMAIN rows}
  BY <1>3, <1>5, <1>6, <1>8
<1>10. \A k \in DOMAIN rows : s.names[rows[k].id] = rows[k].name
  <2> TAKE k \in DOMAIN rows
  <2>1. rows[k].id \in {SnapshotRowId(live[j].name) : j \in DOMAIN live}
    BY <1>8, <1>9
  <2>2. s.names[rows[k].id] = rows[k].id[2]
    BY <1>8, <2>1
  <2> QED BY <1>3, <2>2 DEF SnapshotRowId
<1>11. Follows(rows, s)
  BY <1>2, <1>6, <1>7, <1>8, <1>9, <1>10 DEF Follows, n
<1>12. SameText(rows, s)
  BY <1>6, <1>8 DEF SameText, ShownFor
<1>13. Kept(rows, s)
  BY <1>5, <1>8 DEF Kept, rows
<1>14. drift = 0 => SameVals(rows, s)
  <2> SUFFICES ASSUME drift = 0, NEW k \in DOMAIN rows PROVE s.rows[k].val = rows[k].val
    BY DEF SameVals
  <2>1. live = Stripped(rows)
    BY DEF ReplayInv, rows
  <2> QED BY <1>8, <2>1 DEF Stripped
<1> QED BY <1>11, <1>12, <1>13, <1>14 DEF Related, rows, s

(* Each command keeps the tables related.                                  *)
LEMMA CommandRelates ==
    ASSUME NEW rows, WellFormed(rows), NEW s, Related(rows, s), NEW c, Fits(rows, c),
           NEW after \in FoldCommand(rows, c), NEW s2 \in ApplyCommand(s, c)
    PROVE  Related(after, s2)
<1>1. Follows(after, s2) /\ Carries(rows, s, after, s2)
  BY CommandReplays DEF Related
<1>2. SameText(after, s2)
  <2> SUFFICES ASSUME NEW i \in DOMAIN after PROVE ShownFor(after[i].val, s2.rows[i].val)
    BY DEF SameText
  <2>1. CASE Made(after[i].val, s2.rows[i].val)
    BY <2>1 DEF Made, ShownFor
  <2>2. CASE \E j \in DOMAIN rows : SameCell(rows, s, j, after, s2, i)
    <3>1. PICK j \in DOMAIN rows : after[i].val = rows[j].val /\ s2.rows[i].val = s.rows[j].val
      BY <2>2 DEF SameCell
    <3>2. ShownFor(rows[j].val, s.rows[j].val)
      BY <3>1 DEF Related, SameText
    <3> QED BY <3>1, <3>2
  <2> QED BY <1>1, <2>1, <2>2 DEF Carries
<1>3. Kept(after, s2)
  <2> SUFFICES ASSUME NEW k \in DOMAIN live, live[k].val # base[Table][k].val
               PROVE  \E i \in DOMAIN after :
                         /\ after[i].id = base[Table][k].id
                         /\ after[i].val = base[Table][k].val
                         /\ s2.rows[i].val = live[k].val
    BY DEF Kept
  <2>1. PICK j \in DOMAIN rows :
           /\ rows[j].id = base[Table][k].id
           /\ rows[j].val = base[Table][k].val
           /\ s.rows[j].val = live[k].val
    BY DEF Related, Kept
  <2>2. PICK i \in DOMAIN after : SameCell(rows, s, j, after, s2, i)
    BY <1>1, <2>1 DEF Carries
  <2> QED BY <2>1, <2>2 DEF SameCell
<1>4. ASSUME drift = 0
      PROVE  SameVals(after, s2)
  <2>1. SameVals(rows, s)
    BY <1>4 DEF Related
  <2> SUFFICES ASSUME NEW i \in DOMAIN after
               PROVE  s2.rows[i].val = after[i].val \/ Made(after[i].val, s2.rows[i].val)
    BY DEF SameVals
  <2>2. CASE \E j \in DOMAIN rows : SameCell(rows, s, j, after, s2, i)
    BY <2>1, <2>2 DEF SameCell, SameVals
  <2> QED BY <1>1, <2>2 DEF Carries
<1> QED BY <1>1, <1>2, <1>3, <1>4 DEF Related

(* At every point of the active log, the editor's table and the draft's    *)
(* are related.                                                            *)
LEMMA RunRelates ==
    ASSUME ReplayInv, PassesPreflight, NEW f, RunOf(live, ActiveCommands, undoPointer, f)
    PROVE  \A k \in 0..undoPointer : \A s \in f[k] :
              \A rows \in FoldTable(Table, base[Table], Prefix(k)) : Related(rows, s)
<1> DEFINE n == undoPointer
           T(k) == FoldTable(Table, base[Table], Prefix(k))
           S == {k \in Nat : k <= n => \A s \in f[k] : \A rows \in T(k) : Related(rows, s)}
<1>1. /\ DraftInv /\ GoodLog(base, commands) /\ commands \in Seq(ToSet(commands))
      /\ Len(commands) \in Nat /\ n \in Nat /\ n \in 0..Len(commands)
      /\ \A k \in 1..n : ActiveCommands[k] = commands[k]
  BY DraftTypes DEF ReplayInv, DraftInv, GoodLog
<1>2. 0 \in S
  <2>1. 0 \in 0..Len(commands)
    BY <1>1
  <2>2. Len(Prefix(0)) = 0
    BY <1>1, <2>1, PrefixIs DEF Prefix
  <2>3. T(0) = {base[Table]}
    BY <2>2, FoldEmpty
  <2> QED BY <2>3, StartRelates DEF RunOf
<1>3. ASSUME NEW k \in Nat, k \in S PROVE k + 1 \in S
  <2> SUFFICES ASSUME k + 1 <= n, NEW s2 \in f[k + 1], NEW after \in T(k + 1)
               PROVE  Related(after, s2)
    OBVIOUS
  <2>1. /\ k + 1 \in 1..n /\ (k + 1) - 1 = k /\ k <= n /\ k + 1 \in 1..Len(commands)
        /\ k \in 0..Len(commands)
    BY <1>1
  <2> DEFINE c == commands[k + 1]
  <2>2. f[k + 1] = RunOne(f[k], c)
    BY <1>1, <2>1 DEF RunOf
  <2>3. T(k + 1) = FoldOne(Table, T(k), c)
    <3>1. commands \in Seq(ToSet(commands)) /\ k + 1 \in 1..Len(commands) /\ (k + 1) - 1 = k
      BY <1>1, <2>1
    <3> QED BY <3>1, FoldOfPrefix DEF Prefix
  <2>4. \A s \in f[k] : \A rows \in T(k) : Related(rows, s)
    BY <1>3, <2>1
  <2> HIDE DEF T
  <2>5. CASE c.table # Table
    BY <2>2, <2>3, <2>4, <2>5 DEF RunOne, FoldOne
  <2>6. CASE c.table = Table
    <3>1. PICK s \in f[k] : s2 \in ApplyCommand(s, c.body)
      BY <2>2, <2>6 DEF RunOne
    <3>2. PICK rows \in T(k) : after \in FoldCommand(rows, c.body)
      BY <2>3, <2>6 DEF FoldOne
    <3>3. WellFormed(rows)
      <4>1. PICK one : WellFormed(one) /\ T(k) = {one}
        BY <1>1, <2>1, PrefixFolds, TableAssumption DEF T
      <4> QED BY <3>2, <4>1
    <3>4. Fits(rows, c.body)
      BY <1>1, <2>1, <2>6, <3>2 DEF GoodLog, T, Prefix
    <3> QED BY <2>4, <3>1, <3>2, <3>3, <3>4, CommandRelates
  <2> QED BY <2>5, <2>6
<1>4. Nat \subseteq S
  <2> HIDE DEF S
  <2> QED BY <1>2, <1>3, NatSetInduction
<1> QED BY <1>1, <1>4

(* So the rows of a commit are related to the working table.               *)
LEMMA CommittedRelates ==
    ASSUME ReplayInv, PassesPreflight, NEW rows \in Committed
    PROVE  /\ WellFormed(WorkingTable(Table)) /\ DOMAIN rows = DOMAIN WorkingTable(Table)
           /\ Len(rows) = Len(WorkingTable(Table))
           /\ \E s : rows = s.rows /\ Related(WorkingTable(Table), s)
<1>1. DraftInv /\ undoPointer \in Nat /\ Len(ActiveCommands) = undoPointer
  BY DraftTypes DEF ReplayInv
<1>2. PICK f : RunOf(live, ActiveCommands, undoPointer, f)
  BY <1>1, RunsIsRun
<1>3. PICK s \in f[undoPointer] : rows = s.rows
  BY <1>1, <1>2 DEF Committed, Replay, RunOf
<1>4. WellFormed(WorkingTable(Table)) /\ WorkingTables(Table) = {WorkingTable(Table)}
  BY <1>1, WorkingTableIs, TableAssumption
<1>5. WorkingTable(Table) \in FoldTable(Table, base[Table], Prefix(undoPointer))
  BY <1>4 DEF WorkingTables, ActiveCommands, Prefix
<1>6. Related(WorkingTable(Table), s)
  <2>1. undoPointer \in 0..undoPointer
    BY <1>1
  <2>2. \A k \in 0..undoPointer : \A s3 \in f[k] :
           \A r \in FoldTable(Table, base[Table], Prefix(k)) : Related(r, s3)
    BY <1>2, RunRelates
  <2> QED BY <1>3, <1>5, <2>1, <2>2
<1>7. DOMAIN rows = DOMAIN WorkingTable(Table) /\ Len(rows) = Len(WorkingTable(Table))
  BY <1>3, <1>4, <1>6, FollowsIs DEF Related
<1> QED BY <1>3, <1>4, <1>6, <1>7

(* A commit that passed the fingerprint preflight has the drafted rows,    *)
(* each cell showing the drafted value or what the editor makes of it, and *)
(* the drafted fingerprint when it makes nothing else of them.             *)
THEOREM CommitCorrect == ReplaySpec => []CommitMatchesDraft
<1>1. ReplayInv => CommitMatchesDraft
  <2> DEFINE w == WorkingTable(Table)
             Cells(rows) == \A k \in DOMAIN w : rows[k].name = w[k].name /\ ShownFor(w[k].val, rows[k].val)
             Prints(rows) ==
               (\A k \in DOMAIN w : ShownAsWritten(w[k].val)) => Fingerprint(rows) = Fingerprint(w)
  <2>1. SUFFICES ASSUME ReplayInv, PassesPreflight, NEW rows \in Committed
                 PROVE  Len(rows) = Len(w) /\ Cells(rows) /\ Prints(rows)
    BY DEF CommitMatchesDraft
  <2>2. WellFormed(w) /\ DOMAIN rows = DOMAIN w /\ Len(rows) = Len(w)
    BY <2>1, CommittedRelates
  <2>3. PICK s : rows = s.rows /\ Related(w, s)
    BY <2>1, CommittedRelates
  <2> HIDE DEF w
  <2>4. Cells(rows)
    BY <2>3 DEF Related, Follows, SameText
  <2>5. ASSUME \A k \in DOMAIN w : ShownAsWritten(w[k].val)
        PROVE  Fingerprint(rows) = Fingerprint(w)
    <3>1. ASSUME NEW k \in DOMAIN w PROVE rows[k].val.text = w[k].val.text
      <4>1. CASE rows[k].val.text = w[k].val.text
        BY <4>1
      <4>2. CASE \E h \in Stored : \E o \in Assigned[h][w[k].val] : o.text = rows[k].val.text
        <5>1. PICK h \in Stored : \E o \in Assigned[h][w[k].val] : o.text = rows[k].val.text
          BY <4>2
        <5>2. PICK o \in Assigned[h][w[k].val] : o.text = rows[k].val.text
          BY <5>1
        <5>3. o.text = w[k].val.text
          BY <2>5, <5>2 DEF ShownAsWritten
        <5> QED BY <5>2, <5>3
      <4> QED BY <2>4, <4>1, <4>2 DEF ShownFor
    <3> QED BY <2>2, <2>4, <3>1 DEF Fingerprint
  <2> QED BY <2>2, <2>4, <2>5
<1> QED BY <1>1, ReplayInvariant, PTL

(* A commit keeps every cell that somebody changed since the snapshot, in  *)
(* the row where they changed it.                                          *)
THEOREM NoHiddenOverwriteCorrect == ReplaySpec => []NoHiddenOverwrite
<1>1. ReplayInv => NoHiddenOverwrite
  <2>1. SUFFICES ASSUME ReplayInv, PassesPreflight, NEW rows \in Committed, NEW k \in DOMAIN live,
                        live[k].val # base[Table][k].val
                 PROVE  \E i \in DOMAIN WorkingTable(Table) :
                           /\ WorkingTable(Table)[i].id = base[Table][k].id
                           /\ rows[i].val = live[k].val
    BY DEF NoHiddenOverwrite
  <2>2. PICK s : rows = s.rows /\ Related(WorkingTable(Table), s)
    BY <2>1, CommittedRelates
  <2> QED BY <2>1, <2>2 DEF Related, Kept
<1> QED BY <1>1, ReplayInvariant, PTL

(* On an unchanged table the editor has every row, index, value and name a *)
(* command asks for, unless the command only changes the case of a name,   *)
(* and it can write what the command writes.                               *)
LEMMA CommandApplies ==
    ASSUME NEW rows, WellFormed(rows), NEW s, Follows(rows, s), SameVals(rows, s), NEW c, Fits(rows, c),
           FoldCommand(rows, c) # {}, ~IsCaseOnlyRename(c),
           \A v \in Written(c) : Writable(v), \A v \in Compared(c) : ReadsBack(v)
    PROVE  ApplyCommand(s, c) # {}
<1>7. ASSUME NEW k \in DOMAIN rows, rows[k].val \in Compared(c)
      PROVE  s.rows[k].val = rows[k].val
  <2>1. CASE Made(rows[k].val, s.rows[k].val)
    BY <1>7, <2>1 DEF Made, ReadsBack
  <2> QED BY <2>1 DEF SameVals
<1>0. \A k \in DOMAIN rows : Find(s, rows[k].id) = {k}
  BY FindIs
<1>1. /\ DOMAIN s.rows = DOMAIN rows /\ Len(s.rows) = Len(rows)
      /\ \A k \in DOMAIN rows : s.rows[k].name = rows[k].name /\ s.rows[k].val \in Stored
      /\ \A k \in DOMAIN rows : s.names[rows[k].id] = rows[k].name
  <2>1. \A k \in DOMAIN rows : s.rows[k].name = rows[k].name /\ s.names[rows[k].id] = rows[k].name
    BY DEF Follows
  <2>2. DOMAIN s.rows = DOMAIN rows /\ Len(s.rows) = Len(rows)
    BY FollowsIs
  <2>3. \A k \in DOMAIN rows : s.rows[k].val \in Stored
    BY FollowsIs
  <2> QED BY <2>1, <2>2, <2>3
<1>2. CASE c.kind = "set_cell"
  <2>1. PICK k \in AtRow(rows, c.rowId) : rows[k].val = c.oldValue
    BY <1>2, FoldCommandIs DEF FoldSetCell
  <2>2. Find(s, c.rowId) = {k} /\ s.rows[k].val = c.oldValue /\ c.oldValue \in Stored
    <3>1. k \in DOMAIN rows /\ rows[k].id = c.rowId /\ Compared(c) = {c.oldValue}
      BY <1>2, <2>1 DEF AtRow, Compared
    <3> QED BY <1>0, <1>1, <1>7, <2>1, <3>1
  <2>3. k \in {i \in Find(s, c.rowId) : s.rows[i].val = c.oldValue}
    BY <2>2
  <2>4. PICK v : v \in Assigned[c.oldValue][c.newValue]
    <3>1. Written(c) = {c.newValue}
      BY <1>2 DEF Written
    <3> QED BY <2>2, <3>1 DEF Writable
  <2>5. [s EXCEPT !.rows[k].val = v] \in ApplySetCell(s, c)
    BY <2>3, <2>4 DEF ApplySetCell
  <2> QED BY <1>2, <2>5, ApplyCommandIs
<1>3. CASE /\ c \in [kind : {"add_row"}, atIndex : Nat, row : Row]
           /\ ValidNewName(rows, c.row.name, NoRow)
  <2>1. c.kind = "add_row"
    BY <1>3
  <2>2. (\A k \in DOMAIN rows : rows[k].id # c.row.id) /\ c.atIndex \in 0..Len(rows)
    BY <2>1, FoldCommandIs DEF FoldAddRow
  <2>3. c.row.id \notin DOMAIN s.names
    BY <2>2 DEF Follows
  <2>4. \A k \in DOMAIN rows : rows[k].id # NoRow
    <3>1. NoRow \notin RowIdentity
      BY DEF NoRow, RowIdentity, SnapshotRowId, DraftRowId
    <3> QED BY <3>1, WellFormedIs
  <2>5. ~HasName(s, c.row.name)
    BY <1>1, <1>3, <2>4 DEF HasName, ValidNewName
  <2>6. c.atIndex \in 0..Len(s.rows)
    BY <1>1, <2>2
  <2>7. ApplyAddRow(s, c) # {}
    <3>1. DefaultValue \in Stored /\ Written(c) = {c.row.val}
      BY <2>1, StoredAssumption DEF Written
    <3>2. PICK v : v \in Assigned[DefaultValue][c.row.val]
      BY <3>1 DEF Writable
    <3> QED BY <2>3, <2>5, <2>6, <3>2 DEF ApplyAddRow
  <2> QED BY <2>1, <2>7, ApplyCommandIs
<1>4. CASE /\ c \in [kind : {"remove_row"}, atIndex : Nat, row : Row]
           /\ c.atIndex + 1 \in DOMAIN rows /\ rows[c.atIndex + 1] = c.row
  <2>1. c.kind = "remove_row"
    BY <1>4
  <2>2. Find(s, c.row.id) = {c.atIndex + 1} /\ s.rows[c.atIndex + 1].val = c.row.val
    <3>1. Compared(c) = {c.row.val}
      BY <2>1 DEF Compared
    <3> QED BY <1>0, <1>4, <1>7, <3>1
  <2>3. c.atIndex + 1 \in {i \in Find(s, c.row.id) : i = c.atIndex + 1 /\ s.rows[i].val = c.row.val}
    BY <2>2
  <2>4. ApplyRemoveRow(s, c) # {}
    BY <2>3 DEF ApplyRemoveRow
  <2> QED BY <2>1, <2>4, ApplyCommandIs
<1>5. CASE /\ c \in [kind : {"rename_row"}, rowId : RowIdentity, oldName : Names, newName : Names]
           /\ ValidNewName(rows, c.newName, c.rowId)
  <2>1. c.kind = "rename_row"
    BY <1>5
  <2>2. PICK k \in AtRow(rows, c.rowId) :
           rows[k].name = c.oldName /\ \A j \in DOMAIN rows : rows[j].name # c.newName
    BY <2>1, FoldCommandIs DEF FoldRenameRow
  <2>3. k \in DOMAIN rows /\ rows[k].id = c.rowId /\ c.oldName # c.newName
    BY <2>2 DEF AtRow
  <2>4. Find(s, c.rowId) = {k} /\ SameFName(s.names[c.rowId], c.oldName)
    BY <1>0, <1>1, <2>2, <2>3 DEF SameFName
  <2>5. ~SameFName(c.oldName, c.newName)
    BY <2>1, <2>3 DEF IsCaseOnlyRename
  <2>6. ASSUME NEW j \in DOMAIN s.rows PROVE ~SameFName(s.rows[j].name, c.newName)
    <3>1. CASE j = k
      BY <1>1, <2>2, <2>3, <2>5, <3>1
    <3>2. CASE j # k
      <4>1. rows[j].id # c.rowId
        BY <1>1, <2>3, <3>2 DEF WellFormed, DistinctRows
      <4> QED BY <1>1, <1>5, <4>1 DEF ValidNewName
    <3> QED BY <3>1, <3>2
  <2>7. ~HasName(s, c.newName)
    BY <2>6 DEF HasName
  <2>8. k \in {i \in Find(s, c.rowId) : SameFName(s.names[c.rowId], c.oldName) /\ ~HasName(s, c.newName)}
    BY <2>4, <2>7
  <2>9. ApplyRenameRow(s, c) # {}
    BY <2>8 DEF ApplyRenameRow
  <2> QED BY <2>1, <2>9, ApplyCommandIs
<1>6. CASE c \in [kind : {"reorder_rows"}, oldOrder : Seq(RowIdentity), newOrder : Seq(RowIdentity)]
  <2>1. c.kind = "reorder_rows"
    BY <1>6
  <2>2. /\ RowIds(rows) = c.oldOrder /\ IsPermutationOf(c.newOrder, c.oldOrder)
        /\ Len(rows) \in Nat /\ DOMAIN rows = 1..Len(rows)
        /\ Len(c.newOrder) = Len(rows) /\ Len(c.oldOrder) = Len(rows)
    <3>1. PICK after : after \in FoldCommand(rows, c)
      OBVIOUS
    <3> QED BY <1>6, <3>1, ReorderedIs
  <2>3. \A k \in 1..Len(rows) : c.oldOrder[k] = rows[k].id
    BY <2>2 DEF RowIds
  <2>4. ToSet(c.oldOrder) = {rows[k].id : k \in DOMAIN rows}
    BY <2>2 DEF ToSet, RowIds
  <2>5. DOMAIN s.names = ToSet(c.newOrder)
    BY <2>2, <2>4 DEF Follows, IsPermutationOf
  <2>6. Cardinality(DOMAIN s.names) = Len(c.newOrder)
    BY <2>2, <2>5 DEF IsPermutationOf
  <2>7. \A k \in 1..Len(s.rows) : Find(s, c.oldOrder[k]) = {k}
    BY <1>0, <1>1, <2>2, <2>3
  <2>8. ApplyReorderRows(s, c) # {}
    BY <2>2, <2>6, <2>7 DEF ApplyReorderRows
  <2> QED BY <2>1, <2>8, ApplyCommandIs
<1> QED BY <1>2, <1>3, <1>4, <1>5, <1>6 DEF Fits

(* A draft without case-only renames, that writes what the editor can      *)
(* write and edits or removes only cells that read back as drafted, is     *)
(* never rolled back by an editor whose table has not changed since the    *)
(* snapshot.                                                               *)
THEOREM ReplaysOnItsBase == ReplaySpec => []DraftReplaysOnItsBase
<1>1. ReplayInv => DraftReplaysOnItsBase
  <2> DEFINE n == undoPointer
             T(k) == FoldTable(Table, base[Table], Prefix(k))
             Replayable(c) ==
               /\ ~IsCaseOnlyRename(c)
               /\ \A v \in Written(c) : Writable(v)
               /\ \A v \in Compared(c) : ReadsBack(v)
  <2>1. SUFFICES ASSUME ReplayInv, drift = 0,
                        \A k \in 1..n : commands[k].table = Table => Replayable(commands[k].body)
                 PROVE  ~RollsBack(live, ActiveCommands)
    BY DEF DraftReplaysOnItsBase
  <2>2. /\ DraftInv /\ GoodLog(base, commands) /\ commands \in Seq(ToSet(commands))
        /\ Len(commands) \in Nat /\ n \in Nat /\ n \in 0..Len(commands)
        /\ Len(ActiveCommands) = n /\ \A k \in 1..n : ActiveCommands[k] = commands[k]
    BY <2>1, DraftTypes DEF ReplayInv, DraftInv, GoodLog
  <2>3. PassesPreflight
    <3>1. live = Stripped(base[Table])
      BY <2>1 DEF ReplayInv
    <3>2. DOMAIN live = DOMAIN base[Table]
      BY <3>1 DEF Stripped
    <3>3. \A k \in DOMAIN live : live[k].name = base[Table][k].name /\ live[k].val = base[Table][k].val
      BY <3>1 DEF Stripped
    <3> QED BY <3>2, <3>3 DEF PassesPreflight, Fingerprint
  <2>4. PICK f : RunOf(live, ActiveCommands, n, f)
    BY <2>2, RunsIsRun
  <2>5. \A k \in 0..n : \A s \in f[k] : \A rows \in T(k) : Related(rows, s)
    BY <2>1, <2>3, <2>4, RunRelates
  <2>6. ASSUME NEW k \in 1..n, commands[k].table = Table, NEW s \in f[k - 1]
        PROVE  ApplyCommand(s, commands[k].body) # {}
    <3>1. k - 1 \in 0..n /\ k \in 1..Len(commands) /\ k - 1 \in 0..Len(commands) /\ k \in 0..Len(commands)
      BY <2>2
    <3> DEFINE c == commands[k].body
    <3>2. PICK rows : WellFormed(rows) /\ T(k - 1) = {rows}
      BY <2>2, <3>1, PrefixFolds, TableAssumption
    <3>3. Fits(rows, c)
      BY <2>2, <2>6, <3>1, <3>2 DEF GoodLog, Prefix
    <3>4. T(k) = FoldOne(Table, T(k - 1), commands[k])
      BY <2>2, <3>1, FoldOfPrefix DEF Prefix
    <3>5. T(k) # {}
      BY <2>2, <3>1, TableAssumption DEF GoodLog, Prefix
    <3> HIDE DEF T
    <3>6. FoldCommand(rows, c) # {}
      BY <2>6, <3>2, <3>4, <3>5 DEF FoldOne
    <3>7. Related(rows, s)
      BY <2>5, <2>6, <3>1, <3>2
    <3>8. Follows(rows, s) /\ SameVals(rows, s)
      BY <2>1, <3>7 DEF Related
    <3>9. Replayable(c)
      BY <2>1, <2>6
    <3> QED BY <3>2, <3>3, <3>6, <3>8, <3>9, CommandApplies
  <2> QED BY <2>2, <2>4, <2>6 DEF RollsBack, RunOf
<1> QED BY <1>1, ReplayInvariant, PTL
=============================================================================
