-------------------------- MODULE AuthoringReplay --------------------------
(***************************************************************************)
(* What the editor makes of a draft.  UEShedAuthoringLibrary.cpp replays   *)
(* the drafted commands on the live DataTable with an algorithm of its     *)
(* own: rows are found by FName through a map from row identity to name,   *)
(* names compare without case, and a move is MoveRow by an offset.  The    *)
(* client accepts a commit only when the table that results has the        *)
(* fingerprint of its own fold (acceptApplyResult, live.ts), so the two    *)
(* algorithms must agree on every draft.                                   *)
(*                                                                         *)
(* Here one table's draft meets a live table that other people edit.  The  *)
(* semantic fingerprint covers names, order and display text, and leaves   *)
(* text identity (key) out.                                                *)
(*                                                                         *)
(* A cell need not hold what was assigned to it: integers and names are    *)
(* normalised, text without a key gets a new one, and some values cannot   *)
(* be written at all.  Two values that differ only by the rounding of a    *)
(* float are one value here: both fingerprints and both of the editor's    *)
(* comparisons round (fingerprint.ts, AsStoredFloats).                     *)
(***************************************************************************)
EXTENDS AuthoringDraft

CONSTANTS Table,       \* the table of the session whose live copy is followed
          Stored,      \* the values a cell of a DataTable can hold, read back by a snapshot
          Assigned,    \* AssignPropertyValue with TextFromIdentity: Assigned[h][v] is what a
                       \* cell that held h can hold after v was assigned, {} where it fails
          MaxDrift     \* bound: external edits of the live table

ASSUME TableAssumption == Table \in Tables /\ MaxDrift \in Nat
ASSUME StoredAssumption ==
    /\ Stored \subseteq Values /\ DefaultValue \in Stored
    /\ Assigned \in [Stored -> [Values -> SUBSET Stored]]
    /\ \A rows \in BaseTables : \A k \in DOMAIN rows : rows[k].val \in Stored

VARIABLES live,        \* the editor's rows: <<[name, val], ...>>
          drift        \* external edits so far

replayVars == <<base, commands, undoPointer, live, drift>>

-----------------------------------------------------------------------------
(* TableFingerprintFromJson and fingerprintTable: the same function of the *)
(* rows, which drops row identities and text identity.                     *)
Fingerprint(rows) == [k \in DOMAIN rows |-> [name |-> rows[k].name, text |-> rows[k].val.text]]

(* One table during Apply: its rows, and the identity-to-name map that     *)
(* starts from the live names and follows the commands.                    *)
StartReplay(rows) ==
    [rows |-> rows,
     names |-> [id \in {SnapshotRowId(rows[k].name) : k \in DOMAIN rows} |-> id[2]]]

Find(s, id) ==
    {k \in DOMAIN s.rows : id \in DOMAIN s.names /\ SameFName(s.rows[k].name, s.names[id])}
HasName(s, name) == \E k \in DOMAIN s.rows : SameFName(s.rows[k].name, name)

(* FDataTableEditorUtils::MoveRow, upwards                                 *)
MoveUp(rows, from, to) == InsertAt(RemoveAt(rows, from), to, rows[from])

(* Mutant of ApplySetCell: the recorded old value is not compared.         *)
OverwriteCell(s, c) ==
    UNION {{[s EXCEPT !.rows[k].val = v] : v \in Assigned[s.rows[k].val][c.newValue]} :
              k \in Find(s, c.rowId)}

ApplySetCell(s, c) ==
    UNION {{[s EXCEPT !.rows[k].val = v] : v \in Assigned[c.oldValue][c.newValue]} :
              k \in {i \in Find(s, c.rowId) : s.rows[i].val = c.oldValue}}

(* The identity-to-name map with one more row                              *)
WithName(names, row) ==
    [id \in DOMAIN names \cup {row.id} |-> IF id = row.id THEN row.name ELSE names[id]]

(* Mutant of ApplyAddRow: the new row stays at the end of the table.       *)
AppendRow(s, c) ==
    IF c.row.id \in DOMAIN s.names \/ HasName(s, c.row.name) \/ c.atIndex \notin 0..Len(s.rows)
    THEN {}
    ELSE {[rows  |-> Append(s.rows, [name |-> c.row.name, val |-> v]),
           names |-> WithName(s.names, c.row)] : v \in Assigned[DefaultValue][c.row.val]}

(* The cell of a new row holds the default until the row's is assigned.    *)
ApplyAddRow(s, c) ==
    IF c.row.id \in DOMAIN s.names \/ HasName(s, c.row.name) \/ c.atIndex \notin 0..Len(s.rows)
    THEN {}
    ELSE {[rows  |-> MoveUp(Append(s.rows, [name |-> c.row.name, val |-> v]),
                            Len(s.rows) + 1, c.atIndex + 1),
           names |-> WithName(s.names, c.row)] : v \in Assigned[DefaultValue][c.row.val]}

ApplyRemoveRow(s, c) ==
    {[rows |-> RemoveAt(s.rows, k), names |-> Restrict(s.names, DOMAIN s.names \ {c.row.id})] :
        k \in {i \in Find(s, c.row.id) : i = c.atIndex + 1 /\ s.rows[i].val = c.row.val}}

(* Mutant of ApplyRenameRow: the identity keeps pointing at the old name.  *)
RenameRowOnly(s, c) ==
    {[s EXCEPT !.rows[k].name = c.newName] :
        k \in {i \in Find(s, c.rowId) :
                  SameFName(s.names[c.rowId], c.oldName) /\ ~HasName(s, c.newName)}}

ApplyRenameRow(s, c) ==
    {[rows  |-> [s.rows EXCEPT ![k].name = c.newName],
      names |-> [s.names EXCEPT ![c.rowId] = c.newName]] :
        k \in {i \in Find(s, c.rowId) :
                  SameFName(s.names[c.rowId], c.oldName) /\ ~HasName(s, c.newName)}}

(* The rows are moved into place one target index after the other.         *)
ApplyReorderRows(s, c) ==
    LET n == Len(s.rows)
        place[k \in 0..n] ==
          IF k = 0 THEN s.rows
          ELSE LET rows == place[k - 1]
                   from == CHOOSE i \in DOMAIN rows :
                              SameFName(rows[i].name, s.names[c.newOrder[k]])
               IN  IF from > k THEN MoveUp(rows, from, k) ELSE rows
    IN  IF /\ Len(c.oldOrder) = Cardinality(DOMAIN s.names)
           /\ Len(c.newOrder) = Cardinality(DOMAIN s.names)
           /\ \A k \in 1..n : Find(s, c.oldOrder[k]) = {k}
           /\ IsPermutationOf(c.newOrder, c.oldOrder)
        THEN {[s EXCEPT !.rows = place[n]]}
        ELSE {}

ApplyCommand(s, body) ==
    CASE body.kind = "set_cell"     -> ApplySetCell(s, body)
      [] body.kind = "add_row"      -> ApplyAddRow(s, body)
      [] body.kind = "remove_row"   -> ApplyRemoveRow(s, body)
      [] body.kind = "rename_row"   -> ApplyRenameRow(s, body)
      [] body.kind = "reorder_rows" -> ApplyReorderRows(s, body)

(* The command loop of Apply, as one table sees it: the states the table   *)
(* can be in after the first k commands.                                   *)
Runs(rows, log) ==
    LET run[k \in 0..Len(log)] ==
          IF k = 0 THEN {StartReplay(rows)}
          ELSE IF log[k].table # Table THEN run[k - 1]
          ELSE UNION {ApplyCommand(s, log[k].body) : s \in run[k - 1]}
    IN  run

(* The rows it can commit, and whether a command of its can fail, which    *)
(* rolls the batch back.                                                   *)
Replay(rows, log) == {s.rows : s \in Runs(rows, log)[Len(log)]}
RollsBack(rows, log) ==
    LET run == Runs(rows, log)
    IN  \E k \in 1..Len(log) :
           /\ log[k].table = Table
           /\ \E s \in run[k - 1] : ApplyCommand(s, log[k].body) = {}

Committed == Replay(live, ActiveCommands)
PassesPreflight == Fingerprint(live) = Fingerprint(base[Table])

-----------------------------------------------------------------------------
ReplayInit ==
    /\ DraftInit
    /\ live = [k \in DOMAIN base[Table] |-> [name |-> base[Table][k].name, val |-> base[Table][k].val]]
    /\ drift = 0

(* A person edits a cell of the live table in the editor: its text, or     *)
(* only the identity of its text.                                          *)
ExternalEdit ==
    /\ drift < MaxDrift
    /\ drift' = drift + 1
    /\ \E k \in DOMAIN live, v \in Stored :
          v # live[k].val /\ live' = [live EXCEPT ![k].val = v]
    /\ UNCHANGED draftVars

ReplayNext == (DraftNext /\ UNCHANGED <<live, drift>>) \/ ExternalEdit

ReplaySpec == ReplayInit /\ [][ReplayNext]_replayVars

-----------------------------------------------------------------------------
(* Properties                                                              *)

(* A cell for which v was drafted can be shown as w is: as v, or as what   *)
(* the editor makes of v.                                                  *)
ShownFor(v, w) ==
    w.text = v.text \/ \E h \in Stored : \E o \in Assigned[h][v] : o.text = w.text
ShownAsWritten(v) == \A h \in Stored : \A o \in Assigned[h][v] : o.text = v.text

(* A commit that passed the fingerprint preflight has the drafted rows,    *)
(* under the drafted names and in the drafted order, and each cell shows   *)
(* the drafted value or the editor's spelling of that very value.  So only *)
(* such a spelling can part the commit from the fingerprint of the draft:  *)
(* then acceptApplyResult throws snapshot_fingerprint_mismatch and the     *)
(* session can never complete the Apply the editor has committed.          *)
CommitMatchesDraft ==
    PassesPreflight =>
       LET drafted == WorkingTable(Table)
       IN  \A rows \in Committed :
              /\ Len(rows) = Len(drafted)
              /\ \A k \in DOMAIN drafted :
                    rows[k].name = drafted[k].name /\ ShownFor(drafted[k].val, rows[k].val)
              /\ (\A k \in DOMAIN drafted : ShownAsWritten(drafted[k].val))
                    => Fingerprint(rows) = Fingerprint(drafted)

(* The fingerprint does not see a change of text identity, the old values  *)
(* of the commands do: a commit keeps every cell that somebody changed     *)
(* since the snapshot, in the row where they changed it.                   *)
NoHiddenOverwrite ==
    PassesPreflight =>
       \A rows \in Committed, k \in DOMAIN live :
          live[k].val # base[Table][k].val =>
             \E i \in DOMAIN WorkingTable(Table) :
                /\ WorkingTable(Table)[i].id = base[Table][k].id
                /\ rows[i].val = live[k].val

(* A name that differs from a row's current name only in its case.         *)
IsCaseOnlyRename(c) ==
    c.kind = "rename_row" /\ c.oldName # c.newName /\ SameFName(c.oldName, c.newName)

(* What a command assigns to a cell, and what it compares with one         *)
Written(c) ==
    CASE c.kind = "set_cell" -> {c.newValue} [] c.kind = "add_row" -> {c.row.val} [] OTHER -> {}
Compared(c) ==
    CASE c.kind = "set_cell" -> {c.oldValue} [] c.kind = "remove_row" -> {c.row.val} [] OTHER -> {}

Writable(v) == \A h \in Stored : Assigned[h][v] # {}
ReadsBack(v) == \A h \in Stored : Assigned[h][v] \subseteq {v}

(* An editor whose table has not changed since the snapshot never rolls a  *)
(* draft back, with three exceptions: it renames a row to its own name in  *)
(* other case; it writes a value the editor cannot write, as duplicate_row *)
(* does when it copies a generated text; or it edits or removes a cell     *)
(* whose drafted value does not read back, such as text that got a key.    *)
DraftReplaysOnItsBase ==
    /\ drift = 0
    /\ \A k \in 1..undoPointer : commands[k].table = Table =>
          /\ ~IsCaseOnlyRename(commands[k].body)
          /\ \A v \in Written(commands[k].body) : Writable(v)
          /\ \A v \in Compared(commands[k].body) : ReadsBack(v)
    => ~RollsBack(live, ActiveCommands)
=============================================================================
