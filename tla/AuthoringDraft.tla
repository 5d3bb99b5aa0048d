--------------------------- MODULE AuthoringDraft ---------------------------
(***************************************************************************)
(* The draft of one authoring session: base snapshots, the ordered log of  *)
(* row commands, and the undo pointer (packages/authoring/src/draft.ts).   *)
(* The working table is never stored: it is folded from the active prefix  *)
(* of the log over the base.                                               *)
(*                                                                         *)
(* A row is an identity, a name and one cell.  Folding a command is a      *)
(* partial function: the operators below return the SET of tables it can   *)
(* yield, one table when it applies and none where the code throws         *)
(* DraftFoldError, so a failed fold stays failed (UNION over nothing).     *)
(***************************************************************************)
EXTENDS Integers, Sequences, FiniteSets, SequencesExt

CONSTANTS
    Tables,       \* object paths of the session's tables
    Names,        \* row names as the user spells them
    FNameOf,      \* the case-insensitive identity of a name in Unreal
    Values,       \* cell values: records [text, key], see TextOf
    DraftRowIds,  \* supply of generated identities for drafted rows
    BaseTables,   \* row sequences a session may start from: <<[name, val], ...>>
    DefaultValue, \* the schema-proven default of the cell
    MaxCommands,  \* bound: length of the command log
    MaxRows       \* bound: rows of a working table

ASSUME FNameAssumption == FNameOf \in [Names -> Names]
ASSUME ValueAssumption == DefaultValue \in Values

(* A snapshot lists the row map of a DataTable, whose keys are FNames.     *)
ASSUME BaseAssumption ==
    \A rows \in BaseTables :
       /\ rows \in Seq([name : Names, val : Values])
       /\ \A i, j \in DOMAIN rows : i # j => FNameOf[rows[i].name] # FNameOf[rows[j].name]
ASSUME BoundsAssumption == MaxCommands \in Nat /\ MaxRows \in Nat

VARIABLES
    base,         \* [Tables -> rows]: the recorded snapshots
    commands,     \* the command log, redo tail included
    undoPointer   \* how many commands of the log are active

draftVars == <<base, commands, undoPointer>>

-----------------------------------------------------------------------------
(* Rows and commands                                                       *)

SnapshotRowId(name) == <<"row", name>>
DraftRowId(d) == <<"draft-row", d>>

SameFName(a, b) == FNameOf[a] = FNameOf[b]

(* A snapshot gives each row the identity derived from its name.           *)
SnapshotRows(rows) ==
    [k \in DOMAIN rows |-> [id |-> SnapshotRowId(rows[k].name),
                            name |-> rows[k].name, val |-> rows[k].val]]

RowIds(rows) == [k \in DOMAIN rows |-> rows[k].id]
AtRow(rows, id) == {k \in DOMAIN rows : rows[k].id = id}
IsPermutationOf(s, t) == Len(s) = Len(t) /\ ToSet(s) = ToSet(t) /\ Cardinality(ToSet(s)) = Len(s)

-----------------------------------------------------------------------------
(* Folding (foldTable)                                                     *)

FoldSetCell(rows, c) ==
    {[rows EXCEPT ![k].val = c.newValue] :
        k \in {i \in AtRow(rows, c.rowId) : rows[i].val = c.oldValue}}

FoldAddRow(rows, c) ==
    IF \/ \E k \in DOMAIN rows : rows[k].id = c.row.id \/ rows[k].name = c.row.name
       \/ c.atIndex \notin 0..Len(rows)
    THEN {}
    ELSE {InsertAt(rows, c.atIndex + 1, c.row)}

FoldRemoveRow(rows, c) ==
    {RemoveAt(rows, k) : k \in {i \in AtRow(rows, c.row.id) : i = c.atIndex + 1}}

FoldRenameRow(rows, c) ==
    {[rows EXCEPT ![k].name = c.newName] :
        k \in {i \in AtRow(rows, c.rowId) :
                  /\ rows[i].name = c.oldName
                  /\ \A j \in DOMAIN rows : rows[j].name # c.newName}}

FoldReorderRows(rows, c) ==
    IF RowIds(rows) = c.oldOrder /\ IsPermutationOf(c.newOrder, c.oldOrder)
    THEN {[k \in DOMAIN rows |-> rows[CHOOSE i \in AtRow(rows, c.newOrder[k]) : TRUE]]}
    ELSE {}

FoldCommand(rows, body) ==
    CASE body.kind = "set_cell"     -> FoldSetCell(rows, body)
      [] body.kind = "add_row"      -> FoldAddRow(rows, body)
      [] body.kind = "remove_row"   -> FoldRemoveRow(rows, body)
      [] body.kind = "rename_row"   -> FoldRenameRow(rows, body)
      [] body.kind = "reorder_rows" -> FoldReorderRows(rows, body)

(* The commands of other tables are skipped.                               *)
FoldTable(t, rows, log) ==
    LET fold[k \in 0..Len(log)] ==
          IF k = 0 THEN {rows}
          ELSE IF log[k].table # t THEN fold[k - 1]
          ELSE UNION {FoldCommand(r, log[k].body) : r \in fold[k - 1]}
    IN  fold[Len(log)]

ActiveCommands == SubSeq(commands, 1, undoPointer)
WorkingTables(t) == FoldTable(t, base[t], ActiveCommands)
WorkingTable(t) == CHOOSE rows \in WorkingTables(t) : TRUE

(* Mutant of InvertCommand: a removed row comes back at the top.           *)
InvertAtTop(c) ==
    CASE c.kind = "set_cell"     -> [c EXCEPT !.newValue = c.oldValue, !.oldValue = c.newValue]
      [] c.kind = "add_row"      -> [kind |-> "remove_row", atIndex |-> c.atIndex, row |-> c.row]
      [] c.kind = "remove_row"   -> [kind |-> "add_row", atIndex |-> 0, row |-> c.row]
      [] c.kind = "rename_row"   -> [c EXCEPT !.newName = c.oldName, !.oldName = c.newName]
      [] c.kind = "reorder_rows" -> [c EXCEPT !.newOrder = c.oldOrder, !.oldOrder = c.newOrder]

InvertCommand(c) ==
    CASE c.kind = "set_cell"     -> [c EXCEPT !.newValue = c.oldValue, !.oldValue = c.newValue]
      [] c.kind = "add_row"      -> [kind |-> "remove_row", atIndex |-> c.atIndex, row |-> c.row]
      [] c.kind = "remove_row"   -> [kind |-> "add_row", atIndex |-> c.atIndex, row |-> c.row]
      [] c.kind = "rename_row"   -> [c EXCEPT !.newName = c.oldName, !.oldName = c.newName]
      [] c.kind = "reorder_rows" -> [c EXCEPT !.newOrder = c.oldOrder, !.oldOrder = c.newOrder]

-----------------------------------------------------------------------------
(* Building commands from intents: each captures the prior data from the   *)
(* working table, and the intent fails (no step) where the code throws     *)
(* DraftIntentError.                                                       *)

(* Mutant of ValidNewName: names are compared as they are spelled.         *)
ValidNewSpelling(rows, name, self) ==
    \A k \in DOMAIN rows : rows[k].id = self \/ rows[k].name # name

(* validateNewRowName: unique without regard to case among the other rows. *)
ValidNewName(rows, name, self) ==
    \A k \in DOMAIN rows : rows[k].id = self \/ ~SameFName(rows[k].name, name)

NoRow == <<"no row">>

(* The commands of one setCells gesture.  Every edit is built against the  *)
(* table that the earlier edits of the gesture leave.                      *)
SetCellBodies(t, edits) ==
    LET Staged(bodies) ==
          FoldTable(t, WorkingTable(t), [k \in DOMAIN bodies |-> [table |-> t, body |-> bodies[k]]])
        build[k \in 0..Len(edits)] ==
          IF k = 0 THEN <<>>
          ELSE Append(build[k - 1],
                 LET rows == CHOOSE r \in Staged(build[k - 1]) : TRUE
                     row  == rows[CHOOSE i \in AtRow(rows, edits[k].rowId) : TRUE]
                 IN  [kind |-> "set_cell", rowId |-> edits[k].rowId,
                      oldValue |-> row.val, newValue |-> edits[k].value])
    IN  build[Len(edits)]

AddRowBody(id, name, at) ==
    [kind |-> "add_row", atIndex |-> at,
     row |-> [id |-> DraftRowId(id), name |-> name, val |-> DefaultValue]]

DuplicateRowBody(rows, source, id, name, at) ==
    [kind |-> "add_row", atIndex |-> at,
     row |-> [id |-> DraftRowId(id), name |-> name, val |-> rows[source].val]]

RemoveRowBody(rows, k) ==
    [kind |-> "remove_row", atIndex |-> k - 1, row |-> rows[k]]

RenameRowBody(rows, k, name) ==
    [kind |-> "rename_row", rowId |-> rows[k].id, oldName |-> rows[k].name, newName |-> name]

ReorderRowsBody(rows, order) ==
    [kind |-> "reorder_rows", oldOrder |-> RowIds(rows), newOrder |-> order]

(* ids.generate: an identity that occurs nowhere in the active log.  The   *)
(* redo tail is dropped by the append that follows.                        *)
UnusedGroup ==
    CHOOSE g \in 1..(undoPointer + 1) : \A k \in 1..undoPointer : commands[k].group # g
UnusedRowIds ==
    {d \in DraftRowIds :
        \A k \in 1..undoPointer :
            commands[k].body.kind = "add_row" => commands[k].body.row.id # DraftRowId(d)}

(* Mutant of AppendCommandGroup: the redo tail stays behind the new group. *)
AppendBeforeRedoTail(t, bodies) ==
    LET group == [k \in DOMAIN bodies |-> [table |-> t, group |-> UnusedGroup, body |-> bodies[k]]]
        log   == ActiveCommands \o group
    IN  /\ Len(commands) + Len(group) <= MaxCommands
        /\ FoldTable(t, base[t], log) # {}
        /\ commands' = log \o SubSeq(commands, undoPointer + 1, Len(commands))
        /\ undoPointer' = Len(log)
        /\ UNCHANGED base

(* Mutant of AppendCommandGroup: the pointer counts the dropped redo tail. *)
AppendKeepingCount(t, bodies) ==
    LET group == [k \in DOMAIN bodies |-> [table |-> t, group |-> UnusedGroup, body |-> bodies[k]]]
        log   == ActiveCommands \o group
    IN  /\ Len(log) <= MaxCommands
        /\ FoldTable(t, base[t], log) # {}
        /\ commands' = log
        /\ undoPointer' = Len(commands) + Len(group)
        /\ UNCHANGED base

(* appendCommandGroup, and the workingTable call that validates its result *)
AppendCommandGroup(t, bodies) ==
    LET group == [k \in DOMAIN bodies |-> [table |-> t, group |-> UnusedGroup, body |-> bodies[k]]]
        log   == ActiveCommands \o group
    IN  /\ Len(log) <= MaxCommands
        /\ FoldTable(t, base[t], log) # {}
        /\ commands' = log
        /\ undoPointer' = Len(log)
        /\ UNCHANGED base

-----------------------------------------------------------------------------
(* The intents of the session service, on an idle session                  *)

SetCells(t, edits) ==
    /\ undoPointer + Len(edits) <= MaxCommands
    /\ \A k \in DOMAIN edits : AtRow(WorkingTable(t), edits[k].rowId) # {}
    /\ AppendCommandGroup(t, SetCellBodies(t, edits))

AddRow(t, name, at) ==
    /\ ValidNewName(WorkingTable(t), name, NoRow)
    /\ at \in 0..Len(WorkingTable(t))
    /\ Len(WorkingTable(t)) < MaxRows
    /\ UnusedRowIds # {}
    /\ AppendCommandGroup(t, <<AddRowBody(CHOOSE d \in UnusedRowIds : TRUE, name, at)>>)

DuplicateRow(t, source, name, at) ==
    /\ source \in DOMAIN WorkingTable(t)
    /\ ValidNewName(WorkingTable(t), name, NoRow)
    /\ at \in 0..Len(WorkingTable(t))
    /\ Len(WorkingTable(t)) < MaxRows
    /\ UnusedRowIds # {}
    /\ AppendCommandGroup(t,
         <<DuplicateRowBody(WorkingTable(t), source, CHOOSE d \in UnusedRowIds : TRUE, name, at)>>)

RemoveRow(t, k) ==
    /\ k \in DOMAIN WorkingTable(t)
    /\ AppendCommandGroup(t, <<RemoveRowBody(WorkingTable(t), k)>>)

RenameRow(t, k, name) ==
    /\ k \in DOMAIN WorkingTable(t)
    /\ ValidNewName(WorkingTable(t), name, WorkingTable(t)[k].id)
    /\ AppendCommandGroup(t, <<RenameRowBody(WorkingTable(t), k, name)>>)

ReorderRows(t, order) ==
    /\ IsPermutationOf(order, RowIds(WorkingTable(t)))
    /\ AppendCommandGroup(t, <<ReorderRowsBody(WorkingTable(t), order)>>)

(* Mutant of UndoTarget: one command, whatever its group                   *)
UndoOneCommand(p) == p - 1

(* Undo and redo move the pointer over one whole gesture group.            *)
UndoTarget(p) ==
    CHOOSE q \in 0..(p - 1) :
       /\ \A k \in (q + 1)..p : commands[k].group = commands[p].group
       /\ q = 0 \/ commands[q].group # commands[p].group
RedoTarget(p) ==
    CHOOSE q \in (p + 1)..Len(commands) :
       /\ \A k \in (p + 1)..q : commands[k].group = commands[p + 1].group
       /\ q = Len(commands) \/ commands[q + 1].group # commands[p + 1].group

Undo ==
    /\ undoPointer > 0
    /\ undoPointer' = UndoTarget(undoPointer)
    /\ UNCHANGED <<base, commands>>

Redo ==
    /\ undoPointer < Len(commands)
    /\ undoPointer' = RedoTarget(undoPointer)
    /\ UNCHANGED <<base, commands>>

-----------------------------------------------------------------------------

DraftInit ==
    /\ base \in {[t \in Tables |-> SnapshotRows(b[t])] : b \in [Tables -> BaseTables]}
    /\ commands = <<>>
    /\ undoPointer = 0

Edit(t) ==
    \/ \E edits \in TupleOf([rowId : ToSet(RowIds(WorkingTable(t))), value : Values], 1)
                 \cup TupleOf([rowId : ToSet(RowIds(WorkingTable(t))), value : Values], 2) :
          SetCells(t, edits)
    \/ \E name \in Names, at \in 0..MaxRows : AddRow(t, name, at)
    \/ \E k \in 1..MaxRows, name \in Names, at \in 0..MaxRows : DuplicateRow(t, k, name, at)
    \/ \E k \in 1..MaxRows : RemoveRow(t, k)
    \/ \E k \in 1..MaxRows, name \in Names : RenameRow(t, k, name)
    \/ \E order \in SetToSeqs(ToSet(RowIds(WorkingTable(t)))) : ReorderRows(t, order)

DraftNext == (undoPointer < MaxCommands /\ \E t \in Tables : Edit(t)) \/ Undo \/ Redo

DraftSpec == DraftInit /\ [][DraftNext]_draftVars

-----------------------------------------------------------------------------
(* Properties                                                              *)

Prefix(p) == SubSeq(commands, 1, p)

(* Typing: the pointer stays inside the log and every command names a      *)
(* table of the session.                                                   *)
DraftTypeOK ==
    /\ undoPointer \in 0..Len(commands)
    /\ Len(commands) <= MaxCommands
    /\ \A k \in DOMAIN commands : commands[k].table \in Tables /\ commands[k].group \in Nat

(* Whatever was edited, undone, redone and edited again, every prefix of   *)
(* the log folds over the base: foldTable never meets a command whose      *)
(* recorded old value, index, name or order is no longer there, and the    *)
(* redo tail never needs a command that an append has dropped.             *)
EveryPrefixFolds ==
    \A p \in 0..Len(commands), t \in Tables : FoldTable(t, base[t], Prefix(p)) # {}

(* A working table never has two rows with one identity, or two names that *)
(* Unreal reads as the same FName, at any point of the undo history.       *)
RowsStayDistinct ==
    \A p \in 0..Len(commands), t \in Tables :
       \A rows \in FoldTable(t, base[t], Prefix(p)) :
          \A i, j \in DOMAIN rows :
             i # j => rows[i].id # rows[j].id /\ ~SameFName(rows[i].name, rows[j].name)

(* invertCommand inverts: folding a command and then its inverse gives     *)
(* back the table before it, for each command at its place in the log.     *)
InversionRestores ==
    \A p \in DOMAIN commands :
       LET t == commands[p].table IN
       \A before \in FoldTable(t, base[t], Prefix(p - 1)) :
          \A after \in FoldCommand(before, commands[p].body) :
             FoldCommand(after, InvertCommand(commands[p].body)) = {before}

(* Undo takes back the whole of the last gesture and no other, redo gives  *)
(* it back: the pointer only rests between groups.                         *)
UndoRedoByGesture ==
    /\ \A k \in 1..(Len(commands) - 1) :
          k = undoPointer => commands[k].group # commands[k + 1].group
    /\ undoPointer > 0 => RedoTarget(UndoTarget(undoPointer)) = undoPointer
=============================================================================
