CONSTANTS
    Tables <- MCTables
    Names <- MCNames
    FNameOf <- MCFNameOf
    Values <- MCValues
    DraftRowIds = {"d1", "d2"}
    BaseTables <- MCBaseTables
    DefaultValue <- MCDefault
    MaxCommands = 3
    MaxRows = 2
    Table = "T"
    Stored <- MCStored
    Assigned <- MCAssigned
    MaxDrift = 1

SPECIFICATION ReplaySpec

INVARIANTS
    DraftTypeOK
    EveryPrefixFolds
    RowsStayDistinct
    InversionRestores
    UndoRedoByGesture
    CommitMatchesDraft
    NoHiddenOverwrite
    DraftReplaysOnItsBase
