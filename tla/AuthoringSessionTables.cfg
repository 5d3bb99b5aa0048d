SPECIFICATION Spec
CONSTANTS
    Callers = {c1}
    Tables = {t1,t2}
    Values = {v1,v2}
    Nobody = Nobody
    MaxOperations = 2
    MaxCommands = 2
    MaxFaults = 1
    MaxCrashes = 0
    MaxOutside = 1
    MaxRestarts = 1
    MaxApplyResults = 2
    MaxSavePaths = 2
INVARIANTS
    UnsavedIsTracked
    PendingApplyIsTheDraft
    SavedTablesAreOnDiskUnlessRestarted
PROPERTIES
    EditorAdoptsWholeDraft
    ImplementsPipeline
CHECK_DEADLOCK FALSE
