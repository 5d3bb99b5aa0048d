SPECIFICATION Spec
CONSTANTS
    Callers = {c1}
    Tables = {t1}
    Values = {v1,v2}
    Nobody = Nobody
    MaxOperations = 2
    MaxCommands = 1
    MaxFaults = 0
    MaxCrashes = 0
    MaxOutside = 0
    MaxRestarts = 1
    MaxApplyResults = 2
    MaxSavePaths = 1
INVARIANT SavedTablesAreOnDisk
CHECK_DEADLOCK FALSE
