SPECIFICATION FairSpec
CONSTANTS
    Callers = {c1}
    Tables = {t1}
    Values = {v1,v2}
    Nobody = Nobody
    MaxOperations = 2
    MaxCommands = 1
    MaxFaults = 0
    MaxCrashes = 1
    MaxOutside = 0
    MaxRestarts = 0
    MaxApplyResults = 2
    MaxSavePaths = 1
PROPERTY PendingSaveEnds
CHECK_DEADLOCK FALSE
