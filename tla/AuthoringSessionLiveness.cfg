SPECIFICATION FairSpec
CONSTANTS
    Callers = {c1}
    Tables = {t1,t2}
    Values = {v1,v2}
    Nobody = Nobody
    MaxOperations = 2
    MaxCommands = 2
    MaxFaults = 1
    MaxCrashes = 1
    MaxOutside = 0
    MaxRestarts = 0
    MaxApplyResults = 2
    MaxSavePaths = 1
PROPERTIES
    ExecutedApplyIsRecorded
    IndeterminateSaveEnds
CHECK_DEADLOCK FALSE
