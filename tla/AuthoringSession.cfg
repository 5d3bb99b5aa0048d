SPECIFICATION Spec
CONSTANTS
    Callers = {c1,c2}
    Tables = {t1}
    Values = {v1,v2}
    Nobody = Nobody
    MaxOperations = 3
    MaxCommands = 1
    MaxFaults = 1
    MaxCrashes = 1
    MaxOutside = 1
    MaxRestarts = 1
    MaxApplyResults = 1
    MaxSavePaths = 1
INVARIANTS
    TypeOK
    AtMostOnce
    ReceiptsAreTrue
    CommitsAreRecorded
    SessionInv
SYMMETRY Alike
CHECK_DEADLOCK FALSE
