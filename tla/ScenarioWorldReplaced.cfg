SPECIFICATION FairSpec
CONSTANTS
    Clients = {workbench, cli}
    RunIds = {r1, r2, r3, r4, r5}
    SessionIds = {s1, s2, s3, s4, s5, s6}
    NoId = NoId
    WaitAt = 1
    WaitTimeout = 1
    Duration = 2
    MaxEvents = 1
    MaxFaults = 0
PROPERTIES
    ReplacedWorldEndsRun
CHECK_DEADLOCK FALSE
