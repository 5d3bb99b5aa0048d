SPECIFICATION FairSpec
CONSTANTS
    Clients = {workbench, cli}
    RunIds = {r1, r2, r3, r4, r5}
    SessionIds = {s1, s2, s3, s4, s5, s6}
    NoId = NoId
    WaitAt = 1
    WaitTimeout = 0
    Duration = 2
    MaxEvents = 2
    MaxFaults = 1
INVARIANTS
    ScenarioTypeOK
    InputIsGivenBack
    RunKeepsItsSession
    CancellationIsTerminal
PROPERTIES
    RunsEnd
CHECK_DEADLOCK FALSE
