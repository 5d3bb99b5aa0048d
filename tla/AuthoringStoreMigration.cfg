SPECIFICATION Spec
CONSTANTS
    e1 = e1
    e2 = e2
    r1 = r1
    b1 = b1
    d1 = d1
    workbench = workbench
    cli = cli
    Tasks = {e1, e2, r1, b1, d1}
    Processes = {workbench, cli}
    Setups <- MigrationSetups
    MaxCrashes = 0
INVARIANT
    ConfirmedEditsSurvive
