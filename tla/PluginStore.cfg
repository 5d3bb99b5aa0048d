SPECIFICATION FairSpec
CONSTANTS
    p1 = p1
    p2 = p2
    i1 = i1
    i2 = i2
    r1 = r1
    Processes = {p1, p2}
    Installs = {i1, i2}
    Prunes = {r1}
    Homes <- Placements
    Nobody = Nobody
    MaxAttempts = 2
    MaxCrashes = 1
    MaxInterrupts = 1
INVARIANTS
    TypeOK
    Exclusion
    WaitersFly
    LeasesAreScoped
PROPERTIES
    LeasedVariantStays
    CallsEnd
CHECK_DEADLOCK FALSE
