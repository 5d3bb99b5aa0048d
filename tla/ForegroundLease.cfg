SPECIFICATION FairSpec
CONSTANTS
    Holds = {h1}
    Ttl = 8
    Second = 1
    MaxDelay = 1
    MaxLeases = 2
    MaxFaults = 3
    MaxCloses = 1
    MaxRestarts = 1
INVARIANTS
    LeaseTypeOK
    OneLostRenewalIsSurvived
    HeldIsRecent
    ExtraLeasesAreUnheard
PROPERTIES
    HoldRecovers
