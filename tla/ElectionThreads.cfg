SPECIFICATION FairSpec
CONSTANTS
    Peer = {p1, p2}
    MaxCampaigns = 3
    MaxTurns = 2
INVARIANTS
    TypeOK
    StateHasItsThread
    SleepersAreWoken
PROPERTIES
    ElectionsEnd
    ThreadsEnd
CHECK_DEADLOCK FALSE
