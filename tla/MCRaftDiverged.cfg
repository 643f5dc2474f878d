\* Two servers whose logs have parted, through a fourth term.
SPECIFICATION SpecDiverged
CONSTANTS
    s1 = s1
    s2 = s2
    s3 = s3
    c1 = c1
    Server <- Servers2
    Command = {c1}
    NoHost = NoHost
    NoEntry = NoEntry
    Memory <- OneStaleEntry
    NoRequest = NoRequest
    MaxTerm = 4
    MaxLogIndex = 3
    MaxLate = 0
    MaxFaults = 1
INVARIANTS
    AppliesOnlyCommitted
PROPERTIES
    LeaderAppendOnly
    AckMeansStored
CHECK_DEADLOCK FALSE
