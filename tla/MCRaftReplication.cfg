\* Two servers that are killed, shut down and restarted, with late and failed calls.
SPECIFICATION Spec
CONSTANTS
    s1 = s1
    s2 = s2
    s3 = s3
    c1 = c1
    Server <- Servers2
    Command = {c1}
    NoHost = NoHost
    NoEntry = NoEntry
    Memory <- OneStaleEntry
    NoRequest = NoRequest
    MaxTerm = 2
    MaxLogIndex = 1
    MaxLate = 1
    MaxFaults = 2
INVARIANTS
    TypeOK
    AppliedIsSaved
CHECK_DEADLOCK FALSE
