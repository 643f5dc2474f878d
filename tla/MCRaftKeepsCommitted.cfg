\* A late heartbeat deletes entries the follower has committed.
SPECIFICATION Spec
CONSTANTS
    s1 = s1
    s2 = s2
    s3 = s3
    c1 = c1
    Server <- Servers2
    Command = {c1}
    NoHost = NoHost
    NoEntry = NoEntry
    Memory = {NoEntry}
    NoRequest = NoRequest
    MaxTerm = 1
    MaxLogIndex = 2
    MaxLate = 1
    MaxFaults = 0
INVARIANTS
    KeepsCommitted
CHECK_DEADLOCK FALSE
