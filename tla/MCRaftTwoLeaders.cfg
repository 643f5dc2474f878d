\* A candidate takes office after its term, beside the leader of the new term.
SPECIFICATION Spec
CONSTANTS
    s1 = s1
    s2 = s2
    s3 = s3
    c1 = c1
    Server <- Servers3
    Command = {}
    NoHost = NoHost
    NoEntry = NoEntry
    Memory = {NoEntry}
    NoRequest = NoRequest
    MaxTerm = 2
    MaxLogIndex = 0
    MaxLate = 0
    MaxFaults = 0
INVARIANTS
    OneLeaderPerTerm
CHECK_DEADLOCK FALSE
