\* Three servers replicate two commands in the first term.
SPECIFICATION SpecElected
CONSTANTS
    s1 = s1
    s2 = s2
    s3 = s3
    c1 = c1
    Server <- Servers3
    Command = {c1}
    NoHost = NoHost
    NoEntry = NoEntry
    Memory = {NoEntry}
    NoRequest = NoRequest
    MaxTerm = 1
    MaxLogIndex = 2
    MaxLate = 0
    MaxFaults = 0
SYMMETRY Followers
PROPERTIES
    CommitsWithMajority
CHECK_DEADLOCK FALSE
