\* Elections of three servers: kills, restarts and late calls; no client command.
SPECIFICATION Spec
CONSTANTS
    s1 = s1
    s2 = s2
    s3 = s3
    c1 = c1
    Server <- Servers3
    Command = {}
    NoHost = NoHost
    NoEntry = NoEntry
    Memory = {NoEntry}
    NoRequest = NoRequest
    MaxTerm = 2
    MaxLogIndex = 0
    MaxLate = 1
    MaxFaults = 2
SYMMETRY Symmetric
INVARIANTS
    OneVotePerTerm
    UniqueWinners
PROPERTIES
    CampaignsInNewTerms
    ImplementsVoting
CHECK_DEADLOCK FALSE
