SPECIFICATION LedSpec
CONSTANTS
    c1 = c1
    c2 = c2
    k = k
    v = v
    blank = blank
    NoValue = NoValue
    NumServers = 2
    Clerk <- Clerks
    Key = {k}
    Value <- Values
    FirstWord <- Words
    Command <- Commands
    MaxCalls = 3
    MaxTerm = 2
    MaxFaults = 1
SYMMETRY Symmetry
INVARIANTS
    PromiseIsKept
    RepliesMatch
PROPERTIES
    TermTellsOwner
    ImplementsStore
CHECK_DEADLOCK FALSE
