\* Three map and two reduce tasks, three workers of which two may crash.
SPECIFICATION FairSpec
CONSTANTS
    w1 = w1
    w2 = w2
    w3 = w3
    Worker <- Workers3
    NumMap = 3
    NumReduce = 2
    MaxSlow = 1
    MaxCrashes = 2
INVARIANTS
    TypeOK
    NoTaskLost
    OnlyFinishedCounts
    CrashesDoNoHarm
PROPERTIES
    JobEnds
CHECK_DEADLOCK FALSE
