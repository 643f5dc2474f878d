SPECIFICATION FairSpec
CONSTANTS
    Peer = {p1, p2}
    MaxLogs = 2
    MaxElections = 1
    MaxFailures = 1
INVARIANTS
    TypeOK
    SleepsOnWorkIfMissed
    IdleUnlessMissed
PROPERTIES
    StartedIsSent
    CommittedIsApplied
    ThreadsExit
CHECK_DEADLOCK FALSE
