SPECIFICATION Spec
CONSTANTS
    MaxLogIndex = 3
    Sizes = {1, 3}
    ChunkBytes = 2
    BootTime = 8
    MaxTime = 11
    MaxFaults = 2
INVARIANTS
    TypeOK
    NothingIsSkipped
    StartsAgain
    LossIsBounded
PROPERTIES
    FlushedIsFound
CHECK_DEADLOCK FALSE
