SPECIFICATION Spec
CONSTANTS
    t1 = t1
    t2 = t2
    Elsewhere = Elsewhere
    Gid = {1, 2, 3}
    NumShards = 4
    Thread <- TwoThreads
    Command <- Commands5
    MaxLog = 4
    MaxChanges = 1
SYMMETRY Symmetry
INVARIANTS
    AnswerWillCome
    OneWaiter
    ReadsAreFresh
PROPERTIES
    StaysWhole
    JoinsLevel
CHECK_DEADLOCK FALSE
