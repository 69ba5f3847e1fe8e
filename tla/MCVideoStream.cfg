SPECIFICATION FairSpec
CONSTANTS
    Conn = {c1, w}
    Web = {w}
    WaitRounds = 1
    MaxPending = 2
    MAX_FAIL_TIMES = 2
INVARIANTS
    BlindOnlyAfterHandover
    OneFrameUnderWay
PROPERTIES
    RefreshMakesKeyFrame
    WaitEnds
    RefreshTakenUp
CHECK_DEADLOCK FALSE
