SPECIFICATION FairSpec
CONSTANTS
    Conn = {c1, c2}
    Displays = {d1, d2}
    Empty = empty
INVARIANTS
    SyncedMeansTold
    HandoverNeedsDeparture
PROPERTIES
    TheRestIsTold
CHECK_DEADLOCK FALSE
