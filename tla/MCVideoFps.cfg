SPECIFICATION FairSpec
CONSTANTS
    User = {u1, u2}
    MaxShared = 2
    Delay = {10, 1000}
    Good = {10}
    Wanted = {5, 60}
    Quality = {"balanced"}
    WINDOW_SAMPLES = 3
    MIN_SAMPLES = 2
CONSTRAINT Bounded
INVARIANTS
    FpsInRange
    SlowestUserRules
    DelayedUserHoldsBack
PROPERTIES
    Recovers
CHECK_DEADLOCK FALSE
