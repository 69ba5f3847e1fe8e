SPECIFICATION Spec
CONSTANTS
    User = {u1, u2}
    Service = {v1}
    Custom = {0, 2000}
    MaxDelay = {10}
    Bitrate = {1000}
    Abr = {TRUE}
    Changeable = {TRUE}
INVARIANTS
    RatioInRange
    ClampOrdered
PROPERTIES
    NoBetterThanChosen
CHECK_DEADLOCK FALSE
