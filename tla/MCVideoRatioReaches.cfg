SPECIFICATION FairSpec
CONSTANTS
    User = {u1}
    Service = {v1, v2}
    Custom = {0, 2000}
    MaxDelay = {700}
    Bitrate = {1000}
    Abr = {FALSE}
    Changeable = {TRUE, FALSE}
PROPERTIES
    QualityReachesEncoder
CHECK_DEADLOCK FALSE
