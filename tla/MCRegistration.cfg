SPECIFICATION FairSpec
CONSTANTS
    Ids = {a, b}
    RootId = a
    OwnPk = own
    RootPk = root
    Foreign = foreign
    NoPk = nopk
    Forgotten = forgotten
    REG_INTERVAL = 2
    MIN_REG_TIMEOUT = 2
    DNS_INTERVAL = 1
    KeepAlives = {1}
    DEFAULT_KEEP_ALIVE = 1
    MaxNet = 1
    MaxFaults = 1
    MaxEdits = 1
INVARIANTS
    ConfirmedMeansRegistered
    ShownOnlineIsRecent
PROPERTIES
    RegisteredInTheEnd
CHECK_DEADLOCK FALSE
