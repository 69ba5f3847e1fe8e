SPECIFICATION FairSpec
CONSTANTS
    Conn = {c1, c2}
    NeedSnapshot = TRUE
INVARIANTS
    SubscribeNeverLost
    UnsubscribeLostOnlyByStraddle
PROPERTIES
    ImplementsPubSub
    JoinReturns
    NewSubscriberServed
CHECK_DEADLOCK FALSE
