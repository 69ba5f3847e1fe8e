SPECIFICATION MediatorFairSpec
CONSTANTS
    Requests = {r1, r2}
    Addrs = {a1}
    NoAddr = noaddr
    MaxSettings = 2
    MaxFails = 1
INVARIANTS
    AskedIsServed
PROPERTIES
    OptionsTakeEffect
    StoppedMeansAlone
CHECK_DEADLOCK FALSE
