SPECIFICATION FairSpec
CONSTANTS
    N = 2
    Blocks <- TwoFiles
    None = None
    MaxVersion = 2
    MaxJobs = 2
    MaxFaults = 1
INVARIANTS
    DoneMeansDelivered
    DigestTells
    AgreedBeforeSent
    NobodyWaitsInVain
PROPERTIES
    ImplementsFileCopy
    JobEnds
    ReadJobsEnd
CHECK_DEADLOCK FALSE
