SPECIFICATION Spec
CONSTANTS
    N = 2
    Blocks <- TwoFiles
    None = None
    MaxVersion = 1
    MaxJobs = 3
    MaxFaults = 0
INVARIANTS
    IgnoringIsHarmless
CHECK_DEADLOCK FALSE
