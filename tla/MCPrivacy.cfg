SPECIFICATION PrivacySpec
CONSTANTS
    Conn = {c1, c2}
    NoConn = noconn
    Amyuni = TRUE
    MaxFaults = 3
SYMMETRY Symmetry
INVARIANTS
    NoGhostHolds
    CoveredIsHeld
PROPERTIES
    OnlyOwnMode
