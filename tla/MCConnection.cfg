SPECIFICATION Spec
CONSTANTS
    Displays = {0, 1}
    PRIMARY_DISPLAY_IDX = 0
INVARIANTS
    NothingForbidden
    NothingMissing
    CameraHearsCalls
CHECK_DEADLOCK FALSE
