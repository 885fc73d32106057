CONSTANTS
    MaxReports = 2
    MaxDown = 1
SPECIFICATION Spec
CHECK_DEADLOCK FALSE
INVARIANT FrameIntact
