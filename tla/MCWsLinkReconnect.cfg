CONSTANTS
    MaxReports = 1
    MaxDown = 0
SPECIFICATION FairSpec
CHECK_DEADLOCK FALSE
PROPERTY Reconnects
