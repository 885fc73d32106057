CONSTANTS
    MaxReports = 2
    MaxDown = 0
SPECIFICATION Spec
CHECK_DEADLOCK FALSE
PROPERTY DropsExactlyOnError
