CONSTANTS
    nChNum = 2
    kind = "CUR"
    val_type <- MCTypes
    io <- MCPorts
    Value <- MCValue
    Zero = Zero
    MinusOne = Zero
    NaN = NaN
    None = None
    V1 = V1
    MaxWrites = 1
    MaxReports = 2
    MaxDown = 0
SPECIFICATION FairSpec
CHECK_DEADLOCK FALSE
INVARIANTS LastReportDelivered
PROPERTIES ImplementsMonitoring LastReportArrives
