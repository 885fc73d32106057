CONSTANTS
    nChNum = 3
    kind = "CUR"
    val_type <- MCTypes
    io <- MCPortsOneBad
    Value <- MCValue
    Zero = Zero
    MinusOne = Zero
    NaN = NaN
    None = None
SPECIFICATION FairSpec
INVARIANTS TypeOK DirtyExact Fresh FirstReportComplete UnstampedFirst IInv
PROPERTIES ReportsChange SettledReported
