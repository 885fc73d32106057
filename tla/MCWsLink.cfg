CONSTANTS
    MaxReports = 2
    MaxDown = 2
SPECIFICATION FairSpec
CHECK_DEADLOCK FALSE
INVARIANTS TypeOK NoLostWakeup FrameCurrent HandlerNeverOutlivesWsi LockScope FaultsOnlyAtEnd IInv
PROPERTIES ReportServed MessageTaken JoinReturns
