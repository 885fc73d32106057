CONSTANTS
    nChNum = 2
    NameMax = 3
    IdMax = 1
    KindMax = 3
    TimeMax = 1
    KksMax = 1
    RefMax = 3
    VtypeMax = 6
    ValMax = 6
    DbufSize = 1600
    Points <- MCPoints
    Info <- MCInfo
    Readings <- MCReadings
    Clock = {3, 4}
    ULONG = 16
    Junk <- MCJunk
    MaxNodes = 20
    MaxMallocs = 60
SPECIFICATION Spec
CHECK_DEADLOCK FALSE
INVARIANTS TypeOK FrameMeansReport NothingLeaks TableIntact
PROPERTIES TableShown ImplementsParts
