SPECIFICATION Spec
CONSTANTS
    DayLength = 2
    Horizon = 3
    MinWork = 2
    WeekOffs = {1}
    Geofenced = TRUE
    Asks <- SomeAsks
    EarlierAsks <- SomeEarlierAsks
    Windows <- SomeWindows
    Spans <- SomeSpans
    MaxSessions = 2
    MaxBreaks = 1
    MaxRecords = 1
CHECK_DEADLOCK FALSE
INVARIANTS
    EarlyEndWasAllowed
    RequestNamesItsDay
PROPERTIES
    SettledDayStays
