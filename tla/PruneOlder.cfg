SPECIFICATION Spec
CONSTANTS
    Dates <- MCDates
    Yday <- MCYday
    Mon <- MCMon
    Year <- MCYear
    LocalTime <- MCLocalTime
    Now = 7
    Extents = {3}
    Forever = 100
    MaxSaves = 3
CHECK_DEADLOCK FALSE
INVARIANTS
    NewestOfUnitKept
    DroppedIsCovered
    RemovesWhatWasListed
