CONSTANTS
    Minute = 11
    MinutesInHour = 2
    HoursInDay = 2
    Hz = 2
    Word = 2300
    Years = {1971, 2000, 2068}
    Days = {28, 29, 30, 31}
    Delays = {10, 21, 100}
    MaxPulses = 4
SPECIFICATION TimeSpec
PROPERTIES TmAsDocumented
CHECK_DEADLOCK FALSE
