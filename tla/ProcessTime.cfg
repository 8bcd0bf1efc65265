\* The kernel stops for good when it panics, and the bound of the clock.
CHECK_DEADLOCK FALSE
CONSTANTS
    NrTasks = 5
    Minute = 11
    MinutesInHour = 2
    HoursInDay = 2
    Hz = 2
    Word = 2300
    Years = {1971, 2000, 2068}
    Days = {28, 29, 30, 31}
    Delays = {10, 21, 100}
    MaxPulses = 4
SPECIFICATION MCSpec
INVARIANTS
    TypeOK
    NoMissedExit
    FamilyTree
    AlarmRight
    SysTimeClose
PROPERTIES
    DispatchSpec
    TimeRead
