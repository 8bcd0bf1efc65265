CONSTANTS
    NrTasks = 4
    Priority <- MCPriority
    Millis <- MCMillis
    Jiffy = 10
    MaxJiffies = 5
SPECIFICATION FairSpec
INVARIANTS
    TypeOK
    SleepSound
    SliceBounded
PROPERTIES
    WokenOnTime
    DispatchSpec
    SleeperWakes
