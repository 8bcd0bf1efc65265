CONSTANTS
    NrTasks = 5
    MaxDepth = 2
    MapPages = 3
    MaxCount = 3
    Classes = {"c1024", "c512"}
    TotalBlock <- MCTotalBlock
    Width = 2
    Height = 2
    MemRows = 4
    TabStop = 2
    MaxArgs = 2
    MaxArg = 2
    Chars = {"c", "BS", "HT", "LF", "VT", "CR", "DEL", "ESC", "[", "?", ";", "1", "2", "7", "8", "A", "B", "C", "D", "E", "F", "G", "H", "J", "K", "L", "M", "P", "@", "d", "s", "u"}
    Blank = "blank"
    Mark = "mark"
SPECIFICATION MCSpec
INVARIANTS
    TypeOK
    Exclusive
    QueueSound
    NoLostWakeup
    HeapExact
    FirstFit
    CursorSound
PROPERTY ScreenSpec
