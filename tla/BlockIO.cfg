CONSTANTS
    NrTasks = 4
    Disks = {master, slave}
    master = master
    slave = slave
    Parts <- MCParts
    Sectors = {0, 1}
    MaxCount = 2
SPECIFICATION Spec
INVARIANTS
    ListSound
    Progress
PROPERTIES
    Elevator
    LockSpec
