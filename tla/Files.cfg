CONSTANTS
    Tasks = {t1, t2}
    Files = {1, 2}
    FileBlocks = {1, 4}
    BlockBits = 5
    NrImaps = 1
    NrZmaps = 2
    Inodes = 4
    Zones = 8
    FirstData = 3
    Direct = 1
    Indexes = 2
    InodeNr = 2
    MaxCrashes = 1
SYMMETRY MCSymmetry
CONSTRAINT MCNotStale
SPECIFICATION Spec
INVARIANTS
    ZonesExact
    CrashSafe
    Durable
    InodesSound
CHECK_DEADLOCK FALSE
