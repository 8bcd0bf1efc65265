CONSTANTS
    Tasks = {t1, t2, t3}
    Blocks = {1, 2, 3}
    Shared = {3}
    Values = {a, b}
    Junk = "junk"
    Closed = Closed
    MemSize = 8
    HeaderSize = 3
    BlockSize = 1
SYMMETRY MCSymmetry
SPECIFICATION CacheSpec
INVARIANTS
    BuffersSound
    NoBufferIdle
PROPERTIES StoreSpec
CHECK_DEADLOCK FALSE
