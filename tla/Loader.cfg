CONSTANTS
    Threads = {"ui", "worker"}
    WordSize = 4096
    DWordSize = 512
    PageSize = 64
    FileSizes = {0, 3, 40, 136}
    Offsets64 <- MCOffsets64
    Offsets32 <- MCOffsets32
    NameTables <- MCNameTables
    NameOffsets <- MCNameOffsets
    Counts = {0, 2}
    EntrySizes = {0, 40}
    WorkerReads = {100}
    MaxOpens = 2
SPECIFICATION FairSpec
INVARIANTS TypeOK NeverKilled ReadsInside EntriesInOrder
PROPERTY LoadEnds
CHECK_DEADLOCK FALSE
