SPECIFICATION Spec
CONSTANTS
    NDirect = 2
    NLevel = 1
    NPtr = 2
    NumBlocks = 4
    NumInodes = 3
    Names = {n1, n2}
    EntriesPerBlock = 2
    NumFds = 2
    Modes <- Both
    MaxWrite = 2
    MaxSize = 3
    MaxKills = 1
SYMMETRY SameNames
INVARIANTS
    TypeOK
    NoSharedBlock
    EntriesFormTree
    DirectoriesWhole
    MappedIsWritten
    NoLeak
    OpenFilesLive
PROPERTIES
    IsAFileStore
    WriteLands
CHECK_DEADLOCK FALSE
