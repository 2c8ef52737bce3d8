SPECIFICATION Spec
CONSTANTS
    NDirect = 1
    NLevel = 3
    NPtr = 2
    NumBlocks = 16
    NumInodes = 2
    Names = {n1}
    EntriesPerBlock = 3
    NumFds = 1
    Modes <- Cli
    MaxWrite = 3
    MaxSize = 8
    MaxKills = 1
INVARIANTS
    NoLeak
    LinkedIsMarked
    BlocksApart
    NoSharedBlock
    NoHoles
    PointersInitialised
PROPERTIES
    CallsEnd
    WriteLands
CHECK_DEADLOCK FALSE
