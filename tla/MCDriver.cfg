SPECIFICATION Spec
CONSTANTS
    t1 = t1
    t2 = t2
    Tasks = {t1, t2}
    Files = {f1}
    Bytes <- Bits
    InitSize = 1
    MaxSize = 2
    CountMod = 2
    Requests <- Few
INVARIANTS
    TypeOK
    CopyInBuffer
    UsedIsLoaded
    OutIsClean
PROPERTIES
    IsADevice
    CallsReturn
