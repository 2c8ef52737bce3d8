SPECIFICATION Spec
CONSTANTS
    NumUnits = 6
    Reserved <- MetadataUnits
    InitCount = 4
    MaxFaults = 3
INVARIANTS
    TypeOK
    Accounted
    CountsFollowBitmap
    LossBounded
    FreeNeverRefused
    CopiesClose
