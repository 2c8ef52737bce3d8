SPECIFICATION SpecChildrenEnd
CONSTANTS
    MaxJobs = 2
    MaxStages = 3
    Lines <- TwoSegments
    NumPids = 3
    Codes <- TwoCodes
INVARIANTS
    TypeOK
    RowsInOrder
    DoneIsOver
PROPERTIES
    ListedTillCollected
    ChildrenCollected
    PromptReturns
