SPECIFICATION Spec
CONSTANTS
    MaxJobs = 2
    MaxStages = 2
    Lines <- OneSegment
    NumPids = 3
    Codes <- TwoCodes
PROPERTIES
    StatusOfLast
