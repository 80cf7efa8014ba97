CONSTANTS
    DefaultStep = 2
    ArbitraryRates = TRUE
    SplitParts = 1
    DefaultChannels <- MCChannels
    HomeTuning <- MCHome
    Jobs <- MCJobs
SPECIFICATION Spec
INVARIANTS
    TypeOK
    ScanIsRange
    InjectsThePlan
    InjectionsAsAsked
PROPERTIES
    JobEnds
    EveryChannelVisited
