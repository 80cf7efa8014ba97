CONSTANTS
    DefaultStep = 2
    ArbitraryRates = TRUE
    SplitParts = 2
    DefaultChannels <- MCChannels
    HomeTuning <- MCHome
    Jobs <- MCJobs
SPECIFICATION Spec
INVARIANTS
    InjectionsAsAsked
