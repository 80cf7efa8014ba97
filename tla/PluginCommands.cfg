CONSTANTS
    DefaultStep = 1
    ArbitraryRates = TRUE
    SplitParts = 1
    DefaultChannels <- MCChannels
    HomeTuning <- MCHome
    DefaultRepeat = 1
    Commands <- MCCommands
    Requests <- MCRequests
    MaxCommands = 3
    MaxFrames = 2
SPECIFICATION Spec
INVARIANTS
    TypeOK
    ServicesFollowMode
    AnswersAsAsked
PROPERTIES
    HandledAsCommanded
    InjectsAtPoint
    CommandsReturn
CHECK_DEADLOCK FALSE
