CONSTANTS
    Frames <- MCTwoFrames
    SizeOf <- MCTwoSizes
    TaskIdOf <- MCTwoIds
    MaxDiagramLength = 2
    Commands <- MCBadPort
    RxThreads = {r1}
    MaxLosses = 0
    MaxDuplicates = 0
    LoggerAddress <- MCLogger
    SentDiagrams <- MCSentDiagrams
    LiveLimit = 4
    IoThreads = {i1}
    Corrupt = Corrupt
    MaxErrors = 0
SPECIFICATION Spec
PROPERTIES
    DestinationWasSpecifiedAtRest
