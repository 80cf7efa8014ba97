CONSTANTS
    Frames <- MCMixedFrames
    SizeOf <- MCShorterSizes
    TaskIdOf <- MCMixedIds
    MaxDiagramLength = 2
    Commands <- MCOneCommand
    RxThreads = {r1}
    MaxLosses = 0
    MaxDuplicates = 0
    LoggerAddress <- MCLogger
    SentDiagrams <- MCSentDiagrams
    LiveLimit = 3
    IoThreads = {i1}
    Corrupt = Corrupt
    MaxErrors = 0
SPECIFICATION FairSpec
PROPERTIES
    EventuallyLogged
