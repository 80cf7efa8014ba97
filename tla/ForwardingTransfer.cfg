CONSTANTS
    Frames <- MCMixedFrames
    SizeOf <- MCMixedSizes
    TaskIdOf <- MCMixedIds
    MaxDiagramLength = 2
    Commands <- MCTwoCommands
    RxThreads = {r1, r2}
    MaxLosses = 1
    MaxDuplicates = 0
    LoggerAddress <- MCLogger
    SentDiagrams <- MCSentDiagrams
    LiveLimit = 3
    IoThreads = {i1, i2}
    Corrupt = Corrupt
    MaxErrors = 1
SPECIFICATION Spec
SYMMETRY MCThreads
INVARIANTS
    TypeOK
    MergedOnlyWhenCollected
PROPERTIES
    ImplementsTransfer
    
