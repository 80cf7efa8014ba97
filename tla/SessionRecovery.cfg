CONSTANTS
    CfList <- MCCfList
    SfList <- MCOneSf
    StartTunings <- MCAtFirstPoint
    RoundRepeat = 2
    CfRepeat = 1
    TxMaxRetry = 2
    MaxFaults = 5
    FullPayload = FALSE
    Timely = TRUE
SPECIFICATION FairSpec
PROPERTIES
    LaterRoundsRecover
