CONSTANTS
    CfList <- MCCfList
    SfList <- MCTwoSf
    StartTunings <- MCAtFirstPoint
    RoundRepeat = 2
    CfRepeat = 2
    TxMaxRetry = 3
    MaxFaults = 6
    FullPayload = TRUE
    Timely = TRUE
SPECIFICATION FairSpec
PROPERTIES
    SurvivesLosses
    LaterRoundsRecover
