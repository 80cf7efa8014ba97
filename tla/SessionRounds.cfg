CONSTANTS
    CfList <- MCCfList
    SfList <- MCTwoSf
    StartTunings <- MCAtFirstPoint
    RoundRepeat = 2
    CfRepeat = 2
    TxMaxRetry = 1
    MaxFaults = 0
    FullPayload = FALSE
    Timely = FALSE
SPECIFICATION FairSpec
INVARIANTS
    ConfirmedHopIsShared
PROPERTIES
    ImplementsCampaign
    JobTerminates
