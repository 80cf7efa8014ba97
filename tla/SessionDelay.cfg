CONSTANTS
    CfList <- MCCfList
    SfList <- MCOneSf
    StartTunings <- MCAtFirstPoint
    RoundRepeat = 1
    CfRepeat = 1
    TxMaxRetry = 2
    MaxFaults = 0
    FullPayload = FALSE
    Timely = FALSE
SPECIFICATION Spec
PROPERTIES
    DelayIsRoundTrip
