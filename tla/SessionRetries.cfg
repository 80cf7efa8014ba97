CONSTANTS
    CfList <- MCCfList
    SfList <- MCOneSf
    StartTunings <- MCOutside
    RoundRepeat = 1
    CfRepeat = 1
    TxMaxRetry = 2
    MaxFaults = 1
    FullPayload = FALSE
    Timely = FALSE
SPECIFICATION Spec
INVARIANTS
    TypeOK
    ConfirmedHopIsShared
    MeasuringAtPoint
PROPERTIES
    MeasuredWhereClaimed
