\* A TTC read.
SPECIFICATION FairSpec
CONSTANTS
    Params <- MCParams
    ObdhRequests <- NoRequests
    TtcRequests <- OneRequest
    SensorWrites <- NoWrites
    HwVersion = 1
    ResetCause = 22
    ObdhPatient = TRUE
    MaxObdh = 0
    MaxRead = 0
    MaxTtc = 2
    MaxSpare = 3
    MaxSensor = 0
PROPERTIES TtcReadsAnswered
CHECK_DEADLOCK FALSE
