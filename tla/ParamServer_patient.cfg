\* An OBDH that leaves the server time to finish each command, and the TTC.
SPECIFICATION FairSpec
CONSTANTS
    Params <- MCParams
    ObdhRequests <- MCObdhRequests
    TtcRequests <- MCTtcRequests
    SensorWrites <- MCSensorWrites
    HwVersion = 1
    ResetCause = 22
    ObdhPatient = TRUE
    MaxObdh = 2
    MaxRead = 2
    MaxTtc = 2
    MaxSpare = 2
    MaxSensor = 1
CONSTRAINT TtcBeside
INVARIANTS TypeOK AnswerFresh ExactlyOnce
PROPERTIES OnlyRequestsWrite ServedSoon EventuallyServed ImplementsService
CHECK_DEADLOCK FALSE
