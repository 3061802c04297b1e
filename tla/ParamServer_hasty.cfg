\* The OBDH alone, sending and reading whenever it likes.
SPECIFICATION Spec
CONSTANTS
    Params <- HastyParams
    ObdhRequests <- HastyRequests
    TtcRequests <- NoRequests
    SensorWrites <- HastyWrites
    HwVersion = 1
    ResetCause = 22
    ObdhPatient = FALSE
    MaxObdh = 2
    MaxRead = 1
    MaxTtc = 0
    MaxSpare = 0
    MaxSensor = 1
INVARIANTS PiecesSent WholeUnlessStoring
CHECK_DEADLOCK FALSE
