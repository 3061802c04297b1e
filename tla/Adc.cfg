SPECIFICATION Spec
CONSTANTS
  Tasks <- MCTasks
  Ports <- MCPorts
  ADC_MUTEX_WAIT_TIME_MS = 3
  ADC_TIMOUT_MS = 3
  ConversionTimes <- MCConversionTimes
  ReadsPerPeriod = 2
INVARIANTS TypeOK Exclusive OwnResult
PROPERTY ImplementsMutex
