SPECIFICATION Spec
CONSTANTS
  Tasks <- MCTasks
  Priority <- MCPriority
  Channels <- MCChannels
  ConversionDelay = 2
  SlowestConversion = 1
INVARIANTS TypeOK 
