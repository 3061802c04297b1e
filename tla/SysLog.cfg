SPECIFICATION FairLogSpec
CONSTANTS
  None = None
  Tasks <- MCTasks
  Base <- MCBase
  MaxWait = 2
  MaxDelay = 1
INVARIANTS LogTypeOK HolderBoosted BoostJustified Top LinesWhole
PROPERTIES ImplementsMutex TopServed
CHECK_DEADLOCK FALSE
