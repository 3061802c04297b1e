SPECIFICATION Spec
CONSTANTS
  configTICK_RATE_HZ = 1000
  TASK_WATCHDOG_RESET_PERIOD_MS = 100
  TASK_SYSTEM_RESET_PERIOD_MS = 36000000
  WdtTicks = 1000
  Bursts <- MCBursts
  Loads <- MCLoads
  Hangs <- MCHangs
INVARIANTS RestartsEveryPeriod
