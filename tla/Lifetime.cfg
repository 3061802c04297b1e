SPECIFICATION Spec
CONSTANTS
  configTICK_RATE_HZ = 10
  TASK_WATCHDOG_RESET_PERIOD_MS = 200
  TASK_SYSTEM_RESET_PERIOD_MS = 1500
  WdtTicks = 6
  Bursts <- MCBursts
  Loads <- MCLoads
  Hangs <- MCHangs
INVARIANTS BiteOnlyHung HangShort RestartsWhenDue
