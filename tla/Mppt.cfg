SPECIFICATION FairSpec
CONSTANTS
  MPPT_DUTY_CYCLE_INIT = 2
  MPPT_MAX_DUTY_CYCLE = 4
  DutySettings <- MCSettings
  Lights <- DayLights
  FirstLight = "noon"
  Power <- HillPower
  MaxCommands = 2
  MaxLights = 1
INVARIANTS TypeOK OutputBounded
PROPERTIES ManualApplied TracksOrStops HoldsCourse
