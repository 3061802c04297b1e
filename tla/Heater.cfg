SPECIFICATION Spec
CONSTANTS
  Temperatures <- MCTemperatures
  DutySettings <- MCSettings
INVARIANTS Regulated OnOnlyAfterCold ManualDuty
