SPECIFICATION Spec
CONSTANTS
  Dates <- MCDates
  RETRIES = 2
  MaxRuns = 1
INVARIANT AlertOnlyOnGateFailure
CHECK_DEADLOCK FALSE
