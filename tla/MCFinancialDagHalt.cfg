SPECIFICATION Spec
CONSTANTS
  Dates <- MCDates
  RETRIES = 2
  MaxRuns = 1
INVARIANT FailedChecksReachTheGate
CHECK_DEADLOCK FALSE
