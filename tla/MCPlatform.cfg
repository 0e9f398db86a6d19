SPECIFICATION Spec
CONSTANTS
  Dates <- MCDates
  Times <- MCTimes
  RETRIES = 0
  MaxRuns = 2
  MaxRows = 2
INVARIANTS TypeOK ScheduledRunsSkipGold NoGoldForAnEmptyDate GoldIsNeverComplete GoldTablesAgree
PROPERTY MedallionSpec
CHECK_DEADLOCK FALSE
