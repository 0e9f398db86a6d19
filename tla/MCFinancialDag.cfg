SPECIFICATION FairSpec
CONSTANTS
  Dates <- MCDates
  RETRIES = 2
  MaxRuns = 2
INVARIANTS TypeOK GoldBehindGate StepsExcludeEachOther CompleteIsAllOrNothing
PROPERTY EveryRunEnds
CHECK_DEADLOCK FALSE
