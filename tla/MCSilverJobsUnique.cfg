SPECIFICATION Spec
CONSTANTS
  Null = Null
  Malformed = Malformed
  Text <- MCText
  Trim <- MCTrim
  Upper <- MCUpper
  Lower <- MCLower
  DQ_PASS_RATE_PCT = 99
  Times <- MCTimes
  Payloads <- MCPayloads
  CustomerDim <- MCCustomers
  MaxRows = 2
  MaxBatch = 2
  MaxJobs = 3
INVARIANT UniqueTransactions
CHECK_DEADLOCK FALSE
