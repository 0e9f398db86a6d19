SPECIFICATION Spec
CONSTANTS
  NoValue = NoValue
  Ids <- MCIds
  Accounts <- MCAccounts
  Customers <- MCCustomers
  Amounts <- MCAmounts
  DUPLICATE_PCT = 2
  Records = 3
  GeneratedAt = 60
  Lists <- MCLists
  Hash <- MCHash
  NUM_PARTITIONS = 2
  RETRIES = 1
  QueueMax = 2
INVARIANT OrderPerAccount
CHECK_DEADLOCK FALSE
