SPECIFICATION FairSpec
CONSTANTS
  NoValue = NoValue
  Ids <- MCIds
  Accounts <- MCAccounts
  Customers <- MCCustomers
  Amounts <- MCAmounts
  DUPLICATE_PCT = 50
  Records = 2
  GeneratedAt = 60
  Lists <- MCListsWithCopy
  Hash <- MCHash
  NUM_PARTITIONS = 2
  RETRIES = 1
  QueueMax = 2
INVARIANTS TypeOK NoneForgotten CopiesAreBounded NotOvertaken DuplicatesShareAPartition
PROPERTY ProducerEnds
CHECK_DEADLOCK FALSE
