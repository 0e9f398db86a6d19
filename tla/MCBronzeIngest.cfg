SPECIFICATION FairSpec
CONSTANTS
  Partition <- MCPartition
  StartingOffsets = "latest"
  MaxOffsetsPerTrigger = 1
  MaxRecords = 2
  MaxCrashes = 2
  NoBatch = NoBatch
INVARIANTS TypeOK ExactlyOnceInOrder NoGap
PROPERTIES LedgerSpec RecordsArrive
CHECK_DEADLOCK FALSE
