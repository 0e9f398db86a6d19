SPECIFICATION Spec
CONSTANTS
  Partition <- MCPartition
  StartingOffsets = "latest"
  MaxOffsetsPerTrigger = 1
  MaxRecords = 2
  MaxCrashes = 2
  NoBatch = NoBatch
INVARIANT FullAuditTrail
CHECK_DEADLOCK FALSE
