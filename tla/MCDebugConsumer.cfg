SPECIFICATION FairSpec
CONSTANTS
  c1 = c1
  c2 = c2
  Consumer = {c1, c2}
  MaxMessages <- MCMaxMessages
  Partition = {1, 2}
  Content <- MCContent
  MaxStarts = 3
INVARIANTS TypeOK NoneSkipped
PROPERTIES CommitsMoveForward StayingReadsAll
CHECK_DEADLOCK FALSE
