SPECIFICATION Spec
CONSTANTS
  Null = Null
  Text <- MCText
  VELOCITY_TX = 2
  Pool <- MCPool
  ProcessDates <- MCDates
  CustomerDim <- MCCustomers
  MaxChanges = 1
INVARIANTS TypeOK VelocityIsABurst SmallSamplesAreNotFlagged RecencyIsInverted TablesReconcile
PROPERTY OnlyTiesMove
