SPECIFICATION FairSpec
CONSTANTS
  Lens <- MCLens
  IntMax = 3
  ReadMax = 2
  WriteMax = 2
  MaxSent = 5
  MaxOps = 3
  BusFails = TRUE
CHECK_DEADLOCK FALSE
INVARIANTS TypeOK ReadInOrder WriteInOrder ShortMeansEnd NegativeOnlyIfNothingRead
PROPERTY OperationReturns
