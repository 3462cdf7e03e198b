SPECIFICATION Spec
CONSTANTS
  Bytes <- MCBytes
  Zero = 0
  KCheapPrepend = 1
  KInitialSize = 2
  Extra = 2
  Chunks <- MCChunks
  MaxSize = 7
INVARIANTS
  TypeOK
  AssertsHold
  EmptyIsReset
PROPERTIES
  GrowthIsNeeded
  RefinesByteQueue
CHECK_DEADLOCK FALSE
