SPECIFICATION Spec
CONSTANTS
  k1 = k1
  k2 = k2
  v = v
  w = w
  Blank = Blank
  Junk = Junk
  NoVal = NoVal
  Keys <- MCOneKey
  Texts <- MCTexts
  Args <- MCOneArg
  Scores <- MCScores
  Ttls <- MCTtls
  Writable <- MCObjects
  IntMax = 3
  Cuts <- MCCuts
  ShiftEnds = TRUE
  DBNUM = 2
  Interval = 0
  ClockStart = 4
  MaxTime = 5
  MaxItems = 3
  MaxChildren = 2
  MaxSaves = 2
  MaxSelects = 1
  MaxCrashes = 1
INVARIANTS
  TypeOK
  
PROPERTIES
  SelectKeeps
CHECK_DEADLOCK FALSE
