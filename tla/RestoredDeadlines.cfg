SPECIFICATION Spec
CONSTANTS
  k1 = k1
  k2 = k2
  v = v
  w = w
  Blank = Blank
  Junk = Junk
  NoVal = NoVal
  Keys <- MCOneKey
  Texts <- MCTexts
  Args <- MCArgs
  Scores <- MCOneScore
  Ttls <- MCTtls
  Writable <- MCStrings
  IntMax = 3
  Cuts <- MCCuts
  ShiftEnds = FALSE
  DBNUM = 2
  Interval = 0
  ClockStart = 4
  MaxTime = 5
  MaxItems = 2
  MaxChildren = 2
  MaxSaves = 1
  MaxSelects = 0
  MaxCrashes = 1
PROPERTIES
  RestartRestoresDeadlines
CHECK_DEADLOCK FALSE
