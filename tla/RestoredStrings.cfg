SPECIFICATION Spec
CONSTANTS
  k1 = k1
  k2 = k2
  v = v
  w = w
  Blank = Blank
  Junk = Junk
  NoVal = NoVal
  Keys <- MCOneKey
  Texts <- MCTexts
  Args <- MCArgs
  Scores <- MCOneScore
  Ttls = {}
  Writable <- MCStrings
  IntMax = 3
  Cuts <- MCCuts
  ShiftEnds = FALSE
  DBNUM = 2
  Interval = 0
  ClockStart = 4
  MaxTime = 6
  MaxItems = 2
  MaxChildren = 1
  MaxSaves = 3
  MaxSelects = 0
  MaxCrashes = 1
PROPERTIES
  RestartRestoresStrings
CHECK_DEADLOCK FALSE
