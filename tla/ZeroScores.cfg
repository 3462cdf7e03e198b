SPECIFICATION Spec
CONSTANTS
  k1 = k1
  k2 = k2
  v = v
  w = w
  Blank = Blank
  Junk = Junk
  NoVal = NoVal
  Keys <- MCOneKey
  Texts <- MCTexts
  Args <- MCOneArg
  Scores <- MCZero
  Ttls = {}
  Writable <- MCZsets
  IntMax = 3
  Cuts <- MCCuts
  ShiftEnds = FALSE
  DBNUM = 2
  Interval = 0
  ClockStart = 4
  MaxTime = 5
  MaxItems = 1
  MaxChildren = 1
  MaxSaves = 1
  MaxSelects = 0
  MaxCrashes = 1
INVARIANTS
  DumpsLoad
CHECK_DEADLOCK FALSE
