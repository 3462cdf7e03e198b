SPECIFICATION Spec
CONSTANTS
  k1 = k1
  k2 = k2
  v = v
  w = w
  Blank = Blank
  Junk = Junk
  NoVal = NoVal
  Keys <- MCKeys
  Texts <- MCTexts
  Args <- MCOneArg
  Scores <- MCOneScore
  Ttls <- MCFar
  Writable <- MCStrings
  IntMax = 3
  Cuts <- MCCuts
  ShiftEnds = TRUE
  DBNUM = 2
  Interval = 0
  ClockStart = 4
  MaxTime = 4
  MaxItems = 2
  MaxChildren = 2
  MaxSaves = 2
  MaxSelects = 2
  MaxCrashes = 1
SYMMETRY MCKeySymmetry
INVARIANTS
  StringsWereSet
  DeadlinesWereGiven
PROPERTIES
  OnlySelectedChanges
CHECK_DEADLOCK FALSE
