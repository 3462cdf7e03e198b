CONSTANTS
  k = k
  m1 = m1
  m2 = m2
  a1 = a1
  a2 = a2
  a3 = a3
  a4 = a4
  Keys = {k}
  Texts <- MCTexts
  Blank = m1
  Scores = {1, 2}
  NoVal = NoVal
  Addr <- MCAddr
  head = head
  Null = Null
  MaxLevel = 2
  Ranges <- MCRanges
SPECIFICATION Spec
SYMMETRY MCSymmetry
INVARIANTS TypeOK SpansCount BackwardMirrors RangesFound SoleScoresFound
PROPERTY RefinesSortedList
CHECK_DEADLOCK FALSE
