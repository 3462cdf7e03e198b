CONSTANTS
  k1 = k1
  k2 = k2
  k3 = k3
  a1 = a1
  a2 = a2
  a3 = a3
  a4 = a4
  x = x
  Keys <- MCKeys
  Texts <- MCTexts
  Blank = Blank
  Scores = {0, 1}
  NoVal = NoVal
  Kinds <- MCKinds
  Values <- MCValues
  Addr <- MCAddr
  head = head
  tail = tail
  Null = Null
  capacity = 2
SPECIFICATION SpecWithDatabase
SYMMETRY MCSymmetry
INVARIANTS TypeOK Consistent CopiesKeepUp
PROPERTY RefinesRecency
