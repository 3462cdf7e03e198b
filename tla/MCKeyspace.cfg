SPECIFICATION Spec
CONSTANTS
  k1 = k1
  k2 = k2
  v = v
  Blank = Blank
  NoVal = NoVal
  NoKey = NoKey
  Keys <- MCKeys
  Texts <- MCTexts
  Scores <- MCScores
  Ttls <- MCTtls
  MaxTime = 2
  MaxItems = 3
SYMMETRY MCSymmetry
INVARIANTS
  TypeOK
  ExpireHasKey
  OnlyStringsExpire
  ZsetOrdered
PROPERTIES
  OnlyExpiredVanish
  RefinesTtlStore
CHECK_DEADLOCK FALSE
