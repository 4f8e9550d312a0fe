SPECIFICATION DbSpec
CONSTANTS
  k1 = k1
  k2 = k2
  v1 = v1
  v2 = v2
  Keys <- TwoKeys
  Values <- TwoValues
  Size <- OneOrTwo
  Crashes <- WithinSnapshot
  MaxCells = 7
INVARIANT OpensAfterCrash
