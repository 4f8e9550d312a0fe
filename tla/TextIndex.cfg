SPECIFICATION Spec
CONSTANTS
  w1 = w1  w2 = w2  s1 = s1  s2 = s2  t1 = t1  t2 = t2
  Writers <- TwoWriters
  Keys <- ThreeKeys
  Terms <- TwoTerms
  Before = 1
  After = 0
  MaxOps = 3
  MaxFaults = 1
SYMMETRY Symmetry
INVARIANTS IndexInv StaleAfterFault SearchAgrees
CHECK_DEADLOCK FALSE
