SPECIFICATION Spec
CONSTANTS
  w1 = w1  w2 = w2  n1 = n1  crab = crab  s1 = s1  s2 = s2
  Workers <- TwoWorkers
  Names <- TwoNames
  Crab = crab
  Sources <- TwoSources
  MaxOps = 4
  MaxCrashes = 1
SYMMETRY Symmetry
INVARIANTS CatalogInv MirrorAgrees OnceFiresOnce
CHECK_DEADLOCK FALSE
