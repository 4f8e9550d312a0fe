SPECIFICATION Spec
CONSTANTS
  w1 = w1
  w2 = w2
  a1 = a1
  a2 = a2
  n1 = n1
  f1 = f1
  f2 = f2
  Workers <- TwoWorkers
  Agents <- TwoAgents
  Names <- OneName
  Fps <- TwoFps
  MaxResolves = 2
SYMMETRY Symmetry
CHECK_DEADLOCK FALSE
INVARIANTS PeersInv SettledPeers DeclarationsMatch
