SPECIFICATION Spec
CONSTANTS
  MaxTurns = 3
  MaxCrashes = 1
  MaxReconnects = 1
  MaxCompactions = 1
CHECK_DEADLOCK FALSE
INVARIANTS FilesWhole ShownIsKept
PROPERTIES LoopComesBack
