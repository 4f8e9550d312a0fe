SPECIFICATION Spec
CONSTANTS
  t1 = t1
  t2 = t2
  h1 = h1
  h2 = h2
  None = None
  Tasks <- TwoTasks
  Handles <- OneHandle
  Kinds <- AllKinds
  MaxBytes = 1
  MaxId = 2
  MaxHistory = 1
PROPERTIES EveryRequestAnswered CancelStopsRun
