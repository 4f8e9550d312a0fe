SPECIFICATION Spec
CONSTANTS
  t1 = t1
  t2 = t2
  h1 = h1
  h2 = h2
  None = None
  Tasks <- TwoTasks
  Handles <- TwoHandles
  Kinds <- Registrations
  MaxBytes = 1
  MaxId = 3
  MaxHistory = 1
SYMMETRY Symmetry
INVARIANTS TypeOK IndexesAgree NoOrphanToken LockHeldByRunner
PROPERTIES EvictionSparesInUse BoundAfterInsert
