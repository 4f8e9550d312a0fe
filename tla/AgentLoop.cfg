SPECIFICATION Spec
CONSTANTS
  MaxIterations = 2
  MaxCalls = 2
  MaxItems = 3
  None = None
INVARIANTS TypeOK Bracketed SteerKeepsText EffectsAccounted
PROPERTIES ImplementsRun Terminates
CHECK_DEADLOCK FALSE
