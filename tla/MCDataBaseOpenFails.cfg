SPECIFICATION Spec
CONSTANTS
  Contents = {a, b}
  Partial = partial
  None = none
  MaxJobs = 4
  MaxCalls = 5
PROPERTY RequestsPreserved
CHECK_DEADLOCK FALSE
