SPECIFICATION Spec
CONSTANTS
  Contents = {a, b}
  Partial = partial
  None = none
  MaxJobs = 3
  MaxCalls = 4
INVARIANTS
  TypeOK
  AckedDurable
  NoGap
  LayoutReady
CHECK_DEADLOCK FALSE
