SPECIFICATION Spec
CONSTANTS
  Jobs <- MCJobs
  Slots = {r1, r2}
  NoJob = nojob
  max = 1
  MaxSelects = 1
SYMMETRY MCSymmetry
INVARIANTS
  TypeOK
  LogOfSelected
  ListCurrent
CHECK_DEADLOCK FALSE
