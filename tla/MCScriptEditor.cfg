SPECIFICATION Spec
CONSTANTS
  Workers = {w1, w2}
  Names = {a, b}
  NotFound = notfound
  NoFile = nofile
  NoScript = noscript
  MaxVersion = 1
  MaxRequests = 6
SYMMETRY MCSymmetry
INVARIANTS
  TypeOK
  WholeUnlessOverlap
  ReadWhole
  UndisturbedStays
  SaveKeepsApart
CHECK_DEADLOCK FALSE
