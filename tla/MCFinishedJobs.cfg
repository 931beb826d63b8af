SPECIFICATION Spec
CONSTANTS
  Ids <- MCIds
  Requests = {"valid", "malformed"}
  MayDie = TRUE
  Froms <- MCFroms
  Maxes <- MCMaxes
INVARIANTS
  TypeOK
  ResultHonest
  
  WithinMax
  ListedUnlessGap
CHECK_DEADLOCK FALSE
