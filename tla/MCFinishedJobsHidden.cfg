SPECIFICATION Spec
CONSTANTS
  Ids <- MCIds
  Requests = {"valid"}
  MayDie = FALSE
  Froms <- MCFroms
  Maxes <- MCMaxes
INVARIANT FinishedAreListed
CHECK_DEADLOCK FALSE
