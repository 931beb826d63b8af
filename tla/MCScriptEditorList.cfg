SPECIFICATION Spec
CONSTANTS
  Workers = {w1, w2}
  Names = {a, b}
  NotFound = notfound
  NoFile = nofile
  NoScript = noscript
  MaxVersion = 1
  MaxRequests = 3
INVARIANT ListAnswered
CHECK_DEADLOCK FALSE
